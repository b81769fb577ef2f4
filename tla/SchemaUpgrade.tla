---------------------------- MODULE SchemaUpgrade ----------------------------
(***************************************************************************)
(* The upgrader's whole pass (cmd/upgrader): the release update of Release *)
(* and then the schema upgrade (internal/upgrade, internal/applier,        *)
(* internal/schemaver, panel/upgraderequest.go, web/upgrade.go).  The two  *)
(* meet in the versions: the panel that runs decides which schema is asked *)
(* for, and the upgrader that was started decides which one it carries.    *)
(*                                                                         *)
(* The database may serve other hosts too, whose upgraders claim from the  *)
(* same queue.  A claim goes stale, and its applier may be slow and not    *)
(* dead: the advisory lock is what keeps two out of the schema.            *)
(***************************************************************************)
EXTENDS Release

CONSTANTS
  Others,       \* the other hosts
  SchemaFiles,  \* schemafiles.InOrder: 1..SchemaFiles
  ClaimStale,   \* how old a claim may get, in ticks
  Backups,      \* whether a backup directory is configured
  MaxVisits     \* (bound) passes of the other hosts' upgraders

ASSUME SchemaAssumption ==
  /\ SchemaFiles \in Nat \ {0} /\ ClaimStale \in Nat \ {0} /\ Backups \in BOOLEAN
  /\ MaxVisits \in Nat /\ Others \cap {"here", "nobody"} = {}

Hosts == Others \union {"here"}

VARIABLES
  upgrade, \* the newest row of panel_upgrade_requests; older ones have ended
  pass,    \* each host's applier: where it is and what it holds
  inside,  \* who holds the advisory lock dblock.SchemaApply
  shape,   \* the version whose text each schema file was last applied from
  schemaRecord, \* schema_version
  visits,
  swept,   \* history: the requests whose claim was found to be stale
  overran  \* history: the last to enter held a claim that was no longer its own

svars == <<upgrade, pass, inside, shape, schemaRecord, visits, swept, overran>>
upgradeVars == <<rvars, svars>>

NoUpgrade == [st |-> "none", id |-> 0, to |-> 0, age |-> 0]
NoPass == [at |-> "off", carry |-> 0, todo |-> {}, id |-> 0, to |-> 0, copied |-> FALSE]

UpgradeInit ==
  /\ ReleaseInit
  /\ upgrade = NoUpgrade /\ pass = [h \in Hosts |-> NoPass] /\ inside = "nobody"
  /\ schemaRecord \in {0, 1} /\ shape = [f \in 1..SchemaFiles |-> schemaRecord]
  /\ visits = 0 /\ swept = {} /\ overran = FALSE

\* Matches: what the database records is what this build expects.
Matches(v) == schemaRecord = v

\* Of what the asking panel's binary expects, whatever is deployed later.
AskedUpgrade(v) == [NoUpgrade EXCEPT !.st = "pending", !.id = upgrade.id + 1, !.to = v]

\* Asked by the panel here, or by one of another host.
QueueUpgrade(v) ==
  /\ v # 0 /\ (v = running["panel"] \/ Others # {}) /\ ~Pending(upgrade) /\ ~Matches(v)
  /\ releasesAsked < MaxAsks /\ releasesAsked' = releasesAsked + 1
  /\ upgrade' = AskedUpgrade(v)
  /\ UNCHANGED <<rel, onDisk, installation, upgrader, crashes, witnesses>>
  /\ UNCHANGED <<pass, inside, shape, schemaRecord, visits, swept, overran>>

-----------------------------------------------------------------------------
(* One pass of an applier.                                                 *)

PassAt(h, p) == pass[h].at = p
PassGoes(h, p) == pass' = [pass EXCEPT ![h].at = p] /\ UNCHANGED upgrader
Rest == <<rel, onDisk, installation, releasesAsked, crashes, witnesses>>

\* The pass ends, and a connection that is closed holds no lock.
Leaves(h) ==
  /\ pass' = [pass EXCEPT ![h] = NoPass]
  /\ upgrader' = IF h = "here" THEN UpgraderOff ELSE upgrader
  /\ inside' = IF inside = h THEN "nobody" ELSE inside

\* The row an applier writes to is the one it claimed, which need not be the
\* newest any more.
Own(h) == pass[h].id = upgrade.id
StillClaimed(h) == Own(h) /\ upgrade.st = "running"

Ends(h, st) ==
  /\ Leaves(h)
  /\ upgrade' \in {upgrade, IF Own(h) THEN [upgrade EXCEPT !.st = st] ELSE upgrade}

\* The backups of the pass come between and are in Backup.
ReleaseStaleClaims(h, v) ==
  /\ PassAt(h, "off")
  /\ \/ h = "here" /\ UpgraderAt("schema") /\ UpgraderGoes("applying") /\ v = upgrader.carry /\ UNCHANGED visits
     \/ h # "here" /\ visits < MaxVisits /\ visits' = visits + 1 /\ UNCHANGED upgrader
  /\ pass' = [pass EXCEPT ![h] = [NoPass EXCEPT !.at = "claim", !.carry = v]]
  /\ \/ UNCHANGED <<upgrade, swept>>
     \/ /\ upgrade.st = "running" /\ upgrade.age >= ClaimStale
        /\ upgrade' = [upgrade EXCEPT !.st = "failed"] /\ swept' = swept \union {upgrade.id}
  /\ UNCHANGED <<Rest, inside, shape, schemaRecord, overran>>

ClaimUpgrade(h) ==
  /\ PassAt(h, "claim")
  /\ \/ /\ upgrade.st = "pending" /\ upgrade' = [upgrade EXCEPT !.st = "running", !.age = 0]
        /\ pass' = [pass EXCEPT ![h].at = "check", ![h].id = upgrade.id, ![h].to = upgrade.to]
        /\ UNCHANGED <<upgrader, inside>>
     \/ upgrade.st # "pending" /\ Leaves(h) /\ UNCHANGED upgrade
  /\ UNCHANGED <<Rest, shape, schemaRecord, visits, swept, overran>>

NotThisBinary(h) == pass[h].to # pass[h].carry

CheckFingerprint(h) ==
  /\ PassAt(h, "check")
  /\ IF NotThisBinary(h) THEN Ends(h, "failed") ELSE PassGoes(h, "backup") /\ UNCHANGED <<upgrade, inside>>
  /\ UNCHANGED <<Rest, shape, schemaRecord, visits, swept, overran>>

\* Only "there is no backup directory" lets it go on without one.  A copy may
\* take longer than a claim lasts.
backUp(h) ==
  /\ PassAt(h, "backup")
  /\ \/ /\ pass' = [pass EXCEPT ![h].at = "enter", ![h].todo = 1..SchemaFiles, ![h].copied = TRUE]
        /\ UNCHANGED <<upgrader, upgrade, inside>>
     \/ Backups /\ Ends(h, "failed")
  /\ UNCHANGED <<Rest, shape, schemaRecord, visits, swept, overran>>

\* (mutant) The lock is not taken.
NobodyIsAsked == TRUE

Free == inside = "nobody"

\* pg_advisory_lock.  Whether the request is still this applier's is not asked
\* again.
EnterSchema(h) ==
  /\ PassAt(h, "enter") /\ Free /\ PassGoes(h, "files") /\ inside' = h
  /\ overran' = ~StillClaimed(h)
  /\ UNCHANGED <<Rest, upgrade, shape, schemaRecord, visits, swept>>

\* A file is one transaction: it goes in whole or not at all.
ApplyFile(h) ==
  /\ PassAt(h, "files") /\ pass[h].todo # {}
  /\ LET f == CHOOSE f \in pass[h].todo : \A g \in pass[h].todo : f <= g IN
     /\ shape' = [shape EXCEPT ![f] = pass[h].carry]
     /\ pass' = [pass EXCEPT ![h].todo = @ \ {f}]
  /\ UNCHANGED <<Rest, upgrader, upgrade, inside, schemaRecord, visits, swept, overran>>

\* A lock was not to be had, a table's or the schema's own: back in the queue,
\* or left running when that statement fails too.
Requeue(h) ==
  /\ PassAt(h, "enter") \/ PassAt(h, "files")
  /\ Leaves(h)
  /\ upgrade' \in {upgrade, IF StillClaimed(h) THEN [upgrade EXCEPT !.st = "pending"] ELSE upgrade}
  /\ UNCHANGED <<Rest, shape, schemaRecord, visits, swept, overran>>

ApplyFails(h) ==
  /\ PassAt(h, "enter") \/ PassAt(h, "files")
  /\ Ends(h, "failed")
  /\ UNCHANGED <<Rest, shape, schemaRecord, visits, swept, overran>>

\* The record, and the lock is given back.
recordOn(h) ==
  /\ PassAt(h, "files") /\ pass[h].todo = {} /\ PassGoes(h, "applied") /\ schemaRecord' = pass[h].carry
  /\ inside' = IF inside = h THEN "nobody" ELSE inside
  /\ UNCHANGED <<Rest, upgrade, shape, visits, swept, overran>>

FinishUpgrade(h) ==
  /\ PassAt(h, "applied") /\ Ends(h, "succeeded")
  /\ UNCHANGED <<Rest, shape, schemaRecord, visits, swept, overran>>

\* A kill ends the pass, whichever part of it is running.
UpgraderCrash ==
  /\ ~UpgraderAt("off") /\ Killed
  /\ pass' = [pass EXCEPT !["here"] = NoPass]
  /\ inside' = IF inside = "here" THEN "nobody" ELSE inside
  /\ UNCHANGED <<upgrade, shape, schemaRecord, visits, swept, overran>>

OtherCrash(h) ==
  /\ h # "here" /\ ~PassAt(h, "off") /\ Leaves(h)
  /\ UNCHANGED <<Rest, upgrade, shape, schemaRecord, visits, swept, overran>>

Older(r, n) == [r EXCEPT !.age = IF r.st = "running" /\ @ < n THEN @ + 1 ELSE @]
UpgradeTick ==
  /\ rel' = Older(rel, ReleaseStale) /\ upgrade' = Older(upgrade, ClaimStale)
  /\ UNCHANGED <<onDisk, installation, upgrader, releasesAsked, crashes, witnesses>>
  /\ UNCHANGED <<pass, inside, shape, schemaRecord, visits, swept, overran>>

SchemaStep(h) ==
  \/ ClaimUpgrade(h) \/ CheckFingerprint(h) \/ backUp(h) \/ EnterSchema(h)
  \/ ApplyFile(h) \/ Requeue(h) \/ ApplyFails(h) \/ recordOn(h) \/ FinishUpgrade(h) \/ OtherCrash(h)
  \/ \E v \in Versions : ReleaseStaleClaims(h, v)

UpgraderPass == (UpgraderStart \/ InstallStep) /\ UNCHANGED svars

UpgradeNext ==
  \/ UpgraderPass \/ UpgraderCrash \/ UpgradeTick
  \/ \E h \in Hosts : SchemaStep(h)
  \/ \E v \in Versions : QueueUpgrade(v)
  \/ (AskByHand \/ WorldStep \/ \E v \in Versions : QueueRelease(v)) /\ UNCHANGED svars

UpgradeSpec == UpgradeInit /\ [][UpgradeNext]_upgradeVars

-----------------------------------------------------------------------------
(* Properties.                                                             *)

\* What is said to have succeeded is there: every binary of the package, every
\* file of the schema and its record.  The schema may be undone by an applier
\* that had lost its claim and went in after (dblock.go:61-65).
SucceededIsComplete ==
  /\ rel.st = "succeeded" => \A b \in Binaries : bin[b] = rel.to
  /\ upgrade.st = "succeeded" /\ ~overran =>
       schemaRecord = upgrade.to /\ \A f \in 1..SchemaFiles : shape[f] = upgrade.to

\* No statement of a schema is run but by the one applier that is inside it,
\* for a request that asked for that very schema, after the backup it owes
\* (applier.go: ErrNotThisBinary, ErrBackupFailed), and that it still holds or
\* was slow enough to lose.
AppliesWhatWasAsked ==
  shape' # shape \/ schemaRecord' # schemaRecord =>
    /\ inside \in Hosts /\ pass[inside].to = pass[inside].carry /\ pass[inside].copied
    /\ StillClaimed(inside) \/ pass[inside].id \in swept

\* The record changes only to a schema all of whose files are applied: two
\* appliers never leave it half of one and half of another (applier.go:324).
RecordIsWhole ==
  schemaRecord' # schemaRecord => \A f \in 1..SchemaFiles : shape[f] = schemaRecord'

\* A schema is applied whole because it was asked for, and a success is one.
UpgradesAreTrue == [][AppliesWhatWasAsked /\ RecordIsWhole /\ SucceededIsComplete']_upgradeVars
==============================================================================
