-------------------------------- MODULE Restore --------------------------------
(***************************************************************************)
(* What is inside a backup and what becomes of it: the snapshot it is      *)
(* copied from (internal/backup/dump.go), the sealed copy of the           *)
(* configuration (secrets.go), the check of a file (verify.go) and putting *)
(* one back into the side database (restore.go, read.go).                  *)
(*                                                                         *)
(* The queue and the catalogue are module Backup's; here one upgrader is   *)
(* asked for one thing at a time and may die between two statements.       *)
(* Every transaction of the product adds a row to each table, so a count   *)
(* per table says which moment a copy is of.                               *)
(***************************************************************************)
EXTENDS Integers, FiniteSets, FiniteSetsExt

CONSTANTS
  Sets,        \* the sets of tables, by name: [name -> tables]
  Dropped,     \* tables that lose a column in the build to come
  ConfFiles,   \* the names in the configuration directory that count
  MaxFileSize, \* MaxSecretFileBytes
  MaxTotal,    \* MaxSecretsBytes
  Room,        \* what the disk has, in rows
  FreeMargin,
  MaxTx,       \* bound on the transactions
  MaxAsked,    \* bound on what is asked of the upgrader
  MaxRestoreFaults    \* bound on crashes, failed statements and damage

VARIABLES
  live,    \* the rows of each table of the live database
  build,   \* the schema this build embeds
  key,     \* the recipient upgrader.toml names, the current password's
  file,    \* a backup of data
  sealed,  \* a backup of the configuration
  checkVerdict, \* what the last check said of the data file
  opens,   \* the recipient in use when the sealed file passed its check
  target,  \* the database restore_dsn names
  run,     \* the upgrader
  asked, restoreFaults

restoreVars == <<live, build, key, file, sealed, checkVerdict, opens, target, run, asked, restoreFaults>>
world == <<live, build, key>>
files == <<file, sealed, checkVerdict, opens>>

Secrets == "sirlar"
Tables == UNION {Sets[s] : s \in DOMAIN Sets}

\* Some set names a table, this one among them.
ASSUME RestoreAssumption == "t1" \in Tables

Absent == -1
NoFile == [is |-> FALSE]
Zero == [t \in Tables |-> 0]
Idle == [at |-> "off", tables |-> {}, todo |-> {}, got |-> Zero, from |-> Zero]
Target(is) ==
  [is |-> is, built |-> IF is = "side" THEN {} ELSE Tables, marked |-> FALSE,
   ours |-> is = "side", rows |-> Zero]

RestoreInit ==
  /\ live = Zero /\ build = 1 /\ key = "none"
  /\ file = NoFile /\ sealed = NoFile /\ checkVerdict = "none" /\ opens = "none"
  /\ target = Target("none") /\ run = Idle
  /\ asked = MaxAsked /\ restoreFaults = MaxRestoreFaults

RestoreAt(step) == run.at = step
RestoreEnd == run' = Idle
AskRestore == RestoreAt("off") /\ asked > 0 /\ asked' = asked - 1
RestoreFault == restoreFaults > 0 /\ restoreFaults' = restoreFaults - 1

-----------------------------------------------------------------------------
(* The world around the upgrader.                                          *)

Transaction ==
  /\ live["t1"] < MaxTx /\ live' = [t \in Tables |-> live[t] + 1]
  /\ UNCHANGED <<build, key, files, target, run, asked, restoreFaults>>

Upgrade ==
  /\ RestoreAt("off") /\ build = 1 /\ build' = 2
  /\ UNCHANGED <<live, key, files, target, run, asked, restoreFaults>>

\* devpass -recipient, and the line put into upgrader.toml.
NewPassword ==
  /\ RestoreAt("off")
  /\ \/ key = "none" /\ key' = "k1"
     \/ key = "k1" /\ key' = "k2"
  /\ UNCHANGED <<live, build, files, target, run, asked, restoreFaults>>

\* The operator names an empty database made for it, somebody else's, or by
\* mistake the live one.
Configure ==
  /\ RestoreAt("off") /\ target.is = "none"
  /\ \E is \in {"side", "other", "live"} : target' = Target(is)
  /\ UNCHANGED <<world, files, run, asked, restoreFaults>>

\* The file is replaced by a damaged one: rows are lost, an entry goes or
\* comes, or what is there is no longer what was written.
Damage ==
  /\ RestoreFault /\ file.is /\ RestoreAt("off")
  /\ \/ \E t \in Tables, n \in {Absent, 0} : file' = [file EXCEPT !.same = FALSE, !.data[t] = n]
     \/ file' = [file EXCEPT !.same = FALSE, !.man = {}, !.rows = Zero]
     \/ file' = [file EXCEPT !.same = FALSE, !.true = FALSE]
  /\ checkVerdict' = "none"
  /\ UNCHANGED <<world, sealed, opens, target, run, asked>>

DamageSealed ==
  /\ RestoreFault /\ sealed.is /\ RestoreAt("off")
  /\ \/ sealed' = [sealed EXCEPT !.same = FALSE, !.man = FALSE]
     \/ sealed' = [sealed EXCEPT !.same = FALSE, !.payload = FALSE]
     \/ sealed' = [sealed EXCEPT !.same = FALSE, !.header = FALSE]
  /\ opens' = "none"
  /\ UNCHANGED <<world, file, checkVerdict, target, run, asked>>

Crash ==
  /\ RestoreFault /\ ~RestoreAt("off") /\ RestoreEnd
  /\ UNCHANGED <<world, files, target, asked>>

-----------------------------------------------------------------------------
(* Taking one.                                                             *)

\* KindOf: the configuration and the data do not share a file.
KindOf(sets) ==
  IF sets = {} \/ (Secrets \in sets /\ sets # {Secrets}) THEN "refused"
  ELSE IF Secrets \in sets THEN "secrets" ELSE "data"

TablesFor(sets) == UNION {Sets[s] : s \in sets}

\* A tenth of the disk, and FreeMargin at most.
MarginFor == Min({Room \div 10, FreeMargin})

\* Measure: a compressed file is taken to be a third of its tables.
FileBytes(tables) == SumSet({live[t] : t \in tables}) \div 3

Fits(bytes) == Room >= bytes + MarginFor

\* Write: the transaction is opened, and now() is read inside it.
Snapshot ==
  /\ AskRestore
  /\ \E sets \in SUBSET DOMAIN Sets :
       /\ KindOf(sets) = "data" /\ Fits(FileBytes(TablesFor(sets)))
       /\ run' = [Idle EXCEPT !.at = "copy", !.tables = TablesFor(sets),
                               !.todo = TablesFor(sets), !.from = live]
  /\ UNCHANGED <<world, files, target, restoreFaults>>

\* What is asked cannot be in one file, or there is no room for it.
RestoreRefuse ==
  /\ AskRestore
  /\ \E sets \in SUBSET (DOMAIN Sets \union {Secrets}) :
       KindOf(sets) = "refused" \/ (KindOf(sets) = "data" /\ ~Fits(FileBytes(TablesFor(sets))))
  /\ UNCHANGED <<world, files, target, run, restoreFaults>>

\* Mutant of Seen: each table is read as it is when its turn comes.
SeenNow(t) == live[t]

\* A repeatable read: what the snapshot saw.
Seen(t) == run.from[t]

CopyTable ==
  /\ RestoreAt("copy")
  /\ \E t \in run.todo :
       run' = [run EXCEPT !.todo = @ \ {t}, !.got[t] = Seen(t)]
  /\ UNCHANGED <<world, files, target, asked, restoreFaults>>

\* The manifest is written last, the container closed and named.
Written ==
  /\ RestoreAt("copy") /\ run.todo = {}
  /\ file' = [is |-> TRUE, man |-> run.tables, rows |-> run.got, version |-> build,
              same |-> TRUE, true |-> TRUE,
              data |-> [t \in Tables |-> IF t \in run.tables THEN run.got[t] ELSE Absent]]
  /\ checkVerdict' = "none" /\ RestoreEnd
  /\ UNCHANGED <<world, sealed, opens, target, asked, restoreFaults>>

-----------------------------------------------------------------------------
(* The configuration, sealed.                                              *)

\* What Lstat and ReadFile say of each name: a size, or that it is skipped, not
\* being a regular file or not being readable.
Skipped == -1
ConfDirs == [ConfFiles -> Skipped..(MaxFileSize + 1)]

Read(dir) == {n \in ConfFiles : dir[n] # Skipped}

\* CollectSecrets: too large a file, or too much of them, or nothing at all.
Collectable(dir) ==
  /\ \A n \in Read(dir) : dir[n] <= MaxFileSize
  /\ MapThenSumSet(LAMBDA n : dir[n], Read(dir)) <= MaxTotal
  /\ Read(dir) # {}

SecretBytes(dir) == 2 * MapThenSumSet(LAMBDA n : dir[n], Read(dir))

\* sealSecrets and secretsHeader: what says which key opens it, and from when
\* it is, is bound to what is sealed.
SealedTo(recipient) ==
  [is |-> TRUE, key |-> recipient, same |-> TRUE, man |-> TRUE, payload |-> TRUE, header |-> TRUE]

\* writeSecrets: the recipient, the files, the room, and then the file.
Seal ==
  /\ AskRestore
  /\ IF key = "none" THEN UNCHANGED <<sealed, opens>>
     ELSE \E dir \in ConfDirs :
       IF Collectable(dir) /\ Fits(SecretBytes(dir))
       THEN sealed' = SealedTo(key) /\ opens' = "none"
       ELSE UNCHANGED <<sealed, opens>>
  /\ UNCHANGED <<world, file, checkVerdict, target, run, restoreFaults>>

-----------------------------------------------------------------------------
(* Checking one.                                                           *)

\* walkArchive and verifyTables: each table the manifest names is there with
\* its rows, and nothing is there that it does not name.
TablesAgree ==
  /\ file.man # {}
  /\ \A t \in file.man : file.data[t] = file.rows[t]
  /\ \A t \in Tables \ file.man : file.data[t] = Absent

\* Verify: the size and the checksum of the catalogue, and the tables.
Passes == file.same /\ TablesAgree

Check ==
  /\ AskRestore /\ file.is
  /\ checkVerdict' = IF Passes THEN "passed" ELSE "failed"
  /\ UNCHANGED <<world, file, sealed, opens, target, run, restoreFaults>>

\* verifySecrets: with no recipient set there is nothing to compare.
SealedPasses ==
  sealed.same /\ sealed.payload /\ sealed.man /\ (key # "none" => sealed.key = key)

CheckSealed ==
  /\ AskRestore /\ sealed.is
  /\ opens' = IF SealedPasses THEN key ELSE "none"
  /\ UNCHANGED <<world, file, sealed, checkVerdict, target, run, restoreFaults>>

\* OpenSecrets: readSecrets, then the password's identity, then the header.
Opens(password) ==
  sealed.man /\ sealed.payload /\ sealed.key = password /\ sealed.header

-----------------------------------------------------------------------------
(* Putting one back.                                                       *)

\* putBack: a sealed file goes nowhere, and without a target nothing does.
RestoreBegin ==
  /\ AskRestore /\ file.is /\ target.is # "none"
  /\ run' = [Idle EXCEPT !.at = "probe"]
  /\ UNCHANGED <<world, files, target, restoreFaults>>

\* sameDatabase: the lock of one database, tried in the other.  That it could
\* not be told is logged, and the restore goes on.
Probe ==
  /\ RestoreAt("probe")
  /\ \/ target.is = "live" /\ RestoreEnd /\ UNCHANGED restoreFaults
     \/ target.is # "live" /\ run' = [run EXCEPT !.at = "look"] /\ UNCHANGED restoreFaults
     \/ RestoreFault /\ run' = [run EXCEPT !.at = "look"]
  /\ UNCHANGED <<world, files, target, asked>>

\* Mutant of Owned: a database with tables is taken for one that may go.
OwnedAlways == TRUE

\* checkTarget.
Owned == target.built = {} \/ target.marked

Look ==
  /\ RestoreAt("look")
  /\ IF Owned THEN run' = [run EXCEPT !.at = "wipe"] ELSE RestoreEnd
  /\ UNCHANGED <<world, files, target, asked, restoreFaults>>

\* DROP SCHEMA ... CASCADE: everything, the marker with it.
Wipe ==
  /\ RestoreAt("wipe")
  /\ target' = [target EXCEPT !.built = {}, !.marked = FALSE, !.rows = Zero]
  /\ run' = [run EXCEPT !.at = "build", !.todo = Tables]
  /\ UNCHANGED <<world, files, asked, restoreFaults>>

\* The schema files of this build, each in its own statement.
Build ==
  /\ RestoreAt("build")
  /\ \E t \in run.todo :
       /\ target' = [target EXCEPT !.built = @ \union {t}]
       /\ run' = [run EXCEPT !.todo = @ \ {t}]
  /\ UNCHANGED <<world, files, asked, restoreFaults>>

\* mark, and then ReadManifest.
Mark ==
  /\ RestoreAt("build") /\ run.todo = {}
  /\ target' = [target EXCEPT !.marked = TRUE]
  /\ IF file.man = {} THEN RestoreEnd
     ELSE run' = [run EXCEPT !.at = "rows", !.tables = {t \in Tables : file.data[t] # Absent},
                             !.todo = {t \in Tables : file.data[t] # Absent}]
  /\ UNCHANGED <<world, files, asked, restoreFaults>>

\* The manifest names every column the file has of a table; one this build no
\* longer has stops the copy.
ColumnsExist(t) == file.version = build \/ t \notin Dropped

Arrived(t) == file.data[t] = file.rows[t]

\* COPY of one table's entry: what fails to go in leaves nothing, and what went
\* in stays when the count is wrong.
PutRows ==
  /\ RestoreAt("rows")
  /\ \E t \in run.todo :
       IF t \notin file.man \/ ~ColumnsExist(t)
       THEN RestoreEnd /\ UNCHANGED target
       ELSE /\ target' = [target EXCEPT !.rows[t] = file.data[t]]
            /\ IF Arrived(t) THEN run' = [run EXCEPT !.todo = @ \ {t}] ELSE RestoreEnd
  /\ UNCHANGED <<world, files, asked, restoreFaults>>

Restored ==
  /\ RestoreAt("rows") /\ run.todo = {} /\ run' = [run EXCEPT !.at = "restored"]
  /\ UNCHANGED <<world, files, target, asked, restoreFaults>>

Reported ==
  /\ RestoreAt("restored") /\ RestoreEnd
  /\ UNCHANGED <<world, files, target, asked, restoreFaults>>

\* A statement fails: the restore stops where it is.
Fails ==
  /\ RestoreFault /\ run.at \in {"copy", "wipe", "build", "rows"} /\ RestoreEnd
  /\ UNCHANGED <<world, files, target, asked>>

RestoreNext ==
  \/ Transaction \/ Upgrade \/ NewPassword \/ Configure
  \/ Damage \/ DamageSealed \/ Crash
  \/ Snapshot \/ RestoreRefuse \/ CopyTable \/ Written \/ Seal \/ Check \/ CheckSealed
  \/ RestoreBegin \/ Probe \/ Look \/ Wipe \/ Build \/ Mark \/ PutRows \/ Restored
  \/ Reported \/ Fails

RestoreSpec == RestoreInit /\ [][RestoreNext]_restoreVars

-----------------------------------------------------------------------------
(* Properties.                                                             *)

\* An intact backup is of one moment: every transaction committed by then is
\* in each of its tables and no later one is in any (dump.go:117).
OneMoment ==
  (file.is /\ file.same) => \A t, u \in file.man : file.rows[t] = file.rows[u]

\* The only database ever emptied is one that was empty, or holds what an
\* earlier restore put there: the live one is safe even when the probe could
\* not tell (restore.go:373).
OnlyOursIsWiped == target.is \in {"other", "live"} => target.built = Tables

\* The tables that the manifest names and the archive holds nothing of.
LeftOut == {t \in Tables : t \in file.man /\ file.data[t] = Absent}

\* A restore that reports success has put back every row that the manifest
\* names of every table but those the archive holds nothing of, which it does
\* not notice (read.go:133-178).  There are none of those in a file as it was
\* written or one that passed its check, and what passed is what was copied
\* (verify.go:103).
RestoredIsTheFile ==
  RestoreAt("restored") =>
    /\ \A t \in Tables : t \in file.man \ LeftOut => target.rows[t] = file.rows[t]
    /\ file.is /\ file.same => LeftOut = {}
    /\ checkVerdict = "passed" => LeftOut = {} /\ file.true

\* A sealed file that passed its check is opened by the password of the
\* recipient it was checked against, whatever the password is now
\* (verify.go:295, secrets.go:541).
CheckedOpens == opens # "none" => Opens(opens)

\* What a backup says of itself is so, when it is taken, checked and restored.
BackupsAreTrue == OneMoment /\ RestoredIsTheFile /\ CheckedOpens
=============================================================================
