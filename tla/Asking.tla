-------------------------------- MODULE Asking --------------------------------
(***************************************************************************)
(* The buttons of the health page that ask another process for work: a     *)
(* backup, its check and its restore, a release, a schema upgrade, a range *)
(* refresh, a restart.  Each handler (panel/web) opens an operation        *)
(* record, compares the developer password where the work has one, asks    *)
(* the store (panel/*request.go), reads the section again and closes the   *)
(* record with what the press came to.                                     *)
(*                                                                         *)
(* What the upgrader then does with a request is in the modules Backup,    *)
(* Restore, Release, SchemaUpgrade, Ranges and RestartRequest.             *)
(***************************************************************************)
EXTENDS Naturals, FiniteSets

CONSTANTS
  Presses,     \* the requests of browsers
  MaxFaults,   \* bound on the statements that fail
  MaxChanges   \* bound on how often the locks change

\* The three backup buttons share a queue, whose index lets one in at a time;
\* the "queue" of restarts is the spacing.
QueueOf(w) == IF w \in {"backup", "secrets", "verify", "restore"} THEN "backup" ELSE w
\* The work whose password is asked for by a setting.
Lockable == {"release", "upgrade"}

VARIABLES
  inFlight,  \* the queues with a request that is pending or running
  locks,     \* the lockable work that is locked
  matches,   \* the schema is the one this build expects
  press,     \* what each handler has got to
  record,    \* panel_operations: the row of each press
  audit,     \* the presses the audit log names
  faults, changes

askingVars == <<inFlight, locks, matches, press, record, audit, faults, changes>>

NoPress == [at |-> "new", work |-> "none", entitled |-> FALSE, auth |-> FALSE, err |-> "none",
            queued |-> FALSE, seen |-> TRUE, open |-> TRUE]
NoRow == "none"

AskingInit ==
  /\ inFlight = {} /\ locks = Lockable /\ matches = FALSE
  /\ press = [p \in Presses |-> NoPress] /\ record = [p \in Presses |-> NoRow]
  /\ audit = {} /\ faults = MaxFaults /\ changes = MaxChanges

Fault == faults > 0 /\ faults' = faults - 1
Step(p, from) == press[p].at = from

-----------------------------------------------------------------------------
(* What the others do.                                                     *)

\* A request is answered, and an upgrade that succeeded leaves the schema
\* matching.
Served ==
  /\ \E q \in inFlight :
       /\ inFlight' = inFlight \ {q}
       /\ matches' \in IF q = "upgrade" THEN {matches, TRUE} ELSE {matches}
  /\ UNCHANGED <<locks, press, record, audit, faults, changes>>

\* The developer locks work, or unlocks it.  History: which presses have seen
\* it unlocked.
SetLock ==
  /\ changes > 0 /\ changes' = changes - 1
  /\ \E w \in Lockable :
       locks' = IF w \in locks THEN locks \ {w} ELSE locks \union {w}
  /\ press' = [p \in Presses |->
                [press[p] EXCEPT !.open = @ \/ press[p].work \notin locks']]
  /\ UNCHANGED <<inFlight, matches, record, audit, faults>>

-----------------------------------------------------------------------------
(* A press, in the handler's order.                                        *)

\* BeginOperation; the work is done without a record when it fails.
BeginOperation(p, w, next) ==
  /\ Step(p, "new")
  /\ \E who \in BOOLEAN :
       press' = [press EXCEPT ![p] = [NoPress EXCEPT !.at = next, !.work = w,
                                        !.entitled = who, !.open = w \notin locks]]
  /\ \/ record' = [record EXCEPT ![p] = "open"] /\ UNCHANGED faults
     \/ Fault /\ UNCHANGED record
  /\ UNCHANGED <<inFlight, locks, matches, audit, changes>>

\* The handlers: four of them compare the password first, whatever the lock
\* says.
backupPost(p) == \E w \in {"backup", "secrets"} : BeginOperation(p, w, "verify")
releasePost(p) == BeginOperation(p, "release", "verify")
upgradePost(p) == BeginOperation(p, "upgrade", "verify")
restartPost(p) == BeginOperation(p, "restart", "verify")
backupVerifyPost(p) == BeginOperation(p, "verify", "request")
backupRestorePost(p) == BeginOperation(p, "restore", "request")
rangeRefreshPost(p) == BeginOperation(p, "ranges", "request")

\* Gate.Verify: an authorization for this work, or none.
Verify(p) ==
  /\ Step(p, "verify")
  /\ \E right \in BOOLEAN : press' = [press EXCEPT ![p].at = "request", ![p].auth = right]
  /\ UNCHANGED <<inFlight, locks, matches, record, audit, faults, changes>>

Refuse(p, err) == press' = [press EXCEPT ![p].at = "status", ![p].err = err]

\* One of the store's checks, in a statement before the one that asks:
\* mayOperateDeployment first, then what the work needs.
Checked(p, w, ok) ==
  /\ Step(p, "request") /\ press[p].work = w
  /\ \/ (press[p].entitled /\ ok) /\ press' = [press EXCEPT ![p].at = "ask"] /\ UNCHANGED faults
     \/ ~(press[p].entitled /\ ok) /\ Refuse(p, "refused") /\ UNCHANGED faults
     \/ Fault /\ Refuse(p, "failed")
  /\ UNCHANGED <<inFlight, locks, matches, record, audit, changes>>

\* KindOf, the password for the configuration, TablesFor.
RequestBackup(p) ==
  \E w \in {"backup", "secrets"}, sets \in BOOLEAN :
    Checked(p, w, sets /\ (w = "secrets" => press[p].auth))

VerifyBackup(p) == Checked(p, "verify", TRUE)
RestoreBackup(p) == Checked(p, "restore", TRUE)
RequestRangeRefresh(p) == Checked(p, "ranges", TRUE)

\* The lock, and a version that could be one.
RequestRelease(p) ==
  \E valid \in BOOLEAN :
    Checked(p, "release", ("release" \in locks => press[p].auth) /\ valid)

RequestUpgrade(p) ==
  Checked(p, "upgrade", ("upgrade" \in locks => press[p].auth) /\ ~matches)

\* The password, and then a service that is one, hears and has reported.
RequestRestart(p) == \E askable \in BOOLEAN : Checked(p, "restart", press[p].auth /\ askable)

\* What an in-flight index answers with: the queues of releases and upgrades
\* return their own error, the others one of the panel's refusals.
Busy(w) == IF w \in {"release", "upgrade"} THEN "busy" ELSE "refused"

\* Ask: the row, unless one is in flight, and then its audit entry, whose
\* failure changes nothing.  A restart's is in the row's transaction.  The
\* answer of a statement that did commit may be lost.
Ask(p) ==
  LET w == press[p].work IN
  /\ Step(p, "ask")
  /\ \/ QueueOf(w) \in inFlight /\ Refuse(p, Busy(w)) /\ UNCHANGED <<inFlight, audit, faults>>
     \/ /\ QueueOf(w) \notin inFlight
        /\ inFlight' = inFlight \union {QueueOf(w)}
        /\ press' = [press EXCEPT ![p].at = "status", ![p].queued = TRUE]
        /\ \/ audit' = audit \union {p} /\ UNCHANGED faults
           \/ w # "restart" /\ Fault /\ UNCHANGED audit
     \/ /\ QueueOf(w) \notin inFlight /\ Fault
        /\ inFlight' = inFlight \union {QueueOf(w)}
        /\ press' = [press EXCEPT ![p].at = "status", ![p].queued = TRUE, ![p].err = "lost"]
        /\ audit' = IF w = "restart" THEN audit \union {p} ELSE audit
     \/ Fault /\ Refuse(p, "failed") /\ UNCHANGED <<inFlight, audit>>
  /\ UNCHANGED <<locks, matches, record, changes>>

\* The section is read again, and what cannot be read ends the press.
ReadStatus(p) ==
  /\ Step(p, "status")
  /\ \/ press' = [press EXCEPT ![p].at = "finish"] /\ UNCHANGED faults
     \/ Fault /\ press' = [press EXCEPT ![p].at = "finish", ![p].seen = FALSE]
  /\ UNCHANGED <<inFlight, locks, matches, record, audit, changes>>

\* (mutant) An error that is not on the list is a success.
OutcomeListed(p) ==
  CASE ~press[p].seen -> "failed"
    [] press[p].seen /\ press[p].err = "refused" -> "refused"
    [] OTHER -> "succeeded"

\* outcomeFor: what operationRefusals lists is refused, every other error is
\* failed.
Outcome(p) ==
  CASE ~press[p].seen -> "failed"
    [] press[p].seen /\ press[p].err = "none" -> "succeeded"
    [] press[p].seen /\ press[p].err = "refused" -> "refused"
    [] OTHER -> "failed"

\* Finish; a record that was never opened is not closed, and closing may fail.
Finish(p) ==
  /\ Step(p, "finish")
  /\ press' = [press EXCEPT ![p].at = "done"]
  /\ \/ record' = [record EXCEPT ![p] = IF @ = NoRow THEN NoRow ELSE Outcome(p)]
        /\ UNCHANGED faults
     \/ Fault /\ UNCHANGED record
  /\ UNCHANGED <<inFlight, locks, matches, audit, changes>>

\* The panel stops in the middle.
Stop ==
  /\ Fault
  /\ press' = [p \in Presses |-> [press[p] EXCEPT !.at = IF @ = "new" THEN @ ELSE "done"]]
  /\ UNCHANGED <<inFlight, locks, matches, record, audit, changes>>

Posts(p) ==
  \/ backupPost(p) \/ backupVerifyPost(p) \/ backupRestorePost(p)
  \/ releasePost(p) \/ upgradePost(p) \/ rangeRefreshPost(p) \/ restartPost(p)

Requests(p) ==
  \/ RequestBackup(p) \/ VerifyBackup(p) \/ RestoreBackup(p)
  \/ RequestRelease(p) \/ RequestUpgrade(p) \/ RequestRangeRefresh(p) \/ RequestRestart(p)

AskingNext ==
  \/ Served \/ SetLock \/ Stop
  \/ \E p \in Presses :
       Posts(p) \/ Verify(p) \/ Requests(p) \/ Ask(p) \/ ReadStatus(p) \/ Finish(p)

AskingSpec == AskingInit /\ [][AskingNext]_askingVars

-----------------------------------------------------------------------------
(* Properties.                                                             *)

\* The record and the audit log tell the truth about the queue: "succeeded"
\* and an audit entry only for a request that was queued, "refused" and
\* "failed" only for one that was not (backuprequest.go:168-178,
\* operations.go:183).  Two presses are recorded as failed with their request
\* queued: one whose section could not be read afterwards (web/backup.go:253),
\* and one that did not hear that its row was written.
RecordsAreTrue ==
  /\ audit \subseteq {p \in Presses : press[p].queued}
  /\ \A p \in Presses :
       /\ record[p] = "succeeded" => press[p].queued
       /\ record[p] = "refused" => ~press[p].queued
       /\ record[p] = "failed" /\ press[p].queued => ~press[p].seen \/ press[p].err = "lost"

\* Work that needs the developer password is queued without it only when its
\* lock was open at some time during the press (releaserequest.go:149).
PasswordIsAsked ==
  \A p \in Presses :
    press[p].queued /\ ~press[p].auth =>
      press[p].work \notin {"secrets", "restart"} /\ (press[p].work \in Lockable => press[p].open)

\* A press of one of the buttons is allowed, and told as it was.
PressesAreHonest == RecordsAreTrue /\ PasswordIsAsked
=============================================================================
