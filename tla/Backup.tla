------------------------------- MODULE Backup --------------------------------
(***************************************************************************)
(* Backups: the queue the panel asks through (internal/backup/queue.go),   *)
(* the runner that carries requests out and keeps the catalogue true to    *)
(* the disk (runner.go), and the pass of cmd/upgrader that calls it.       *)
(*                                                                         *)
(* An upgrader's pass is a sequence of database statements and file        *)
(* operations, one action each; it may die between any two of them, and a  *)
(* second upgrader may be at work at the same time.  A file is a number,   *)
(* in the order of taken_at; its name carries a time no other has.  Ages   *)
(* count time up to the limit they are compared with and one beyond.  What *)
(* a file holds, and what a check or a restore reads of it, is left out.   *)
(***************************************************************************)
EXTENDS Integers, FiniteSets, FiniteSetsExt

CONSTANTS
  Upgraders,
  StaleAfter,  \* the age at which a claim is nobody's
  KeepDays,    \* the age limit; 0 for none
  MaxFiles,    \* bound on the files ever written
  MaxRequests, \* bound on the requests ever made
  MaxFaults    \* bound on crashes, failed calls, lost files and unmounts

ASSUME BackupAssumption ==
  /\ StaleAfter \in Nat /\ KeepDays \in Nat
  /\ MaxFiles \in Nat /\ MaxRequests \in Nat /\ MaxFaults \in Nat

VARIABLES
  reqs,     \* panel_backup_requests: the states
  claimAge, \* how long ago those running were claimed
  row,      \* panel_backups: the state of each file's row, or "none"
  age,      \* how long ago each file's taken_at is
  kind,     \* "data" or "secrets"; "none" where there has been no file
  disk,     \* the files in the directory
  mounted,  \* the directory can be read
  up,       \* the upgraders, each somewhere in its pass
  faults,   \* faults left
  \* History, for the properties.
  recorded, \* files that have had a row
  unnamed,  \* files whose row was never written
  misread   \* files taken for gone while the directory could not be read

files == <<age, kind, disk>>
vars == <<reqs, claimAge, row, age, kind, disk, mounted, up, faults, recorded, unnamed, misread>>

Files == 1..MaxFiles
Requests == 1..MaxRequests
States == {"none", "pending", "running", "succeeded", "failed"}
Steps == {"off", "claim", "work", "write", "record", "finish",
          "sweep", "sweeping", "expiring", "forget", "upgrade"}
Idle == [at |-> "off", req |-> 0, file |-> 0, ok |-> FALSE, todo |-> {}, here |-> {}]

TypeOK ==
  /\ reqs \in [Requests -> States]
  /\ claimAge \in [Requests -> 0..(StaleAfter + 1)]
  /\ row \in [Files -> {"none", "present", "missing"}]
  /\ age \in [Files -> 0..(KeepDays + 1)]
  /\ kind \in [Files -> {"none", "data", "secrets"}]
  /\ disk \subseteq {n \in Files : kind[n] # "none"}
  /\ mounted \in BOOLEAN
  /\ up \in [Upgraders -> [at : Steps, req : 0..MaxRequests, file : 0..MaxFiles,
                           ok : BOOLEAN, todo : SUBSET Files, here : SUBSET Files]]
  /\ faults \in 0..MaxFaults
  /\ recorded \subseteq Files /\ unnamed \subseteq Files /\ misread \subseteq Files
  /\ \A n \in recorded : kind[n] # "none"

Init ==
  /\ reqs = [r \in Requests |-> "none"]
  /\ claimAge = [r \in Requests |-> 0]
  /\ row = [n \in Files |-> "none"]
  /\ age = [n \in Files |-> 0]
  /\ kind = [n \in Files |-> "none"]
  /\ disk = {} /\ mounted = TRUE
  /\ up = [u \in Upgraders |-> Idle]
  /\ faults = MaxFaults
  /\ recorded = {} /\ unnamed = {} /\ misread = {}

InFlight(r) == reqs[r] \in {"pending", "running"}
Rows == {n \in Files : row[n] # "none"}
DataRows == {n \in Rows : kind[n] = "data"}
Old(n) == age[n] > KeepDays
InHand == {up[u].file : u \in Upgraders}

Go(u, step) == up' = [up EXCEPT ![u].at = step]
Fault == faults > 0 /\ faults' = faults - 1

-----------------------------------------------------------------------------
(* The panel, the clock and the machine.                                   *)

\* Ask, AskVerify and AskRestore: the index lets one request in at a time.
\* What it asks for matters when it is claimed.
Ask(r) ==
  /\ reqs[r] = "none" /\ \A q \in 1..(r - 1) : reqs[q] # "none"
  /\ ~\E q \in Requests : InFlight(q)
  /\ reqs' = [reqs EXCEPT ![r] = "pending"]
  /\ UNCHANGED <<claimAge, row, files, mounted, up, faults, recorded, unnamed, misread>>

Tick ==
  /\ claimAge' = [r \in Requests |->
       IF reqs[r] = "running" THEN Min({claimAge[r] + 1, StaleAfter + 1}) ELSE 0]
  /\ age' = [n \in Files |->
       IF n \in Rows \union InHand THEN Min({age[n] + 1, KeepDays + 1}) ELSE 0]
  /\ UNCHANGED <<reqs, row, kind, disk, mounted, up, faults, recorded, unnamed, misread>>

\* An operator with a shell removes a file.
Remove(n) ==
  /\ Fault /\ n \in disk /\ mounted
  /\ disk' = disk \ {n}
  /\ UNCHANGED <<reqs, claimAge, row, age, kind, mounted, up, recorded, unnamed, misread>>

Unmount ==
  /\ Fault /\ mounted /\ mounted' = FALSE
  /\ UNCHANGED <<reqs, claimAge, row, files, up, recorded, unnamed, misread>>

Mount ==
  /\ ~mounted /\ mounted' = TRUE
  /\ UNCHANGED <<reqs, claimAge, row, files, up, faults, recorded, unnamed, misread>>

\* The upgrader dies.  A file named and not yet recorded stays.
Crash(u) ==
  /\ Fault /\ up[u].at # "off"
  /\ up' = [up EXCEPT ![u] = Idle]
  /\ unnamed' = IF up[u].at = "record" THEN unnamed \union {up[u].file} ELSE unnamed
  /\ kind' = IF up[u].at = "write" THEN [kind EXCEPT ![up[u].file] = "none"] ELSE kind
  /\ UNCHANGED <<reqs, claimAge, row, age, disk, mounted, recorded, misread>>

-----------------------------------------------------------------------------
(* RunOnce.                                                                *)

queueOnly == <<row, files, mounted, recorded, unnamed, misread>>

\* Mutant of Stale: a claim is never too old.
StaleNever(r) == FALSE

Stale(r) == reqs[r] = "running" /\ claimAge[r] > StaleAfter

\* The timer starts a pass, and ExpireStale fails the claims nobody finished.
Begin(u) ==
  /\ up[u].at = "off" /\ Go(u, "claim")
  /\ reqs' = [r \in Requests |-> IF Stale(r) THEN "failed" ELSE reqs[r]]
  /\ claimAge' = [r \in Requests |-> IF Stale(r) THEN 0 ELSE claimAge[r]]
  /\ UNCHANGED <<queueOnly, faults>>

\* Mutant of Claimable: a request already claimed is claimed again.
ClaimableTwice(r) == InFlight(r)

\* The state is part of the statement that takes the request.
Claimable(r) == reqs[r] = "pending"

\* Claim, and validateRequest: a row of another version's panel, naming what
\* this build cannot carry out, is the claimant's to fail.
Claim(u) ==
  /\ up[u].at = "claim"
  /\ \E r \in Requests, next \in {"work", "finish"} :
       /\ Claimable(r) /\ \A q \in 1..(r - 1) : ~Claimable(q)
       /\ reqs' = [reqs EXCEPT ![r] = "running"]
       /\ claimAge' = [claimAge EXCEPT ![r] = 0]
       /\ up' = [up EXCEPT ![u].req = r, ![u].at = next]
  /\ UNCHANGED <<queueOnly, faults>>

\* The statement fails, or it is carried out and its answer lost: then nobody
\* is working on the request.
ClaimFails(u) ==
  /\ Fault /\ up[u].at = "claim"
  /\ \/ UNCHANGED <<reqs, claimAge>>
     \/ \E r \in Requests :
          /\ Claimable(r)
          /\ reqs' = [reqs EXCEPT ![r] = "running"]
          /\ claimAge' = [claimAge EXCEPT ![r] = 0]
  /\ Go(u, "sweep")
  /\ UNCHANGED queueOnly

NothingToDo(u) ==
  /\ up[u].at = "claim" /\ ~\E r \in Requests : Claimable(r)
  /\ Go(u, "sweep")
  /\ UNCHANGED <<reqs, claimAge, queueOnly, faults>>

\* A verification: whatever it finds, and wherever it stops, it ends.
Check(u) ==
  /\ up[u].at = "work"
  /\ \E ok \in BOOLEAN : up' = [up EXCEPT ![u].at = "finish", ![u].ok = ok]
  /\ UNCHANGED <<reqs, claimAge, queueOnly, faults>>

\* A restore into the side database, where there is one: it writes nothing
\* here.
PutBack(u) ==
  /\ up[u].at = "work"
  /\ \E ok \in BOOLEAN : up' = [up EXCEPT ![u].at = "finish", ![u].ok = ok]
  /\ UNCHANGED <<reqs, claimAge, queueOnly, faults>>

\* write and writeSecrets, past the estimate: the snapshot is taken.  A copy
\* made before a schema upgrade is of data.
WriteBegin(u) ==
  /\ up[u].at \in {"work", "upgrade"}
  /\ \E n \in Files, k \in {"data", "secrets"} :
       /\ \A m \in Files : kind[m] # "none" => m < n
       /\ n > 1 => kind[n - 1] # "none"
       /\ up[u].at = "upgrade" => k = "data"
       /\ kind' = [kind EXCEPT ![n] = k]
       /\ age' = [age EXCEPT ![n] = 0]
       /\ up' = [up EXCEPT ![u].at = "write", ![u].file = n]
  /\ UNCHANGED <<reqs, claimAge, row, disk, mounted, faults, recorded, unnamed, misread>>

\* What follows a file written or not: a request ends, an upgrade goes on.
After(u, ok) ==
  [up EXCEPT ![u] = IF up[u].req = 0 THEN Idle ELSE [@ EXCEPT !.at = "finish", !.ok = ok, !.file = 0]]

\* No directory, no room, an error half way, a name already taken: the
\* temporary file goes and nothing is left.
WriteFails(u) ==
  /\ up[u].at \in {"work", "write", "upgrade"}
  /\ kind' = IF up[u].at = "write" THEN [kind EXCEPT ![up[u].file] = "none"] ELSE kind
  /\ up' = After(u, FALSE)
  /\ UNCHANGED <<reqs, claimAge, row, age, disk, mounted, faults, recorded, unnamed, misread>>

\* container: the file takes its name.
Named(u) ==
  /\ up[u].at = "write" /\ mounted
  /\ disk' = disk \union {up[u].file}
  /\ Go(u, "record")
  /\ UNCHANGED <<reqs, claimAge, row, age, kind, mounted, faults, recorded, unnamed, misread>>

Record(u) ==
  /\ up[u].at = "record"
  /\ row' = [row EXCEPT ![up[u].file] = "present"]
  /\ recorded' = recorded \union {up[u].file}
  /\ up' = After(u, TRUE)
  /\ UNCHANGED <<reqs, claimAge, files, mounted, faults, unnamed, misread>>

\* The file is there and nothing on the page will mention it.
RecordFails(u) ==
  /\ Fault /\ up[u].at = "record"
  /\ unnamed' = unnamed \union {up[u].file}
  /\ up' = After(u, FALSE)
  /\ UNCHANGED <<reqs, claimAge, row, files, mounted, recorded, misread>>

\* The row is found by its id alone.
Finish(u) ==
  /\ up[u].at = "finish"
  /\ reqs' = [reqs EXCEPT ![up[u].req] = IF up[u].ok THEN "succeeded" ELSE "failed"]
  /\ claimAge' = [claimAge EXCEPT ![up[u].req] = 0]
  /\ up' = [up EXCEPT ![u] = [Idle EXCEPT !.at = "sweep"]]
  /\ UNCHANGED <<queueOnly, faults>>

FinishFails(u) ==
  /\ Fault /\ up[u].at = "finish"
  /\ up' = [up EXCEPT ![u] = [Idle EXCEPT !.at = "sweep"]]
  /\ UNCHANGED <<reqs, claimAge, queueOnly>>

-----------------------------------------------------------------------------
(* Sweep and Expire.                                                       *)

\* Sweep lists the catalogue.
SweepList(u) ==
  /\ up[u].at = "sweep"
  /\ up' = [up EXCEPT ![u].at = "sweeping", ![u].todo = {n \in Files : row[n] = "present"}]
  /\ UNCHANGED <<reqs, claimAge, queueOnly, faults>>

\* os.Stat succeeds.
Stat(n) == n \in disk /\ mounted

\* One row of the list: any error of the stat makes it missing.  A row that
\* has been forgotten meanwhile is not there to be marked.
SweepRow(u) ==
  /\ up[u].at = "sweeping"
  /\ \E n \in up[u].todo :
       /\ up' = [up EXCEPT ![u].todo = @ \ {n}]
       /\ row' = IF Stat(n) \/ row[n] = "none" THEN row ELSE [row EXCEPT ![n] = "missing"]
       /\ misread' = IF ~Stat(n) /\ n \in disk THEN misread \union {n} ELSE misread
  /\ UNCHANGED <<reqs, claimAge, files, mounted, faults, recorded, unnamed>>

\* The newest data backup.
Spared == IF DataRows = {} THEN {} ELSE {Max(DataRows)}

\* What Expire will delete of the list it reads.
Doomed == IF KeepDays = 0 THEN {} ELSE {n \in DataRows \ Spared : Old(n)}

\* The sweep is done, or one of its statements failed; Expire lists.
ExpireList(u) ==
  /\ up[u].at = "sweeping"
  /\ IF up[u].todo = {} THEN UNCHANGED faults ELSE Fault
  /\ up' = [up EXCEPT ![u].at = "expiring", ![u].todo = Doomed,
                      ![u].here = {n \in Doomed : row[n] = "present"}]
  /\ UNCHANGED <<reqs, claimAge, queueOnly>>

\* Mutant of ExpireFile: the row is forgotten first.
ExpireFileLater(u) ==
  /\ up[u].at = "expiring"
  /\ \E n \in up[u].todo :
       /\ row' = [row EXCEPT ![n] = "none"]
       /\ up' = [up EXCEPT ![u].at = "forget", ![u].file = n, ![u].todo = @ \ {n}]
  /\ UNCHANGED <<reqs, claimAge, files, mounted, faults, recorded, unnamed, misread>>

\* The file goes first.  A row the list has as missing has none to delete, and
\* one that cannot be found is as good as deleted.
ExpireFile(u) ==
  /\ up[u].at = "expiring"
  /\ \E n \in up[u].todo :
       /\ disk' = IF n \in up[u].here /\ mounted THEN disk \ {n} ELSE disk
       /\ misread' = IF n \in up[u].here \cap disk /\ ~mounted THEN misread \union {n} ELSE misread
       /\ up' = [up EXCEPT ![u].at = "forget", ![u].file = n, ![u].todo = @ \ {n}]
  /\ UNCHANGED <<reqs, claimAge, row, age, kind, mounted, faults, recorded, unnamed>>

Forget(u) ==
  /\ up[u].at = "forget"
  /\ row' = [row EXCEPT ![up[u].file] = "none"]
  /\ age' = [age EXCEPT ![up[u].file] = 0]
  /\ up' = [up EXCEPT ![u].at = "expiring", ![u].file = 0]
  /\ UNCHANGED <<reqs, claimAge, kind, disk, mounted, faults, recorded, unnamed, misread>>

\* The list is done, or a file or a row could not be deleted.
ExpireEnd(u) ==
  /\ up[u].at \in {"expiring", "forget"}
  /\ IF up[u].at = "expiring" /\ up[u].todo = {} THEN UNCHANGED faults ELSE Fault
  /\ \E next \in {"off", "upgrade"} : up' = [up EXCEPT ![u] = [Idle EXCEPT !.at = next]]
  /\ UNCHANGED <<reqs, claimAge, queueOnly>>

-----------------------------------------------------------------------------
Pass(u) ==
  \/ Begin(u) \/ Claim(u) \/ NothingToDo(u)
  \/ Check(u) \/ PutBack(u) \/ WriteBegin(u) \/ WriteFails(u) \/ Named(u) \/ Record(u) \/ Finish(u)
  \/ SweepList(u) \/ SweepRow(u) \/ ExpireList(u) \/ ExpireFile(u) \/ Forget(u)
  \/ ExpireEnd(u)

Next ==
  \/ \E r \in Requests : Ask(r)
  \/ Tick \/ Unmount \/ Mount
  \/ \E n \in Files : Remove(n)
  \/ \E u \in Upgraders :
       Pass(u) \/ Crash(u) \/ ClaimFails(u) \/ RecordFails(u) \/ FinishFails(u)

Spec == Init /\ [][Next]_vars

\* Time passes, the timer fires, and a pass that is not killed goes on.
FairSpec == Spec /\ WF_vars(Tick) /\ \A u \in Upgraders : WF_vars(Pass(u))

-----------------------------------------------------------------------------
(* Properties.                                                             *)

\* No request is ever in two upgraders' hands, sweeps and lost answers
\* notwithstanding (queue.go:225-231).
OneClaimant ==
  \A u, v \in Upgraders : u # v /\ up[u].req # 0 => up[u].req # up[v].req

\* Whatever dies or fails, a request does not hold the slot for ever
\* (queue.go:344-349, "a button permanently dead because of a crash").
Answered == \A r \in Requests : InFlight(r) ~> ~InFlight(r)

\* A request that has ended is not taken up again, and one that succeeded has
\* succeeded; a sweep's "failed" may still be corrected by a slow claimant.
EndedStays ==
  [][\A r \in Requests :
       /\ reqs[r] \in {"succeeded", "failed"} => ~InFlight(r)'
       /\ reqs[r] = "succeeded" => reqs'[r] = "succeeded"]_vars

\* The newest data backup keeps its row whatever its age, secrets backups
\* notwithstanding and two upgraders expiring at once (runner.go:567-579).
NewestKept ==
  LET data == {n \in recorded : kind[n] = "data"}
  IN  \A n \in data : (\A m \in data : m <= n) => row[n] # "none"

\* A file the catalogue does not know is one whose row was never written, or
\* one the directory of which was away when the upgrader looked for it: expiring
\* loses track of no other (runner.go:588-593, "The file goes first").
NoLostFile ==
  \A n \in disk \ Rows :
    \/ n \in unnamed \union misread
    \/ \E u \in Upgraders : up[u].at = "record" /\ up[u].file = n

\* "The newest one is never deleted ... swept to no backup at all"
\* (runner.go:567-574): deleting by age leaves a data backup on the disk.
LastBackupKept ==
  [][\A u \in Upgraders : ExpireFile(u) /\ disk' # disk =>
       \E n \in disk' : kind[n] = "data"]_vars
=============================================================================
