---------------------------- MODULE UpkeepProofs -----------------------------
(***************************************************************************)
(* The two queues the panel leaves requests in.  Backups, for any number   *)
(* of upgraders, requests, files and faults and any age limit: a request   *)
(* is one upgrader's at a time and ends once, the newest data backup keeps *)
(* its row, and expiring loses track of no file.  Address ranges, for any  *)
(* fetchers and sources: a failed refresh takes no table away, and a       *)
(* success is one.                                                         *)
(***************************************************************************)
EXTENDS Backup, Ranges, FiniteSetTheorems, TLAPS

-----------------------------------------------------------------------------
(* Backups.                                                                *)

\* The upgraders, each somewhere in its pass.
UpOK ==
  /\ DOMAIN up = Upgraders
  /\ \A u \in Upgraders :
       /\ {"at", "req", "file", "todo", "here"} \subseteq DOMAIN up[u]
       /\ up[u].at \in Steps /\ up[u].req \in 0..MaxRequests
       /\ up[u].at \in {"write", "record", "forget"} => up[u].file \in Files

\* Where in a pass a request is in hand.
InHandOK ==
  \A u \in Upgraders :
    /\ up[u].at \in {"work", "finish"} => up[u].req # 0
    /\ up[u].at \in {"off", "claim", "sweep", "sweeping", "expiring", "forget", "upgrade"} =>
         up[u].req = 0

\* What is in hand has been claimed and not finished, though ExpireStale may
\* have failed it since.
ClaimedOK ==
  \A u \in Upgraders : up[u].req # 0 => reqs[up[u].req] \in {"running", "failed"}

QueueInv == reqs \in [Requests -> States] /\ InHandOK /\ ClaimedOK /\ OneClaimant

-----------------------------------------------------------------------------
(* The catalogue and the disk.                                             *)

Writes(u) == up[u].at \in {"write", "record"}

\* What is in the catalogue or on the disk has been written.
BooksOK ==
  /\ kind \in [Files -> {"none", "data", "secrets"}]
  /\ row \in [Files -> {"none", "present", "missing"}]
  /\ recorded \subseteq Files /\ disk \subseteq Files
  /\ \A n \in Files : row[n] # "none" => n \in recorded
  /\ \A n \in Files : n \in recorded \union disk => kind[n] # "none"

\* A file being written is its writer's alone, and has no row yet.
WritersOK ==
  /\ \A u \in Upgraders : Writes(u) =>
       /\ kind[up[u].file] # "none" /\ up[u].file \notin recorded
       /\ up[u].at = "write" => up[u].file \notin disk
  /\ \A u, v \in Upgraders : u # v /\ Writes(u) /\ Writes(v) => up[u].file # up[v].file

\* A newer data backup has been recorded.
Outdone(n) == n \in recorded /\ \E m \in recorded : m > n /\ kind[m] = "data"

\* What is being expired has been outdone, whatever else has been forgotten
\* since the list was read.
OutdoneOK ==
  \A u \in Upgraders :
    /\ up[u].at = "expiring" => \A n \in up[u].todo : n \in Files /\ Outdone(n)
    /\ up[u].at = "forget" => Outdone(up[u].file)

\* The file is not there, or was there and could not be seen.
Gone(n) == n \in disk => n \in unnamed \union misread

\* What is missing, was listed as missing, or is about to be forgotten is gone.
GoneOK ==
  /\ \A n \in Files : row[n] = "missing" => Gone(n)
  /\ \A u \in Upgraders :
       /\ up[u].at = "expiring" => \A n \in up[u].todo \ up[u].here : Gone(n)
       /\ up[u].at = "forget" => Gone(up[u].file)

BooksInv == BooksOK /\ WritersOK /\ OutdoneOK /\ GoneOK /\ NewestKept /\ NoLostFile

IInv == UpOK /\ QueueInv /\ BooksInv

-----------------------------------------------------------------------------
(* The steps that can disturb the catalogue or the disk, and the others.   *)

Loud ==
  \/ \E n \in Files : Remove(n)
  \/ \E u \in Upgraders :
       \/ WriteBegin(u) \/ WriteFails(u) \/ Named(u) \/ Record(u) \/ SweepRow(u)
       \/ ExpireList(u) \/ ExpireFile(u) \/ Forget(u) \/ Crash(u) \/ RecordFails(u)

Quiet ==
  /\ UNCHANGED <<row, kind, disk, recorded, unnamed, misread>>
  /\ \A u \in Upgraders :
       \/ up[u].at # "record" /\ up'[u].at \notin {"write", "record", "expiring", "forget"}
       \/ /\ up'[u].at = up[u].at /\ up'[u].file = up[u].file
          /\ up'[u].todo = up[u].todo /\ up'[u].here = up[u].here

\* Nothing is in hand, in the catalogue or on the disk at first.
LEMMA InitIInv == Init => IInv
<1> SUFFICES ASSUME Init PROVE IInv
  OBVIOUS
<1> USE BackupAssumption DEF Init, Idle
<1>1. UpOK
  BY DEF UpOK, Steps
<1>2. QueueInv
  BY DEF QueueInv, InHandOK, ClaimedOK, OneClaimant, States
<1>3. BooksInv
  BY DEF BooksInv, BooksOK, WritersOK, Writes, OutdoneOK, GoneOK, NewestKept, NoLostFile, Rows
<1> QED
  BY <1>1, <1>2, <1>3 DEF IInv

\* A step leaves every upgrader somewhere in its pass.
LEMMA NextUp == IInv /\ [Next]_vars => UpOK'
<1> SUFFICES ASSUME IInv, [Next]_vars PROVE UpOK'
  OBVIOUS
<1> USE BackupAssumption DEF IInv, UpOK, Steps, Requests, Files, Idle
<1>1. ASSUME NEW r \in Requests, Ask(r) PROVE UpOK'
  BY <1>1 DEF Ask, files
<1>2. CASE Tick
  BY <1>2 DEF Tick
<1>3. CASE Unmount
  BY <1>3 DEF Unmount, Fault, files
<1>4. CASE Mount
  BY <1>4 DEF Mount, files
<1>5. ASSUME NEW n \in Files, Remove(n) PROVE UpOK'
  BY <1>5 DEF Remove, Fault
<1>6. ASSUME NEW u \in Upgraders, Begin(u) PROVE UpOK'
  BY <1>6 DEF Begin, Stale, Go, files, queueOnly
<1>7. ASSUME NEW u \in Upgraders, Claim(u) PROVE UpOK'
  BY <1>7 DEF Claim, Claimable, files, queueOnly
<1>8. ASSUME NEW u \in Upgraders, NothingToDo(u) PROVE UpOK'
  BY <1>8 DEF NothingToDo, Go, files, queueOnly
<1>9. ASSUME NEW u \in Upgraders, Check(u) PROVE UpOK'
  BY <1>9 DEF Check, files, queueOnly
<1>10. ASSUME NEW u \in Upgraders, PutBack(u) PROVE UpOK'
  BY <1>10 DEF PutBack, files, queueOnly
<1>11. ASSUME NEW u \in Upgraders, WriteBegin(u) PROVE UpOK'
  BY <1>11 DEF WriteBegin
<1>12. ASSUME NEW u \in Upgraders, WriteFails(u) PROVE UpOK'
  BY <1>12 DEF WriteFails, After, Idle
<1>13. ASSUME NEW u \in Upgraders, Named(u) PROVE UpOK'
  BY <1>13 DEF Named, Go
<1>14. ASSUME NEW u \in Upgraders, Record(u) PROVE UpOK'
  BY <1>14 DEF Record, After, files, Idle
<1>15. ASSUME NEW u \in Upgraders, Finish(u) PROVE UpOK'
  BY <1>15 DEF Finish, files, queueOnly, Idle
<1>16. ASSUME NEW u \in Upgraders, SweepList(u) PROVE UpOK'
  BY <1>16 DEF SweepList, files, queueOnly
<1>17. ASSUME NEW u \in Upgraders, SweepRow(u) PROVE UpOK'
  BY <1>17 DEF SweepRow, Stat, files
<1>18. ASSUME NEW u \in Upgraders, ExpireList(u) PROVE UpOK'
  BY <1>18 DEF ExpireList, files, queueOnly, Fault
<1>19. ASSUME NEW u \in Upgraders, ExpireFile(u) PROVE UpOK'
  BY <1>19 DEF ExpireFile
<1>20. ASSUME NEW u \in Upgraders, Forget(u) PROVE UpOK'
  BY <1>20 DEF Forget
<1>21. ASSUME NEW u \in Upgraders, ExpireEnd(u) PROVE UpOK'
  BY <1>21 DEF ExpireEnd, files, queueOnly, Idle
<1>22. ASSUME NEW u \in Upgraders, Crash(u) PROVE UpOK'
  BY <1>22 DEF Crash, Idle, Fault
<1>23. ASSUME NEW u \in Upgraders, ClaimFails(u) PROVE UpOK'
  BY <1>23 DEF ClaimFails, Claimable, Go, files, queueOnly
<1>24. ASSUME NEW u \in Upgraders, RecordFails(u) PROVE UpOK'
  BY <1>24 DEF RecordFails, After, files, Idle
<1>25. ASSUME NEW u \in Upgraders, FinishFails(u) PROVE UpOK'
  BY <1>25 DEF FinishFails, files, queueOnly, Idle
<1>26. CASE UNCHANGED vars
  BY <1>26 DEF vars, files
<1> HIDE DEF IInv, UpOK, Steps, Requests, Files, Idle
<1> QED
  BY <1>1, <1>2, <1>3, <1>4, <1>5, <1>6, <1>7, <1>8, <1>9, <1>10, <1>11, <1>12, <1>13,
     <1>14, <1>15, <1>16, <1>17, <1>18, <1>19, <1>20, <1>21, <1>22, <1>23, <1>24,
     <1>25, <1>26 DEF Next, Pass

\* No step puts a request in two hands, or takes up one that has succeeded.
LEMMA NextQueue == IInv /\ [Next]_vars => QueueInv'
<1> SUFFICES ASSUME IInv, [Next]_vars PROVE QueueInv'
  OBVIOUS
<1> USE BackupAssumption DEF IInv, UpOK, Steps, Requests, Files, Idle, States, QueueInv,
        InHandOK, ClaimedOK, OneClaimant, InFlight
<1>1. ASSUME NEW r \in Requests, Ask(r) PROVE QueueInv'
  BY <1>1 DEF Ask, files
<1>2. CASE Tick
  BY <1>2 DEF Tick
<1>3. CASE Unmount
  BY <1>3 DEF Unmount, Fault, files
<1>4. CASE Mount
  BY <1>4 DEF Mount, files
<1>5. ASSUME NEW n \in Files, Remove(n) PROVE QueueInv'
  BY <1>5 DEF Remove, Fault
<1>6. ASSUME NEW u \in Upgraders, Begin(u) PROVE QueueInv'
  BY <1>6 DEF Begin, Stale, Go, files, queueOnly
<1>7. ASSUME NEW u \in Upgraders, Claim(u) PROVE QueueInv'
  BY <1>7 DEF Claim, Claimable, files, queueOnly
<1>8. ASSUME NEW u \in Upgraders, NothingToDo(u) PROVE QueueInv'
  BY <1>8 DEF NothingToDo, Go, files, queueOnly
<1>9. ASSUME NEW u \in Upgraders, Check(u) PROVE QueueInv'
  BY <1>9 DEF Check, files, queueOnly
<1>10. ASSUME NEW u \in Upgraders, PutBack(u) PROVE QueueInv'
  BY <1>10 DEF PutBack, files, queueOnly
<1>11. ASSUME NEW u \in Upgraders, WriteBegin(u) PROVE QueueInv'
  BY <1>11 DEF WriteBegin
<1>12. ASSUME NEW u \in Upgraders, WriteFails(u) PROVE QueueInv'
  BY <1>12 DEF WriteFails, After, Idle
<1>13. ASSUME NEW u \in Upgraders, Named(u) PROVE QueueInv'
  BY <1>13 DEF Named, Go
<1>14. ASSUME NEW u \in Upgraders, Record(u) PROVE QueueInv'
  BY <1>14 DEF Record, After, files, Idle
<1>15. ASSUME NEW u \in Upgraders, Finish(u) PROVE QueueInv'
  BY <1>15 DEF Finish, files, queueOnly, Idle
<1>16. ASSUME NEW u \in Upgraders, SweepList(u) PROVE QueueInv'
  BY <1>16 DEF SweepList, files, queueOnly
<1>17. ASSUME NEW u \in Upgraders, SweepRow(u) PROVE QueueInv'
  BY <1>17 DEF SweepRow, Stat, files
<1>18. ASSUME NEW u \in Upgraders, ExpireList(u) PROVE QueueInv'
  BY <1>18 DEF ExpireList, files, queueOnly, Fault
<1>19. ASSUME NEW u \in Upgraders, ExpireFile(u) PROVE QueueInv'
  BY <1>19 DEF ExpireFile
<1>20. ASSUME NEW u \in Upgraders, Forget(u) PROVE QueueInv'
  BY <1>20 DEF Forget
<1>21. ASSUME NEW u \in Upgraders, ExpireEnd(u) PROVE QueueInv'
  BY <1>21 DEF ExpireEnd, files, queueOnly, Idle
<1>22. ASSUME NEW u \in Upgraders, Crash(u) PROVE QueueInv'
  BY <1>22 DEF Crash, Idle, Fault
<1>23. ASSUME NEW u \in Upgraders, ClaimFails(u) PROVE QueueInv'
  <2>1. CASE UNCHANGED reqs
    BY <1>23, <2>1 DEF ClaimFails, Go
  <2>2. CASE \E r \in Requests : Claimable(r) /\ reqs' = [reqs EXCEPT ![r] = "running"]
    BY <1>23, <2>2 DEF ClaimFails, Claimable, Go
  <2> QED
    BY <1>23, <2>1, <2>2 DEF ClaimFails
<1>24. ASSUME NEW u \in Upgraders, RecordFails(u) PROVE QueueInv'
  BY <1>24 DEF RecordFails, After, files, Idle
<1>25. ASSUME NEW u \in Upgraders, FinishFails(u) PROVE QueueInv'
  BY <1>25 DEF FinishFails, files, queueOnly, Idle
<1>26. CASE UNCHANGED vars
  BY <1>26 DEF vars, files
<1> HIDE DEF IInv, UpOK, Steps, Requests, Files, Idle, States, QueueInv, InHandOK,
        ClaimedOK, OneClaimant, InFlight
<1> QED
  BY <1>1, <1>2, <1>3, <1>4, <1>5, <1>6, <1>7, <1>8, <1>9, <1>10, <1>11, <1>12, <1>13,
     <1>14, <1>15, <1>16, <1>17, <1>18, <1>19, <1>20, <1>21, <1>22, <1>23, <1>24,
     <1>25, <1>26 DEF Next, Pass

\* A step that is not loud is quiet.
LEMMA QuietSteps == IInv /\ [Next]_vars => Loud \/ Quiet
<1> SUFFICES ASSUME IInv, [Next]_vars PROVE Loud \/ Quiet
  OBVIOUS
<1> USE BackupAssumption DEF IInv, UpOK, Steps, Requests, Files, Loud, Quiet
<1>1. ASSUME NEW r \in Requests, Ask(r) PROVE Loud \/ Quiet
  BY <1>1 DEF Ask, files
<1>2. CASE Tick
  BY <1>2 DEF Tick
<1>3. CASE Unmount
  BY <1>3 DEF Unmount, Fault, files
<1>4. CASE Mount
  BY <1>4 DEF Mount, files
<1>5. ASSUME NEW u \in Upgraders, Begin(u) PROVE Loud \/ Quiet
  BY <1>5 DEF Begin, Stale, Go, files, queueOnly
<1>6. ASSUME NEW u \in Upgraders, Claim(u) PROVE Loud \/ Quiet
  BY <1>6 DEF Claim, Claimable, files, queueOnly
<1>7. ASSUME NEW u \in Upgraders, NothingToDo(u) PROVE Loud \/ Quiet
  BY <1>7 DEF NothingToDo, Go, files, queueOnly
<1>8. ASSUME NEW u \in Upgraders, Check(u) PROVE Loud \/ Quiet
  BY <1>8 DEF Check, files, queueOnly
<1>9. ASSUME NEW u \in Upgraders, PutBack(u) PROVE Loud \/ Quiet
  BY <1>9 DEF PutBack, files, queueOnly
<1>10. ASSUME NEW u \in Upgraders, Finish(u) PROVE Loud \/ Quiet
  BY <1>10 DEF Finish, files, queueOnly, Idle
<1>11. ASSUME NEW u \in Upgraders, SweepList(u) PROVE Loud \/ Quiet
  BY <1>11 DEF SweepList, files, queueOnly
<1>12. ASSUME NEW u \in Upgraders, ExpireEnd(u) PROVE Loud \/ Quiet
  BY <1>12 DEF ExpireEnd, files, queueOnly, Idle
<1>13. ASSUME NEW u \in Upgraders, ClaimFails(u) PROVE Loud \/ Quiet
  BY <1>13 DEF ClaimFails, Claimable, Go, files, queueOnly
<1>14. ASSUME NEW u \in Upgraders, FinishFails(u) PROVE Loud \/ Quiet
  BY <1>14 DEF FinishFails, files, queueOnly, Idle
<1>15. CASE UNCHANGED vars
  BY <1>15 DEF vars, files
<1> HIDE DEF IInv, UpOK, Steps, Requests, Files, Loud, Quiet
<1> QED
  BY <1>1, <1>2, <1>3, <1>4, <1>5, <1>6, <1>7, <1>8, <1>9, <1>10, <1>11, <1>12, <1>13,
     <1>14, <1>15 DEF Next, Pass, Loud

\* A quiet step disturbs nothing of the catalogue.
LEMMA QuietBooks == IInv /\ Quiet => BooksInv'
<1> SUFFICES ASSUME IInv, Quiet PROVE BooksInv'
  OBVIOUS
<1> USE DEF IInv, Quiet, BooksInv, Writes, Rows
<1>1. BooksOK' /\ WritersOK'
  BY DEF BooksOK, WritersOK
<1>2. OutdoneOK' /\ GoneOK'
  BY DEF OutdoneOK, Outdone, GoneOK, Gone
<1>3. NewestKept' /\ NoLostFile'
  BY DEF NewestKept, NoLostFile
<1> QED
  BY <1>1, <1>2, <1>3

\* Expire's exception, without which the list could hold the newest.
LEMMA DoomedIsOutdone == IInv => \A n \in Doomed : n \in Files /\ Outdone(n)
<1> SUFFICES ASSUME IInv, NEW n \in Doomed PROVE n \in Files /\ Outdone(n)
  OBVIOUS
<1> USE DEF IInv, BooksInv, BooksOK, Rows, DataRows
<1>1. n \in DataRows /\ n \notin Spared
  BY DEF Doomed
<1>2. CASE \E m \in DataRows : m > n
  BY <1>1, <1>2 DEF Outdone, Files
<1>3. CASE \A m \in DataRows : ~(m > n)
  <2>1. \A m \in DataRows : m \in Int
    BY BackupAssumption DEF Files
  <2>2. \A m \in DataRows : n >= m
    BY <1>1, <1>3, <2>1
  <2>3. Max(DataRows) = n
    <3> DEFINE M == Max(DataRows)
    <3>1. M \in DataRows /\ \A m \in DataRows : M >= m
      BY <1>1, <2>2 DEF Max
    <3>2. M >= n /\ n >= M
      BY <1>1, <2>2, <3>1
    <3> HIDE DEF M
    <3>3. M = n
      BY <1>1, <2>1, <3>1, <3>2
    <3> QED
      BY <3>3 DEF M
  <2> QED
    BY <1>1, <2>3 DEF Spared
<1> QED
  BY <1>2, <1>3

\* A row that Expire lists as missing has no file that could be seen.
LEMMA DoomedMissing == IInv => \A n \in Doomed : row[n] # "present" => Gone(n)
  BY DoomedIsOutdone DEF IInv, BooksInv, BooksOK, GoneOK, Doomed, Rows, DataRows

\* Catalogue and disk hold only what has been written.
LEMMA LoudBooks == IInv /\ Loud => BooksOK'
<1> SUFFICES ASSUME IInv, Loud PROVE BooksOK'
  OBVIOUS
<1> USE BackupAssumption DEF IInv, UpOK, Steps, Requests, Files, BooksInv, BooksOK,
        WritersOK, Writes
<1>1. ASSUME NEW n \in Files, Remove(n) PROVE BooksOK'
  BY <1>1 DEF Remove, Fault
<1>2. ASSUME NEW u \in Upgraders, WriteBegin(u) PROVE BooksOK'
  BY <1>2 DEF WriteBegin
<1>3. ASSUME NEW u \in Upgraders, WriteFails(u) PROVE BooksOK'
  BY <1>3 DEF WriteFails, After, Idle
<1>4. ASSUME NEW u \in Upgraders, Named(u) PROVE BooksOK'
  BY <1>4 DEF Named, Go
<1>5. ASSUME NEW u \in Upgraders, Record(u) PROVE BooksOK'
  BY <1>5 DEF Record, After, files, Idle
<1>6. ASSUME NEW u \in Upgraders, SweepRow(u) PROVE BooksOK'
  BY <1>6 DEF SweepRow, Stat, files
<1>7. ASSUME NEW u \in Upgraders, ExpireList(u) PROVE BooksOK'
  BY <1>7 DEF ExpireList, files, queueOnly, Fault
<1>8. ASSUME NEW u \in Upgraders, ExpireFile(u) PROVE BooksOK'
  BY <1>8 DEF ExpireFile
<1>9. ASSUME NEW u \in Upgraders, Forget(u) PROVE BooksOK'
  BY <1>9 DEF Forget
<1>10. ASSUME NEW u \in Upgraders, Crash(u) PROVE BooksOK'
  BY <1>10 DEF Crash, Idle, Fault
<1>11. ASSUME NEW u \in Upgraders, RecordFails(u) PROVE BooksOK'
  BY <1>11 DEF RecordFails, After, files, Idle
<1> HIDE DEF IInv, UpOK, Steps, Requests, Files, BooksInv, BooksOK, WritersOK, Writes
<1> QED
  BY <1>1, <1>2, <1>3, <1>4, <1>5, <1>6, <1>7, <1>8, <1>9, <1>10, <1>11 DEF Loud

\* WriteBegin takes a number nobody has, and Record is the writer's last use of
\* it.
LEMMA LoudWriters == IInv /\ Loud => WritersOK'
<1> SUFFICES ASSUME IInv, Loud PROVE WritersOK'
  OBVIOUS
<1> USE BackupAssumption DEF IInv, UpOK, Steps, Requests, Files, BooksInv, BooksOK,
        WritersOK, Writes
<1>1. ASSUME NEW n \in Files, Remove(n) PROVE WritersOK'
  BY <1>1 DEF Remove, Fault
<1>2. ASSUME NEW u \in Upgraders, WriteBegin(u) PROVE WritersOK'
  BY <1>2 DEF WriteBegin
<1>3. ASSUME NEW u \in Upgraders, WriteFails(u) PROVE WritersOK'
  BY <1>3 DEF WriteFails, After, Idle
<1>4. ASSUME NEW u \in Upgraders, Named(u) PROVE WritersOK'
  BY <1>4 DEF Named, Go
<1>5. ASSUME NEW u \in Upgraders, Record(u) PROVE WritersOK'
  BY <1>5 DEF Record, After, files, Idle
<1>6. ASSUME NEW u \in Upgraders, SweepRow(u) PROVE WritersOK'
  BY <1>6 DEF SweepRow, Stat, files
<1>7. ASSUME NEW u \in Upgraders, ExpireList(u) PROVE WritersOK'
  BY <1>7 DEF ExpireList, files, queueOnly, Fault
<1>8. ASSUME NEW u \in Upgraders, ExpireFile(u) PROVE WritersOK'
  BY <1>8 DEF ExpireFile
<1>9. ASSUME NEW u \in Upgraders, Forget(u) PROVE WritersOK'
  BY <1>9 DEF Forget
<1>10. ASSUME NEW u \in Upgraders, Crash(u) PROVE WritersOK'
  BY <1>10 DEF Crash, Idle, Fault
<1>11. ASSUME NEW u \in Upgraders, RecordFails(u) PROVE WritersOK'
  BY <1>11 DEF RecordFails, After, files, Idle
<1> HIDE DEF IInv, UpOK, Steps, Requests, Files, BooksInv, BooksOK, WritersOK, Writes
<1> QED
  BY <1>1, <1>2, <1>3, <1>4, <1>5, <1>6, <1>7, <1>8, <1>9, <1>10, <1>11 DEF Loud

\* Rows are added and kinds are kept: what was outdone when it was listed still
\* is.
LEMMA LoudOutdone == IInv /\ Loud => OutdoneOK'
<1> SUFFICES ASSUME IInv, Loud PROVE OutdoneOK'
  OBVIOUS
<1> USE BackupAssumption DEF IInv, UpOK, Steps, Requests, Files, BooksInv, BooksOK,
        WritersOK, Writes, OutdoneOK, Outdone
<1>1. ASSUME NEW n \in Files, Remove(n) PROVE OutdoneOK'
  <2>1. OutdoneOK /\ UNCHANGED <<up, kind, recorded>>
    BY <1>1 DEF Remove
  <2> HIDE DEF IInv, UpOK, BooksInv, BooksOK, WritersOK
  <2> QED
    BY <2>1
<1>2. ASSUME NEW u \in Upgraders, WriteBegin(u) PROVE OutdoneOK'
  BY <1>2 DEF WriteBegin
<1>3. ASSUME NEW u \in Upgraders, WriteFails(u) PROVE OutdoneOK'
  BY <1>3 DEF WriteFails, After, Idle
<1>4. ASSUME NEW u \in Upgraders, Named(u) PROVE OutdoneOK'
  BY <1>4 DEF Named, Go
<1>5. ASSUME NEW u \in Upgraders, Record(u) PROVE OutdoneOK'
  BY <1>5 DEF Record, After, files, Idle
<1>6. ASSUME NEW u \in Upgraders, SweepRow(u) PROVE OutdoneOK'
  BY <1>6 DEF SweepRow, Stat, files
<1>7. ASSUME NEW u \in Upgraders, ExpireList(u) PROVE OutdoneOK'
  BY <1>7, DoomedIsOutdone DEF ExpireList, files, queueOnly
<1>8. ASSUME NEW u \in Upgraders, ExpireFile(u) PROVE OutdoneOK'
  BY <1>8 DEF ExpireFile
<1>9. ASSUME NEW u \in Upgraders, Forget(u) PROVE OutdoneOK'
  BY <1>9 DEF Forget
<1>10. ASSUME NEW u \in Upgraders, Crash(u) PROVE OutdoneOK'
  BY <1>10 DEF Crash, Idle, Fault
<1>11. ASSUME NEW u \in Upgraders, RecordFails(u) PROVE OutdoneOK'
  BY <1>11 DEF RecordFails, After, files, Idle
<1> HIDE DEF IInv, UpOK, Steps, Requests, Files, BooksInv, BooksOK, WritersOK, Writes,
        OutdoneOK, Outdone
<1> QED
  BY <1>1, <1>2, <1>3, <1>4, <1>5, <1>6, <1>7, <1>8, <1>9, <1>10, <1>11 DEF Loud

\* A file once gone does not come back: its number is nobody's to write.
LEMMA LoudGone == IInv /\ Loud => GoneOK'
<1> SUFFICES ASSUME IInv, Loud PROVE GoneOK'
  OBVIOUS
<1> USE BackupAssumption DEF IInv, UpOK, Steps, Requests, Files, BooksInv, BooksOK,
        WritersOK, Writes, GoneOK, Gone, OutdoneOK, Outdone
<1>1. ASSUME NEW n \in Files, Remove(n) PROVE GoneOK'
  BY <1>1 DEF Remove, Fault
<1>2. ASSUME NEW u \in Upgraders, WriteBegin(u) PROVE GoneOK'
  BY <1>2 DEF WriteBegin
<1>3. ASSUME NEW u \in Upgraders, WriteFails(u) PROVE GoneOK'
  BY <1>3 DEF WriteFails, After, Idle
<1>4. ASSUME NEW u \in Upgraders, Named(u) PROVE GoneOK'
  BY <1>4 DEF Named, Go
<1>5. ASSUME NEW u \in Upgraders, Record(u) PROVE GoneOK'
  BY <1>5 DEF Record, After, files, Idle
<1>6. ASSUME NEW u \in Upgraders, SweepRow(u) PROVE GoneOK'
  BY <1>6 DEF SweepRow, Stat, files
<1>7. ASSUME NEW u \in Upgraders, ExpireList(u) PROVE GoneOK'
  BY <1>7, DoomedMissing DEF ExpireList, files, queueOnly
<1>8. ASSUME NEW u \in Upgraders, ExpireFile(u) PROVE GoneOK'
  BY <1>8 DEF ExpireFile
<1>9. ASSUME NEW u \in Upgraders, Forget(u) PROVE GoneOK'
  BY <1>9 DEF Forget
<1>10. ASSUME NEW u \in Upgraders, Crash(u) PROVE GoneOK'
  BY <1>10 DEF Crash, Idle, Fault
<1>11. ASSUME NEW u \in Upgraders, RecordFails(u) PROVE GoneOK'
  BY <1>11 DEF RecordFails, After, files, Idle
<1> HIDE DEF IInv, UpOK, Steps, Requests, Files, BooksInv, BooksOK, WritersOK, Writes,
        GoneOK, Gone, OutdoneOK, Outdone
<1> QED
  BY <1>1, <1>2, <1>3, <1>4, <1>5, <1>6, <1>7, <1>8, <1>9, <1>10, <1>11 DEF Loud

\* Only Forget takes a row, and what it forgets has been outdone.
LEMMA LoudNewest == IInv /\ Loud => NewestKept'
<1> SUFFICES ASSUME IInv, Loud PROVE NewestKept'
  OBVIOUS
<1> USE BackupAssumption DEF IInv, UpOK, Steps, Requests, Files, BooksInv, BooksOK,
        WritersOK, Writes, NewestKept, OutdoneOK, Outdone
<1>1. ASSUME NEW n \in Files, Remove(n) PROVE NewestKept'
  BY <1>1 DEF Remove, Fault
<1>2. ASSUME NEW u \in Upgraders, WriteBegin(u) PROVE NewestKept'
  BY <1>2 DEF WriteBegin
<1>3. ASSUME NEW u \in Upgraders, WriteFails(u) PROVE NewestKept'
  BY <1>3 DEF WriteFails, After, Idle
<1>4. ASSUME NEW u \in Upgraders, Named(u) PROVE NewestKept'
  BY <1>4 DEF Named, Go
<1>5. ASSUME NEW u \in Upgraders, Record(u) PROVE NewestKept'
  BY <1>5 DEF Record, After, files, Idle
<1>6. ASSUME NEW u \in Upgraders, SweepRow(u) PROVE NewestKept'
  BY <1>6 DEF SweepRow, Stat, files
<1>7. ASSUME NEW u \in Upgraders, ExpireList(u) PROVE NewestKept'
  BY <1>7 DEF ExpireList, files, queueOnly, Fault
<1>8. ASSUME NEW u \in Upgraders, ExpireFile(u) PROVE NewestKept'
  BY <1>8 DEF ExpireFile
<1>9. ASSUME NEW u \in Upgraders, Forget(u) PROVE NewestKept'
  BY <1>9 DEF Forget
<1>10. ASSUME NEW u \in Upgraders, Crash(u) PROVE NewestKept'
  BY <1>10 DEF Crash, Idle, Fault
<1>11. ASSUME NEW u \in Upgraders, RecordFails(u) PROVE NewestKept'
  BY <1>11 DEF RecordFails, After, files, Idle
<1> HIDE DEF IInv, UpOK, Steps, Requests, Files, BooksInv, BooksOK, WritersOK, Writes,
        NewestKept, OutdoneOK, Outdone
<1> QED
  BY <1>1, <1>2, <1>3, <1>4, <1>5, <1>6, <1>7, <1>8, <1>9, <1>10, <1>11 DEF Loud

\* Only Forget takes a row, and what it forgets is gone.
LEMMA LoudLost == IInv /\ Loud => NoLostFile'
<1> SUFFICES ASSUME IInv, Loud PROVE NoLostFile'
  OBVIOUS
<1> USE BackupAssumption DEF IInv, UpOK, Steps, Requests, Files, BooksInv, BooksOK,
        WritersOK, Writes, NoLostFile, GoneOK, Gone, Rows
<1>1. ASSUME NEW n \in Files, Remove(n) PROVE NoLostFile'
  BY <1>1 DEF Remove, Fault
<1>2. ASSUME NEW u \in Upgraders, WriteBegin(u) PROVE NoLostFile'
  <2>1. UNCHANGED <<row, disk, unnamed, misread>>
    BY <1>2 DEF WriteBegin
  <2>2. \A v \in Upgraders : up[v].at = "record" => up'[v] = up[v]
    BY <1>2 DEF WriteBegin
  <2>3. NoLostFile
    OBVIOUS
  <2> HIDE DEF IInv, UpOK, BooksInv, BooksOK, WritersOK, GoneOK
  <2> QED
    BY <2>1, <2>2, <2>3
<1>3. ASSUME NEW u \in Upgraders, WriteFails(u) PROVE NoLostFile'
  BY <1>3 DEF WriteFails, After, Idle
<1>4. ASSUME NEW u \in Upgraders, Named(u) PROVE NoLostFile'
  BY <1>4 DEF Named, Go
<1>5. ASSUME NEW u \in Upgraders, Record(u) PROVE NoLostFile'
  BY <1>5 DEF Record, After, files, Idle
<1>6. ASSUME NEW u \in Upgraders, SweepRow(u) PROVE NoLostFile'
  BY <1>6 DEF SweepRow, Stat, files
<1>7. ASSUME NEW u \in Upgraders, ExpireList(u) PROVE NoLostFile'
  BY <1>7 DEF ExpireList, files, queueOnly, Fault
<1>8. ASSUME NEW u \in Upgraders, ExpireFile(u) PROVE NoLostFile'
  BY <1>8 DEF ExpireFile
<1>9. ASSUME NEW u \in Upgraders, Forget(u) PROVE NoLostFile'
  <2>1. /\ UNCHANGED <<disk, unnamed, misread>>
        /\ row' = [row EXCEPT ![up[u].file] = "none"]
    BY <1>9 DEF Forget
  <2>2. \A v \in Upgraders : up[v].at = "record" => up'[v] = up[v]
    BY <1>9 DEF Forget
  <2>3. up[u].file \in Files /\ Gone(up[u].file)
    BY <1>9 DEF Forget
  <2>4. NoLostFile
    OBVIOUS
  <2> HIDE DEF IInv, UpOK, BooksInv, WritersOK, GoneOK
  <2> QED
    BY <2>1, <2>2, <2>3, <2>4
<1>10. ASSUME NEW u \in Upgraders, Crash(u) PROVE NoLostFile'
  BY <1>10 DEF Crash, Idle, Fault
<1>11. ASSUME NEW u \in Upgraders, RecordFails(u) PROVE NoLostFile'
  BY <1>11 DEF RecordFails, After, files, Idle
<1> HIDE DEF IInv, UpOK, Steps, Requests, Files, BooksInv, BooksOK, WritersOK, Writes,
        NoLostFile, GoneOK, Gone, Rows
<1> QED
  BY <1>1, <1>2, <1>3, <1>4, <1>5, <1>6, <1>7, <1>8, <1>9, <1>10, <1>11 DEF Loud

\* The inductive invariant holds.
LEMMA Invariance == Spec => []IInv
<1>1. IInv /\ [Next]_vars => IInv'
  <2> SUFFICES ASSUME IInv, [Next]_vars PROVE IInv'
    OBVIOUS
  <2>1. CASE Loud
    BY <2>1, NextUp, NextQueue, LoudBooks, LoudWriters, LoudOutdone, LoudGone, LoudNewest, LoudLost
       DEF IInv, BooksInv
  <2>2. CASE Quiet
    BY <2>2, NextUp, NextQueue, QuietBooks DEF IInv
  <2> QED
    BY <2>1, <2>2, QuietSteps
<1> QED
  BY <1>1, InitIInv, PTL DEF Spec

-----------------------------------------------------------------------------
\* Claim's one statement: whatever is swept, lost or repeated, two upgraders
\* never carry out the same request.
THEOREM OneClaimantOnly == Spec => []OneClaimant
<1>1. IInv => OneClaimant
  BY DEF IInv, QueueInv
<1> QED
  BY <1>1, Invariance, PTL

\* What EndedStays says of one step.
Ended ==
  \A r \in Requests :
    /\ reqs[r] \in {"succeeded", "failed"} => ~InFlight(r)'
    /\ reqs[r] = "succeeded" => reqs'[r] = "succeeded"

\* The only statement that changes an ended request is Finish, and it is not
\* one that succeeded.
LEMMA NextEnded == IInv /\ [Next]_vars => Ended
<1> SUFFICES ASSUME IInv, [Next]_vars PROVE Ended
  OBVIOUS
<1> USE BackupAssumption DEF IInv, UpOK, Steps, Requests, Files, States, QueueInv,
        InHandOK, ClaimedOK, InFlight, Ended
<1>1. ASSUME NEW r \in Requests, Ask(r) PROVE Ended
  BY <1>1 DEF Ask, files
<1>2. CASE Tick
  BY <1>2 DEF Tick
<1>3. CASE Unmount
  BY <1>3 DEF Unmount, Fault, files
<1>4. CASE Mount
  BY <1>4 DEF Mount, files
<1>5. ASSUME NEW n \in Files, Remove(n) PROVE Ended
  BY <1>5 DEF Remove, Fault
<1>6. ASSUME NEW u \in Upgraders, Begin(u) PROVE Ended
  BY <1>6 DEF Begin, Stale, Go, files, queueOnly
<1>7. ASSUME NEW u \in Upgraders, Claim(u) PROVE Ended
  BY <1>7 DEF Claim, Claimable, files, queueOnly
<1>8. ASSUME NEW u \in Upgraders, NothingToDo(u) PROVE Ended
  BY <1>8 DEF NothingToDo, Go, files, queueOnly
<1>9. ASSUME NEW u \in Upgraders, Check(u) PROVE Ended
  BY <1>9 DEF Check, files, queueOnly
<1>10. ASSUME NEW u \in Upgraders, PutBack(u) PROVE Ended
  BY <1>10 DEF PutBack, files, queueOnly
<1>11. ASSUME NEW u \in Upgraders, WriteBegin(u) PROVE Ended
  BY <1>11 DEF WriteBegin
<1>12. ASSUME NEW u \in Upgraders, WriteFails(u) PROVE Ended
  BY <1>12 DEF WriteFails, After, Idle
<1>13. ASSUME NEW u \in Upgraders, Named(u) PROVE Ended
  BY <1>13 DEF Named, Go
<1>14. ASSUME NEW u \in Upgraders, Record(u) PROVE Ended
  BY <1>14 DEF Record, After, files, Idle
<1>15. ASSUME NEW u \in Upgraders, Finish(u) PROVE Ended
  BY <1>15 DEF Finish, files, queueOnly, Idle
<1>16. ASSUME NEW u \in Upgraders, SweepList(u) PROVE Ended
  BY <1>16 DEF SweepList, files, queueOnly
<1>17. ASSUME NEW u \in Upgraders, SweepRow(u) PROVE Ended
  BY <1>17 DEF SweepRow, Stat, files
<1>18. ASSUME NEW u \in Upgraders, ExpireList(u) PROVE Ended
  BY <1>18 DEF ExpireList, files, queueOnly, Fault
<1>19. ASSUME NEW u \in Upgraders, ExpireFile(u) PROVE Ended
  BY <1>19 DEF ExpireFile
<1>20. ASSUME NEW u \in Upgraders, Forget(u) PROVE Ended
  BY <1>20 DEF Forget
<1>21. ASSUME NEW u \in Upgraders, ExpireEnd(u) PROVE Ended
  BY <1>21 DEF ExpireEnd, files, queueOnly, Idle
<1>22. ASSUME NEW u \in Upgraders, Crash(u) PROVE Ended
  BY <1>22 DEF Crash, Idle, Fault
<1>23. ASSUME NEW u \in Upgraders, ClaimFails(u) PROVE Ended
  BY <1>23 DEF ClaimFails, Claimable, Go, files, queueOnly
<1>24. ASSUME NEW u \in Upgraders, RecordFails(u) PROVE Ended
  BY <1>24 DEF RecordFails, After, files, Idle
<1>25. ASSUME NEW u \in Upgraders, FinishFails(u) PROVE Ended
  BY <1>25 DEF FinishFails, files, queueOnly, Idle
<1>26. CASE UNCHANGED vars
  BY <1>26 DEF vars, files
<1> HIDE DEF IInv, UpOK, Steps, Requests, Files, States, QueueInv, InHandOK, ClaimedOK,
        InFlight, Ended
<1> QED
  BY <1>1, <1>2, <1>3, <1>4, <1>5, <1>6, <1>7, <1>8, <1>9, <1>10, <1>11, <1>12, <1>13,
     <1>14, <1>15, <1>16, <1>17, <1>18, <1>19, <1>20, <1>21, <1>22, <1>23, <1>24,
     <1>25, <1>26 DEF Next, Pass

\* Finish writes by id alone, and yet a request that has ended is not taken up
\* again and one that succeeded stays so.
THEOREM EndedOnce == Spec => EndedStays
<1>1. IInv /\ [Next]_vars => Ended
  BY NextEnded
<1>2. Ended => [\A r \in Requests :
       /\ reqs[r] \in {"succeeded", "failed"} => ~InFlight(r)'
       /\ reqs[r] = "succeeded" => reqs'[r] = "succeeded"]_vars
  BY DEF Ended
<1> QED
  BY <1>1, <1>2, Invariance, PTL DEF Spec, EndedStays

\* Expire's exception: with upgraders expiring from stale lists at once, the
\* newest data backup keeps its row.
THEOREM NewestIsKept == Spec => []NewestKept
<1>1. IInv => NewestKept
  BY DEF IInv, BooksInv
<1> QED
  BY <1>1, Invariance, PTL

\* The file before the row: what the catalogue forgets is off the disk, or was
\* out of sight when it was looked for.
THEOREM NoFileIsLost == Spec => []NoLostFile
<1>1. IInv => NoLostFile
  BY DEF IInv, BooksInv
<1> QED
  BY <1>1, Invariance, PTL

-----------------------------------------------------------------------------
(* Address ranges.                                                         *)

FetchFields == {"at", "kind", "first", "chain", "ok", "id", "arrived", "rows"}

\* The fetchers, what they have counted, and the tables they look up in.
FetchersOK ==
  /\ DOMAIN fetch = Fetchers
  /\ \A p \in Fetchers :
       /\ DOMAIN fetch[p] = FetchFields
       /\ fetch[p].id \in Nat /\ fetch[p].arrived \in Nat /\ fetch[p].rows \in {0, 1}
       /\ fetch[p].ok \in SUBSET Families
  /\ mem \in [Fetchers -> [{"country", "asn"} -> SUBSET Families]]

\* The newest request; nobody has claimed a newer one, or one that is pending.
NewestOK ==
  /\ DOMAIN refresh = {"st", "age", "id"} /\ refresh.id \in Nat /\ asks = refresh.id
  /\ \A p \in Fetchers :
       /\ fetch[p].id <= refresh.id
       /\ refresh.st = "pending" => fetch[p].id < refresh.id
       /\ FetchAt(p, "finish") => fetch[p].id # 0

\* What is counted for one answer was counted for those begun before it; and
\* what is counted arrived, here or at a fetcher that records.
RowsOK ==
  /\ \A p, q \in Fetchers :
       fetch[p].id # 0 /\ fetch[p].id <= fetch[q].id /\ fetch[q].rows = 1 => fetch[p].rows = 1
  /\ \A p \in Fetchers : fetch[p].rows = 1 =>
       fetch[p].arrived > 0 \/ \E q \in Fetchers \ Skips : q # p

RangesInv == FetchersOK /\ NewestOK /\ RowsOK

\* The smaller of two integers.
LEMMA SmallerOfTwo ==
  ASSUME NEW a \in Int, NEW b \in Int
  PROVE  Min({a, b}) = IF a <= b THEN a ELSE b
<1>1. \E x \in {a, b} : \A y \in {a, b} : x <= y
  OBVIOUS
<1>2. Min({a, b}) \in {a, b} /\ \A y \in {a, b} : Min({a, b}) <= y
  BY <1>1 DEF Min
<1> QED
  BY <1>2

\* recordFetch: the rows counted by an answer under way.
LEMMA OneIsCounted ==
  ASSUME NEW n \in {0, 1}, NEW families \in SUBSET Families
  PROVE  Min({n + Cardinality(families), 1}) = IF families = {} THEN n ELSE 1
<1>1. IsFiniteSet(Families)
  <2>1. IsFiniteSet({"ipv6"})
    BY FS_Singleton
  <2>2. Families = {"ipv6"} \cup {"ipv4"}
    BY DEF Families
  <2> QED
    BY <2>1, <2>2, FS_AddElement
<1>2. /\ Cardinality(families) \in Nat
      /\ Cardinality(families) = 0 <=> families = {}
  BY <1>1, FS_Subset, FS_CardinalityType, FS_EmptySet
<1> HIDE DEF Families
<1> QED
  BY <1>2, SmallerOfTwo

\* A service that starts has claimed nothing.
LEMMA RangesStart == RangesInit => RangesInv
<1> SUFFICES ASSUME RangesInit PROVE RangesInv
  OBVIOUS
<1>1. FetchersOK
  BY DEF RangesInit, FetchersOK, FetchOff, FetchFields, NoTable
<1>2. NewestOK /\ RowsOK
  BY DEF RangesInit, NewestOK, RowsOK, FetchOff, NoRefresh, FetchAt
<1> QED
  BY <1>1, <1>2 DEF RangesInv

\* A fetcher's answer goes on as it was, or is over.
GoesOn(q) ==
  /\ fetch'[q].id = fetch[q].id /\ fetch'[q].rows = fetch[q].rows
  /\ fetch'[q].arrived = fetch[q].arrived

Over(q) == fetch'[q].id = 0 /\ fetch'[q].rows = 0 /\ fetch'[q].arrived = 0

\* The newest request stays, pending no longer perhaps, or a newer one comes.
RefreshGoesOn ==
  /\ DOMAIN refresh' = {"st", "age", "id"} /\ refresh'.id \in Nat /\ asks' = refresh'.id
  /\ \/ refresh'.id > refresh.id
     \/ refresh'.id = refresh.id /\ (refresh'.st = "pending" => refresh.st = "pending")

\* The steps of a refresh that count nothing keep what was counted.
LEMMA CountsKept ==
  ASSUME RangesInv, FetchersOK', RefreshGoesOn,
         \A q \in Fetchers : (GoesOn(q) \/ Over(q)) /\ (FetchAt(q, "finish")' => fetch'[q].id # 0)
  PROVE  RangesInv'
<1>1. NewestOK'
  BY DEF RangesInv, FetchersOK, NewestOK, RefreshGoesOn, GoesOn, Over
<1>2. RowsOK'
  BY DEF RangesInv, FetchersOK, RowsOK, GoesOn, Over
<1> QED
  BY <1>1, <1>2 DEF RangesInv

\* The panel, the settings and the clock leave the fetchers alone.
LEMMA PanelKeepsRanges ==
  ASSUME RangesInv, RequestRefresh \/ SetSources \/ RefreshTick
  PROVE  RangesInv' /\ UNCHANGED <<fetch, mem>>
<1>1. UNCHANGED <<fetch, mem>>
  BY DEF RequestRefresh, SetSources, RefreshTick
<1>2. FetchersOK' /\ \A q \in Fetchers : GoesOn(q) /\ (FetchAt(q, "finish")' => fetch'[q].id # 0)
  BY <1>1 DEF RangesInv, FetchersOK, NewestOK, GoesOn, FetchAt
<1>3. RefreshGoesOn
  BY DEF RangesInv, NewestOK, RefreshGoesOn, RequestRefresh, SetSources, RefreshTick
<1> QED
  BY <1>1, <1>2, <1>3, CountsKept

\* What a fetcher does between two files: its answer goes on or is over, and
\* no table is taken away but by a stop.
LEMMA FetcherKeepsRanges ==
  ASSUME RangesInv, NEW p \in Fetchers,
         \/ Restart(p) \/ Timer(p) \/ Release(p) \/ PickFirst(p) \/ PickRest(p) \/ NextSource(p)
         \/ Store(p) \/ FinishRefresh(p)
  PROVE  RangesInv'
<1> USE DEF RangesInv
<1>1. /\ DOMAIN fetch' = Fetchers
      /\ \A q \in Fetchers : q # p => fetch'[q] = fetch[q]
      /\ DOMAIN fetch'[p] = FetchFields
      /\ GoesOn(p) \/ Over(p)
      /\ fetch'[p].ok \in SUBSET Families
      /\ FetchAt(p, "finish")' => fetch'[p].id # 0
  <2> USE DEF FetchersOK, NewestOK, GoesOn, Over, FetchAt, FetchFields
  <2>1. CASE Restart(p)
    BY <2>1 DEF Restart, FetchOff
  <2>2. CASE Timer(p)
    BY <2>2 DEF Timer, Refreshing, FetchOff
  <2>3. CASE Release(p)
    BY <2>3 DEF Release
  <2>4. CASE PickFirst(p)
    BY <2>4 DEF PickFirst
  <2>5. CASE PickRest(p)
    BY <2>5 DEF PickRest
  <2>6. CASE NextSource(p)
    BY <2>6 DEF NextSource
  <2>7. CASE Store(p)
    <3>1. fetch' = AfterDataset(p)
      BY <2>7 DEF Store
    <3>2. CASE ~LastDataset(p)
      BY <3>1, <3>2 DEF AfterDataset
    <3>3. CASE LastDataset(p) /\ fetch[p].id # 0
      BY <3>1, <3>3 DEF AfterDataset
    <3>4. CASE LastDataset(p) /\ fetch[p].id = 0
      BY <3>1, <3>4 DEF AfterDataset, FetchOff
    <3> QED
      BY <3>2, <3>3, <3>4
  <2>8. CASE FinishRefresh(p)
    BY <2>8 DEF FinishRefresh, FetchOff
  <2> QED
    BY <2>1, <2>2, <2>3, <2>4, <2>5, <2>6, <2>7, <2>8
<1>2. mem' \in [Fetchers -> [{"country", "asn"} -> SUBSET Families]]
  <2> DEFINE Tables == [{"country", "asn"} -> SUBSET Families]
  <2>1. CASE Restart(p)
    <3>1. NoTable \in Tables
      BY DEF NoTable
    <3> QED
      BY <2>1, <3>1 DEF Restart, FetchersOK
  <2>2. CASE Store(p)
    <3>1. fetch[p].ok \in SUBSET Families
      BY DEF FetchersOK
    <3>2. [mem[p] EXCEPT ![KindOf(p)] = Kept(p) \union fetch[p].ok] \in Tables
      <4>1. CASE KindOf(p) \in {"country", "asn"}
        BY <3>1, <4>1 DEF Kept, FetchersOK
      <4>2. CASE KindOf(p) \notin {"country", "asn"}
        BY <4>2 DEF FetchersOK
      <4> QED
        BY <4>1, <4>2
    <3> QED
      BY <2>2, <3>2 DEF Store, FetchersOK
  <2>3. CASE UNCHANGED mem
    BY <2>3 DEF FetchersOK
  <2> QED
    BY <2>1, <2>2, <2>3 DEF Timer, Release, PickFirst, PickRest, NextSource, FinishRefresh
<1>3. FetchersOK'
  BY <1>1, <1>2 DEF FetchersOK, GoesOn, Over
<1>4. RefreshGoesOn
  BY DEF NewestOK, RefreshGoesOn, Restart, Timer, Release, PickFirst, PickRest, NextSource, Store,
         FinishRefresh
<1>5. \A q \in Fetchers : (GoesOn(q) \/ Over(q)) /\ (FetchAt(q, "finish")' => fetch'[q].id # 0)
  BY <1>1 DEF GoesOn, FetchAt, NewestOK
<1> QED
  BY <1>3, <1>4, <1>5, CountsKept

\* A claim is of a newer request than any before, and nothing is counted yet.
LEMMA ClaimKeepsRanges ==
  ASSUME RangesInv, NEW p \in Fetchers, ClaimRefresh(p)
  PROVE  RangesInv'
<1> USE DEF RangesInv
<1>1. /\ DOMAIN fetch' = Fetchers /\ DOMAIN fetch'[p] = FetchFields
      /\ \A q \in Fetchers : q # p => fetch'[q] = fetch[q]
      /\ fetch'[p].id = refresh.id /\ fetch'[p].rows = 0 /\ fetch'[p].arrived = 0
      /\ fetch'[p].at = "first" /\ fetch'[p].ok = {}
  BY DEF ClaimRefresh, Refreshing, FetchOff, FetchersOK, FetchFields
<1>2. FetchersOK'
  BY <1>1 DEF FetchersOK, NewestOK, ClaimRefresh
<1>3. /\ DOMAIN refresh' = {"st", "age", "id"} /\ refresh'.id = refresh.id
      /\ refresh'.st = "running" /\ refresh.st = "pending" /\ asks' = asks
  BY DEF ClaimRefresh, NewestOK
<1>4. NewestOK'
  BY <1>1, <1>3 DEF NewestOK, FetchAt
<1>5. \A q \in Fetchers : q # p => fetch[q].id < fetch'[p].id
  BY <1>1, <1>3 DEF NewestOK
<1>6. \A q \in Fetchers : fetch'[q].rows = 1 =>
        fetch'[q].arrived > 0 \/ \E r \in Fetchers \ Skips : r # q
  BY <1>1 DEF RowsOK
<1>7. ASSUME NEW q \in Fetchers, NEW r \in Fetchers,
             fetch'[q].id # 0, fetch'[q].id <= fetch'[r].id, fetch'[r].rows = 1
      PROVE  fetch'[q].rows = 1
  <2>1. r # p
    BY <1>1, <1>7
  <2>2. q # p
    <3>1. fetch'[r].id < fetch'[p].id /\ fetch'[r].id \in Nat /\ fetch'[p].id \in Nat
      BY <1>1, <1>2, <1>5, <2>1 DEF FetchersOK
    <3> QED
      BY <1>7, <3>1
  <2> QED
    BY <1>1, <1>7, <2>1, <2>2 DEF RowsOK
<1> QED
  BY <1>2, <1>4, <1>6, <1>7 DEF RowsOK

\* What arrives is counted for every answer under way, whoever fetched it.
LEMMA LoadKeepsRanges ==
  ASSUME RangesInv, NEW p \in Fetchers, Load(p)
  PROVE  RangesInv'
<1> USE DEF RangesInv
<1>1. PICK families \in SUBSET Families, written \in SUBSET Families :
        written \subseteq families /\ fetch' = Recorded(p, families, written)
  BY DEF Load
<1>2. DOMAIN fetch' = Fetchers
  BY <1>1 DEF Recorded
<1>3. ASSUME NEW q \in Fetchers
      PROVE  /\ DOMAIN fetch'[q] = FetchFields
             /\ fetch'[q].id = fetch[q].id
             /\ fetch'[q].rows = IF fetch[q].id # 0 /\ p \notin Skips /\ written # {}
                                 THEN 1 ELSE fetch[q].rows
             /\ fetch'[q].arrived = IF q = p /\ fetch[q].id # 0 /\ families # {}
                                    THEN 1 ELSE fetch[q].arrived
             /\ fetch'[q].at = IF q = p THEN "loaded" ELSE fetch[q].at
             /\ fetch'[q].ok \in SUBSET Families
  BY <1>1, OneIsCounted DEF Recorded, FetchersOK, FetchFields
<1>4. FetchersOK'
  BY <1>2, <1>3 DEF FetchersOK, Load
<1>5. NewestOK'
  BY <1>3 DEF NewestOK, FetchAt, Load
<1>6. \A q, r \in Fetchers :
        fetch'[q].id # 0 /\ fetch'[q].id <= fetch'[r].id /\ fetch'[r].rows = 1 => fetch'[q].rows = 1
  BY <1>3 DEF RowsOK, FetchersOK
<1>7. \A q \in Fetchers : fetch'[q].rows = 1 =>
        fetch'[q].arrived > 0 \/ \E r \in Fetchers \ Skips : r # q
  <2>1. written # {} => families # {}
    BY <1>1
  <2> QED
    BY <1>3, <2>1 DEF RowsOK, FetchersOK
<1> QED
  BY <1>4, <1>5, <1>6, <1>7 DEF RowsOK

\* The inductive invariant holds.
LEMMA RangesInvariance == RangesSpec => []RangesInv
<1>1. RangesInv /\ [RangesNext]_rangeVars => RangesInv'
  <2> SUFFICES ASSUME RangesInv, [RangesNext]_rangeVars PROVE RangesInv'
    OBVIOUS
  <2>1. CASE UNCHANGED rangeVars
    BY <2>1 DEF RangesInv, FetchersOK, NewestOK, RowsOK, FetchAt, rangeVars
  <2> QED
    BY <2>1, PanelKeepsRanges, FetcherKeepsRanges, ClaimKeepsRanges, LoadKeepsRanges
       DEF RangesNext, Refresh
<1> QED
  BY <1>1, RangesStart, PTL DEF RangesSpec

\* Fetcher.Refresh: a refresh that fails, in whole or in one family, takes
\* no table away from the lookups; only a stop of the service does.
THEOREM LookupsAreKept == RangesSpec => LookupsSurvive
<1>1. RangesInv /\ [RangesNext]_rangeVars =>
        [\A p \in Fetchers, k \in {"country", "asn"} :
           fetch'[p].at # "start" => mem[p][k] \subseteq mem'[p][k]]_rangeVars
  <2> SUFFICES ASSUME RangesInv, RangesNext, NEW p \in Fetchers, NEW k \in {"country", "asn"},
                      fetch'[p].at # "start"
               PROVE  mem[p][k] \subseteq mem'[p][k]
    OBVIOUS
  <2>1. ASSUME NEW q \in Fetchers, Restart(q) PROVE mem[p][k] \subseteq mem'[p][k]
    <3>1. p # q
      BY <2>1 DEF Restart, RangesInv, FetchersOK, FetchOff
    <3> QED
      BY <2>1, <3>1 DEF Restart, RangesInv, FetchersOK
  <2>2. ASSUME NEW q \in Fetchers, Store(q) PROVE mem[p][k] \subseteq mem'[p][k]
    BY <2>2 DEF Store, Kept, RangesInv, FetchersOK
  <2>3. CASE UNCHANGED mem
    BY <2>3
  <2> QED
    BY <2>1, <2>2, <2>3
       DEF RangesNext, Refresh, RequestRefresh, SetSources, RefreshTick, Timer, Release,
           ClaimRefresh, PickFirst, PickRest, Load, NextSource, FinishRefresh
<1> QED
  BY <1>1, RangesInvariance, PTL DEF RangesSpec, LookupsSurvive

\* Finish: a request is marked succeeded only when a file arrived for it, or
\* at a service that records what it fetches, and not for an older answer.
THEOREM SuccessesAreReal == RangesSpec => SuccessIsReal
<1>1. RangesInv /\ [RangesNext]_rangeVars =>
        [\A p \in Fetchers :
           (FetchAt(p, "finish") /\ refresh'.st = "succeeded" /\ refresh.st # "succeeded") =>
             \/ fetch[p].arrived > 0
             \/ \E q \in Fetchers \ Skips : q # p /\ fetch[p].rows > 0]_rangeVars
  <2> SUFFICES ASSUME RangesInv, RangesNext, NEW p \in Fetchers,
                      FetchAt(p, "finish"), refresh'.st = "succeeded", refresh.st # "succeeded"
               PROVE  \/ fetch[p].arrived > 0
                      \/ \E q \in Fetchers \ Skips : q # p /\ fetch[p].rows > 0
    OBVIOUS
  <2>1. PICK f \in Fetchers : FinishRefresh(f)
    <3>1. ~(RequestRefresh \/ RefreshTick)
      BY DEF RequestRefresh, RefreshTick, RangesInv, NewestOK
    <3>2. \A q \in Fetchers : ~(Release(q) \/ ClaimRefresh(q))
      BY DEF Release, ClaimRefresh, RangesInv, NewestOK
    <3> QED
      BY <3>1, <3>2 DEF RangesNext, Refresh, SetSources, Restart, Timer, PickFirst, PickRest,
                            Load, NextSource, Store
  <2>2. fetch[f].id = refresh.id /\ Counted(f)
    BY <2>1 DEF FinishRefresh, RangesInv, NewestOK
  <2>3. fetch[f].rows = 1 /\ fetch[p].id # 0 /\ fetch[p].id <= fetch[f].id
    BY <2>2 DEF Counted, RangesInv, FetchersOK, NewestOK
  <2>4. fetch[p].rows = 1
    BY <2>3 DEF RangesInv, RowsOK
  <2> QED
    BY <2>4 DEF RangesInv, RowsOK
<1> QED
  BY <1>1, RangesInvariance, PTL DEF RangesSpec, SuccessIsReal
=============================================================================
