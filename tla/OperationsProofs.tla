-------------------------- MODULE OperationsProofs --------------------------
(***************************************************************************)
(* What the panel asks for, sends and counts, and what the upgrader does:  *)
(* the beacon's salts and events, passwords by mail, the records of what   *)
(* was pressed, backups and restores, release updates, schema upgrades and *)
(* the setup checks.                                                       *)
(* Each part is proved for any requests, settings, tables, versions,       *)
(* faults and order of the steps.                                          *)
(***************************************************************************)
EXTENDS Asking, Mail, Preflight, Beacon, Restore, SchemaUpgrade, FiniteSetTheorems, TLAPS

-----------------------------------------------------------------------------
(* The beacon.                                                             *)

Places == {"idle", "site", "pause", "salt", "rotate", "reread", "enqueue", "done"}

Request == [at : Places, site : Sites \union {NoSite}, now : Int, id : Int]

\* Where everything of the beacon lives.
BeaconTypes ==
  /\ clock \in Nat
  /\ req \in [Reqs -> Request]
  /\ salt \in Nat /\ rotatedAt \in Int /\ drawn \in Seq(Int)
  /\ events \in Seq(Reqs) /\ batch \subseteq Reqs
  /\ accepted \subseteq Reqs /\ dropped \subseteq Reqs
  /\ rejected \subseteq Reqs /\ held \subseteq Reqs
  /\ written \subseteq Reqs /\ writerDropped \subseteq Reqs


\* A request's steps.
LEMMA RequestTyped ==
  ASSUME BeaconTypes, NEW r \in Reqs, Handle(r)
  PROVE  req' \in [Reqs -> Request]
<1> DEFINE q == req[r]
<1>0. /\ q \in Request /\ clock \in Int /\ salt \in Int
      /\ q.at \in Places /\ q.site \in Sites \union {NoSite} /\ q.now \in Int /\ q.id \in Int
  BY DEF BeaconTypes, Request
<1>1. \A v \in Request : [req EXCEPT ![r] = v] \in [Reqs -> Request]
  BY DEF BeaconTypes
<1>2. Unread \in Request /\ \A p \in Places : [Unread EXCEPT !.at = p] \in Request
  BY DEF Unread, Request, Places
<1>3. \A p \in Places : [q EXCEPT !.at = p] \in Request
  BY <1>0 DEF Request
<1>4. \A p \in Places : Go(r, p) => req' \in [Reqs -> Request]
  BY <1>1, <1>3 DEF Go
<1>5. BeaconEnd(r) => req' \in [Reqs -> Request]
  BY <1>1, <1>2 DEF BeaconEnd, Places
<1>6. \A p \in Places, s \in Sites : [q EXCEPT !.at = p, !.site = s] \in Request
  BY <1>0 DEF Request
<1>7. \A x \in Request : [x EXCEPT !.now = clock] \in Request /\ [x EXCEPT !.id = salt] \in Request
  BY <1>0 DEF Request
<1>a. \A x \in Request, p \in Places : [x EXCEPT !.at = p] \in Request
  BY DEF Request
<1>b. \A x \in Request, p \in Places : [x EXCEPT !.at = p, !.now = clock] \in Request
  <2> TAKE x \in Request, p \in Places
  <2> DEFINE y == [x EXCEPT !.at = p]
  <2>1. y \in Request
    BY <1>a
  <2> HIDE DEF y
  <2>2. [y EXCEPT !.now = clock] \in Request
    BY <1>7, <2>1
  <2> QED
    BY <2>2 DEF y
<1>c. \A x \in Request, p \in Places : [x EXCEPT !.at = p, !.now = clock, !.id = salt] \in Request
  <2> TAKE x \in Request, p \in Places
  <2> DEFINE y == [x EXCEPT !.at = p, !.now = clock]
  <2>1. y \in Request
    BY <1>b
  <2> HIDE DEF y
  <2>2. [y EXCEPT !.id = salt] \in Request
    BY <1>7, <2>1
  <2> QED
    BY <2>2 DEF y
<1>d. \A x \in Request, p \in Places : [x EXCEPT !.at = p, !.id = salt] \in Request
  <2> TAKE x \in Request, p \in Places
  <2> DEFINE y == [x EXCEPT !.at = p]
  <2>1. y \in Request
    BY <1>a
  <2> HIDE DEF y
  <2>2. [y EXCEPT !.id = salt] \in Request
    BY <1>7, <2>1
  <2> QED
    BY <2>2 DEF y
<1> HIDE DEF q
<1>8. CASE Arrive(r)
  BY <1>1, <1>6, <1>8 DEF Arrive, q, Places
<1>9. CASE Shed(r) \/ BeaconRefuse(r) \/ RotateFails(r) \/ Enqueue(r)
  BY <1>5, <1>9 DEF Shed, BeaconRefuse, RotateFails, Enqueue
<1>10. CASE CheckSite(r) \/ CheckPause(r) \/ Rotate(r)
  BY <1>4, <1>5, <1>10 DEF CheckSite, CheckPause, Rotate, Places
<1>11. CASE ReadSalt(r) \/ Reread(r)
  <2>1. CASE ReadSalt(r)
    BY <1>1, <1>2, <1>b, <1>c, <2>1 DEF ReadSalt, Places
  <2>2. CASE Reread(r)
    BY <1>0, <1>1, <1>d, <2>2 DEF Reread, q, Places
  <2> QED
    BY <1>11, <2>1, <2>2
<1> QED
  BY <1>8, <1>9, <1>10, <1>11 DEF Handle

\* Every step of the beacon keeps to the types.
LEMMA BeaconTyped == BeaconTypes /\ [BeaconNext]_beaconVars => BeaconTypes'
<1> SUFFICES ASSUME BeaconTypes, [BeaconNext]_beaconVars PROVE BeaconTypes'
  OBVIOUS
<1>1. ASSUME NEW r \in Reqs, Handle(r) PROVE BeaconTypes'
  <2>1. req' \in [Reqs -> Request]
    BY <1>1, RequestTyped
  <2>2. /\ accepted' \subseteq Reqs /\ dropped' \subseteq Reqs
        /\ rejected' \subseteq Reqs /\ held' \subseteq Reqs
    BY <1>1 DEF Handle, Arrive, Shed, BeaconRefuse, CheckSite, CheckPause, ReadSalt, Rotate,
                RotateFails, Reread, Enqueue, countVars, BeaconTypes
  <2>3. /\ written' \subseteq Reqs /\ writerDropped' \subseteq Reqs /\ batch' \subseteq Reqs
        /\ clock' = clock
    BY <1>1 DEF Handle, Arrive, Shed, BeaconRefuse, CheckSite, CheckPause, ReadSalt, Rotate,
                RotateFails, Reread, Enqueue, writerVars, BeaconTypes
  <2>4. events' \in Seq(Reqs)
    <3>1. UNCHANGED events \/ events' = Append(events, r)
      BY <1>1 DEF Handle, Arrive, Shed, BeaconRefuse, CheckSite, CheckPause, ReadSalt, Rotate,
                  RotateFails, Reread, Enqueue
    <3> QED
      BY <3>1 DEF BeaconTypes
  <2>5. salt' \in Nat /\ rotatedAt' \in Int /\ drawn' \in Seq(Int)
    <3>1. CASE Rotate(r)
      BY <3>1 DEF Rotate, BeaconTypes, Request
    <3>2. CASE ~Rotate(r)
      BY <1>1, <3>2 DEF Handle, Arrive, Shed, BeaconRefuse, CheckSite, CheckPause, ReadSalt,
                RotateFails, Reread, Enqueue, saltVars, BeaconTypes
    <3> QED
      BY <3>1, <3>2
  <2> QED
    BY <2>1, <2>2, <2>3, <2>4, <2>5 DEF BeaconTypes
<1>2. CASE ApplySites \/ ApplyPaused \/ FlushTick \/ Draining \/ Drained
  BY <1>2 DEF ApplySites, ApplyPaused, FlushTick, Draining, Drained, BeaconTypes,
              saltVars, writerVars, countVars
<1>3. CASE Receive
  <2>1. events # <<>> /\ events' = Tail(events) /\ batch' = batch \union {Head(events)}
    BY <1>3 DEF Receive
  <2>2. Head(events) \in Reqs /\ Tail(events) \in Seq(Reqs)
    BY <2>1 DEF BeaconTypes
  <2> QED
    BY <1>3, <2>1, <2>2 DEF Receive, BeaconTypes, saltVars, countVars
<1>4. CASE Write
  BY <1>4 DEF Write, WriteOK, WriteFails, Flushed, BeaconTypes, saltVars, countVars
<1>5. CASE Cancel \/ Stopping \/ Tick
  BY <1>5 DEF Cancel, Stopping, ServeReturns, ServeFails, SettingsEnd, StopWriter, Exit, Tick,
              BeaconTypes, saltVars, writerVars, countVars
<1>6. CASE UNCHANGED beaconVars
  BY <1>6 DEF beaconVars, BeaconTypes, saltVars, writerVars, countVars
<1> QED
  BY <1>1, <1>2, <1>3, <1>4, <1>5, <1>6 DEF BeaconNext

\* The salt in use was drawn no earlier than the time its period counts from;
\* a request that rotates carries a clock that is past, and one that has
\* rotated will find a salt drawn no earlier than its clock.
SaltsOK ==
  /\ Len(drawn) = salt + 1 /\ rotatedAt <= drawn[salt + 1] /\ drawn[salt + 1] <= clock
  /\ \A r \in Reqs :
       /\ req[r].at = "rotate" => req[r].now <= clock
       /\ req[r].at = "reread" => req[r].now <= clock /\ req[r].now <= drawn[salt + 1]
       /\ req[r].at = "enqueue" => req[r].id \in 0..salt /\ req[r].now - drawn[req[r].id + 1] < Period

\* What a request's steps make of it.
LEMMA RequestSteps ==
  ASSUME BeaconTypes, NEW r \in Reqs, Handle(r)
  PROVE  /\ \A q \in Reqs \ {r} : req'[q] = req[q]
         /\ ~ReadSalt(r) /\ ~Rotate(r) /\ ~Reread(r) =>
              req'[r].at \notin {"rotate", "reread", "enqueue"} /\ UNCHANGED saltVars
         /\ ReadSalt(r) => req'[r].now = clock /\ UNCHANGED saltVars
              /\ \/ req'[r].at = "rotate"
                 \/ req'[r].at = "enqueue" /\ req'[r].id = salt /\ Fresh(clock)
         /\ Rotate(r) => req[r].at = "rotate" /\ req'[r].at = "reread" /\ req'[r].now = req[r].now
         /\ Reread(r) => req[r].at = "reread" /\ req'[r].at = "enqueue" /\ req'[r].now = req[r].now
                         /\ req'[r].id = salt /\ UNCHANGED saltVars
<1>0. req \in [Reqs -> Request]
  BY DEF BeaconTypes
<1>1. \A q \in Reqs \ {r} : req'[q] = req[q]
  BY <1>0 DEF Handle, Arrive, Shed, BeaconRefuse, CheckSite, CheckPause, ReadSalt, Rotate,
              RotateFails, Reread, Enqueue, Go, BeaconEnd
<1>2. ~ReadSalt(r) /\ ~Rotate(r) /\ ~Reread(r) => UNCHANGED saltVars
  BY DEF Handle, Arrive, Shed, BeaconRefuse, CheckSite, CheckPause, RotateFails, Enqueue
<1>3. \A p : Go(r, p) => req'[r].at = p /\ req'[r].now = req[r].now
  BY <1>0 DEF Go, Request
<1>4. BeaconEnd(r) => req'[r].at = "done"
  BY <1>0 DEF BeaconEnd, Unread
<1>5. Arrive(r) => req'[r].at = "site"
  <2>1. \A s : [req[r] EXCEPT !.at = "site", !.site = s].at = "site"
    BY <1>0 DEF Request
  <2> QED
    BY <1>0, <2>1 DEF Arrive
<1>6. ~ReadSalt(r) /\ ~Rotate(r) /\ ~Reread(r) => req'[r].at \in {"done", "pause", "salt", "site"}
  BY <1>3, <1>4, <1>5 DEF Handle, Shed, BeaconRefuse, CheckSite, CheckPause, RotateFails, Enqueue
<1>7. ReadSalt(r) => req'[r].now = clock /\ UNCHANGED saltVars
        /\ \/ req'[r].at = "rotate"
           \/ req'[r].at = "enqueue" /\ req'[r].id = salt /\ Fresh(clock)
  <2> DEFINE v == [Unread EXCEPT !.at = "enqueue", !.now = clock, !.id = salt]
             w == [Unread EXCEPT !.at = "rotate", !.now = clock]
  <2>1. v.at = "enqueue" /\ v.now = clock /\ v.id = salt /\ w.at = "rotate" /\ w.now = clock
    BY Zenon DEF Unread
  <2>2. ReadSalt(r) => UNCHANGED saltVars /\ req' = [req EXCEPT ![r] = IF Fresh(clock) THEN v ELSE w]
    BY DEF ReadSalt
  <2> HIDE DEF v, w
  <2> QED
    BY <1>0, <2>1, <2>2
<1>8. Rotate(r) => req[r].at = "rotate" /\ req'[r].at = "reread" /\ req'[r].now = req[r].now
  BY <1>3 DEF Rotate, At
<1>9. Reread(r) => req[r].at = "reread" /\ req'[r].at = "enqueue" /\ req'[r].now = req[r].now
                   /\ req'[r].id = salt /\ UNCHANGED saltVars
  <2> DEFINE v == [req[r] EXCEPT !.at = "enqueue", !.id = salt]
  <2>1. DOMAIN req[r] = {"at", "site", "now", "id"}
    BY <1>0 DEF Request
  <2>2. v.at = "enqueue" /\ v.id = salt /\ v.now = req[r].now
    BY <2>1
  <2>3. Reread(r) => req[r].at = "reread" /\ UNCHANGED saltVars /\ req' = [req EXCEPT ![r] = v]
    BY DEF Reread, At
  <2> HIDE DEF v
  <2> QED
    BY <1>0, <2>2, <2>3
<1> QED
  BY <1>1, <1>2, <1>6, <1>7, <1>8, <1>9

\* However requests rotate, re-read and stop for a while in between.
LEMMA SaltsKept == BeaconTypes /\ SaltsOK /\ [BeaconNext]_beaconVars => SaltsOK'
<1> SUFFICES ASSUME BeaconTypes, SaltsOK, [BeaconNext]_beaconVars PROVE SaltsOK'
  OBVIOUS
<1>0. /\ clock \in Int /\ salt \in Nat /\ rotatedAt \in Int /\ drawn \in Seq(Int) /\ Period \in Nat \ {0}
      /\ \A r \in Reqs : req[r].now \in Int /\ req[r].id \in Int
      /\ \A i \in 1..(salt + 1) : drawn[i] \in Int
  BY BeaconAssumption DEF BeaconTypes, Request, SaltsOK
<1>1. ASSUME NEW r \in Reqs, Handle(r) PROVE SaltsOK'
  <2>1. clock' = clock
    BY <1>1 DEF Handle, Arrive, Shed, BeaconRefuse, CheckSite, CheckPause, ReadSalt, Rotate,
                RotateFails, Reread, Enqueue
  <2>2. CASE ~Rotate(r)
    <3>1. UNCHANGED <<salt, rotatedAt, drawn>>
      BY <1>1, <2>2, RequestSteps DEF saltVars
    <3>2. \A q \in Reqs \ {r} : req'[q] = req[q]
      BY <1>1, RequestSteps
    <3>3. \/ req'[r].at \notin {"rotate", "reread", "enqueue"}
          \/ req'[r].now = clock /\ req'[r].at = "rotate"
          \/ req'[r].now = clock /\ req'[r].at = "enqueue" /\ req'[r].id = salt /\ clock - rotatedAt < Period
          \/ req[r].at = "reread" /\ req'[r].at = "enqueue" /\ req'[r].now = req[r].now /\ req'[r].id = salt
      BY <1>1, <2>2, RequestSteps DEF Fresh
    <3>4. /\ Len(drawn) = salt + 1 /\ rotatedAt <= drawn[salt + 1] /\ drawn[salt + 1] <= clock
          /\ drawn[salt + 1] \in Int
      BY <1>0 DEF SaltsOK
    <3>5. /\ req'[r].at = "rotate" => req'[r].now <= clock
          /\ req'[r].at # "reread"
      BY <1>0, <3>3
    <3>6. req'[r].at = "enqueue" => req'[r].id = salt /\ req'[r].now - drawn[salt + 1] < Period
      BY <1>0, <3>3, <3>4 DEF SaltsOK
    <3>7. \A q \in Reqs :
            /\ req'[q].at = "rotate" => req'[q].now <= clock
            /\ req'[q].at = "reread" => req'[q].now <= clock /\ req'[q].now <= drawn[salt + 1]
            /\ req'[q].at = "enqueue" => req'[q].id \in 0..salt
                                        /\ req'[q].now - drawn[req'[q].id + 1] < Period
      <4> TAKE q \in Reqs
      <4>1. CASE q = r
        BY <1>0, <3>5, <3>6, <4>1
      <4>2. CASE q # r
        BY <3>2, <4>2 DEF SaltsOK
      <4> QED
        BY <4>1, <4>2
    <3> QED
      BY <2>1, <3>1, <3>4, <3>7 DEF SaltsOK
  <2>3. CASE Rotate(r)
    <3>1. /\ salt' = salt + 1 /\ rotatedAt' = req[r].now /\ drawn' = Append(drawn, clock)
          /\ req[r].at = "rotate" /\ req'[r].at = "reread" /\ req'[r].now = req[r].now
          /\ \A q \in Reqs \ {r} : req'[q] = req[q]
      BY <1>1, <2>3, RequestSteps DEF Rotate
    <3>2. /\ Len(drawn') = salt' + 1 /\ drawn'[salt' + 1] = clock
          /\ \A i \in 1..(salt + 1) : drawn'[i] = drawn[i]
      BY <1>0, <3>1 DEF SaltsOK
    <3>3. \A q \in Reqs :
            /\ req'[q].at = "rotate" => req'[q].now <= clock
            /\ req'[q].at = "reread" => req'[q].now <= clock
            /\ req'[q].at = "enqueue" => req'[q].id \in 0..salt'
                                        /\ req'[q].now - drawn'[req'[q].id + 1] < Period
      <4> TAKE q \in Reqs
      <4>1. CASE q = r
        BY <3>1, <4>1 DEF SaltsOK
      <4>2. CASE q # r
        <5>1. /\ req[q].at = "rotate" => req[q].now <= clock
              /\ req[q].at = "reread" => req[q].now <= clock
              /\ req[q].at = "enqueue" => req[q].id \in 0..salt
                                         /\ req[q].now - drawn[req[q].id + 1] < Period
          BY DEF SaltsOK
        <5>2. \A i \in 0..salt : drawn'[i + 1] = drawn[i + 1] /\ i \in 0..salt'
          BY <1>0, <3>1, <3>2
        <5> QED
          BY <3>1, <4>2, <5>1, <5>2
      <4> QED
        BY <4>1, <4>2
    <3>4. req[r].now <= clock /\ clock <= clock
      BY <1>0, <3>1 DEF SaltsOK
    <3> QED
      BY <2>1, <3>1, <3>2, <3>3, <3>4 DEF SaltsOK
  <2> QED
    BY <2>2, <2>3
<1>2. CASE UNCHANGED <<clock, req, saltVars>>
  BY <1>2 DEF SaltsOK, saltVars
<1>3. CASE Tick
  <2>1. clock' = clock + 1 /\ UNCHANGED <<req, salt, rotatedAt, drawn>>
    BY <1>3 DEF Tick, saltVars
  <2> QED
    BY <1>0, <2>1 DEF SaltsOK
<1>4. CASE ApplySites \/ ApplyPaused \/ Receive \/ FlushTick \/ Draining \/ Drained \/ Write
  BY <1>2, <1>4 DEF ApplySites, ApplyPaused, Receive, FlushTick, Draining, Drained, Write,
                    WriteOK, WriteFails, Flushed
<1>5. CASE Cancel \/ Stopping
  BY <1>2, <1>5 DEF Cancel, Stopping, ServeReturns, ServeFails, SettingsEnd, StopWriter, Exit
<1>6. CASE UNCHANGED beaconVars
  BY <1>2, <1>6 DEF beaconVars
<1> QED
  BY <1>1, <1>3, <1>4, <1>5, <1>6 DEF BeaconNext

\* The beacon has just begun.
LEMMA BeaconStarts == BeaconInit => BeaconTypes /\ SaltsOK
<1> SUFFICES ASSUME BeaconInit PROVE BeaconTypes /\ SaltsOK
  OBVIOUS
<1>1. Unread \in Request /\ Unread.at = "idle"
  BY DEF Unread, Request, Places
<1>2. BeaconTypes
  BY <1>1 DEF BeaconInit, BeaconTypes
<1>3. SaltsOK
  BY <1>1 DEF BeaconInit, SaltsOK
<1> QED
  BY <1>2, <1>3

\* VisitorIDs.currentSalt and rotate: whatever requests rotate at once, and
\* however long one waits between its reads, a visitor ID is made with a salt
\* that was drawn less than a period before the request.
THEOREM SaltsDoExpire == BeaconSpec => []SaltsExpire
<1>1. SaltsOK => SaltsExpire
  BY DEF SaltsOK, SaltsExpire
<1> QED
  BY <1>1, BeaconStarts, BeaconTyped, SaltsKept, PTL DEF BeaconSpec

\* The channel once a row is added.
LEMMA QueuedIsThere ==
  ASSUME NEW S, NEW s \in Seq(S), NEW x \in S
  PROVE  ToSet(Append(s, x)) = ToSet(s) \union {x}
<1> DEFINE t == Append(s, x)
<1>1. /\ Len(t) = Len(s) + 1 /\ DOMAIN t = 1..Len(t) /\ DOMAIN s = 1..Len(s)
      /\ t[Len(s) + 1] = x /\ \A i \in 1..Len(s) : t[i] = s[i]
  OBVIOUS
<1>2. Len(s) \in Nat
  OBVIOUS
<1> HIDE DEF t
<1> SUFFICES ToSet(t) = ToSet(s) \union {x}
  BY DEF t
<1>3. ASSUME NEW y \in ToSet(t) PROVE y \in ToSet(s) \union {x}
  <2>1. PICK i \in 1..(Len(s) + 1) : y = t[i]
    BY <1>1, <1>2 DEF ToSet
  <2> QED
    BY <1>1, <1>2, <2>1 DEF ToSet
<1>4. ASSUME NEW y \in ToSet(s) PROVE y \in ToSet(t)
  <2>1. PICK i \in 1..Len(s) : y = s[i]
    BY <1>1 DEF ToSet
  <2>2. i \in DOMAIN t /\ t[i] = y
    BY <1>1, <1>2, <2>1
  <2> QED
    BY <2>2 DEF ToSet
<1>5. x \in ToSet(t)
  <2>1. Len(s) + 1 \in DOMAIN t
    BY <1>1, <1>2
  <2> QED
    BY <1>1, <2>1 DEF ToSet
<1> QED
  BY <1>3, <1>4, <1>5

\* The row received was in the channel, with those still in it.
LEMMA RowWasThere ==
  ASSUME NEW S, NEW s \in Seq(S), s # <<>>
  PROVE  /\ Tail(s) \in Seq(S)
         /\ ToSet(s) = {Head(s)} \union ToSet(Tail(s))
<1> DEFINE t == Tail(s)
<1>1. /\ Len(s) \in Nat /\ Len(s) > 0 /\ Len(t) = Len(s) - 1
      /\ DOMAIN t = 1..Len(t) /\ DOMAIN s = 1..Len(s) /\ t \in Seq(S)
      /\ Head(s) = s[1] /\ \A i \in 1..Len(t) : t[i] = s[i + 1]
  OBVIOUS
<1> HIDE DEF t
<1> SUFFICES t \in Seq(S) /\ ToSet(s) = {s[1]} \union ToSet(t)
  BY <1>1 DEF t
<1>2. ASSUME NEW y \in ToSet(s) PROVE y \in {s[1]} \union ToSet(t)
  <2>1. PICK i \in 1..Len(s) : y = s[i]
    BY <1>1 DEF ToSet
  <2>2. CASE i > 1
    <3>1. i - 1 \in 1..Len(t) /\ t[i - 1] = y
      BY <1>1, <2>1, <2>2
    <3> QED
      BY <1>1, <3>1 DEF ToSet
  <2>3. CASE i = 1
    BY <2>1, <2>3
  <2> QED
    BY <2>2, <2>3
<1>3. ASSUME NEW y \in ToSet(t) PROVE y \in ToSet(s)
  <2>1. PICK i \in 1..Len(t) : y = t[i]
    BY <1>1 DEF ToSet
  <2>2. i + 1 \in DOMAIN s /\ s[i + 1] = y
    BY <1>1, <2>1
  <2> QED
    BY <2>2 DEF ToSet
<1>4. s[1] \in ToSet(s)
  BY <1>1 DEF ToSet
<1> QED
  BY <1>1, <1>2, <1>3, <1>4


\* A request that has ended was counted once, any other not yet.
CountsAreApart ==
  /\ \A r \in Reqs : r \in accepted \union dropped \union rejected \union held <=> req[r].at = "done"
  /\ accepted \intersect (dropped \union rejected \union held) = {}
  /\ dropped \intersect (rejected \union held) = {}
  /\ rejected \intersect held = {}

\* An accepted event is in the channel, in the batch, in the table, or counted
\* among the writer's own losses.
RowsBalance ==
  accepted = (written \union (writerDropped \ dropped) \union batch \union ToSet(events))

\* The order main takes its parts down in.
StopOrder ==
  /\ main \in {"serving", "stopping"} => shutdown = "none"
  /\ shutdown = "clean" => InFlight = {}
  /\ wpc \in {"drain", "drainWrite", "lastWrite", "done"} => main \in {"draining", "exited"}
  /\ shutdown = "clean" /\ wpc \in {"lastWrite", "done"} => events = <<>>
  /\ wpc = "done" => batch = {}
  /\ main = "exited" => wpc = "done"

\* What the steps of a request make of the counters.
LEMMA CountsKept ==
  ASSUME BeaconTypes, CountsAreApart, RowsBalance, NEW r \in Reqs, Handle(r)
  PROVE  CountsAreApart' /\ RowsBalance'
<1>0. req[r].at # "done" /\ \A q \in Reqs \ {r} : req'[q] = req[q]
  BY RequestSteps DEF Handle, Arrive, Shed, BeaconRefuse, CheckSite, CheckPause, ReadSalt, Rotate,
                      RotateFails, Reread, Enqueue, At
<1>1. r \notin accepted \union dropped \union rejected \union held
  BY <1>0 DEF CountsAreApart
<1>2. BeaconEnd(r) => req'[r].at = "done"
  BY DEF BeaconEnd, Unread, BeaconTypes
<1>3. \A p : Go(r, p) => req'[r].at = p
  BY DEF Go, BeaconTypes, Request
<1>4. CASE UNCHANGED <<countVars, events, batch, written, writerDropped>> /\ req'[r].at # "done"
  BY <1>0, <1>1, <1>4 DEF CountsAreApart, RowsBalance, countVars
<1>5. CASE /\ BeaconEnd(r) /\ UNCHANGED <<events, batch, written, writerDropped>>
           /\ \/ dropped' = dropped \union {r} /\ UNCHANGED <<accepted, rejected, held>>
              \/ rejected' = rejected \union {r} /\ UNCHANGED <<accepted, dropped, held>>
              \/ held' = held \union {r} /\ UNCHANGED <<accepted, dropped, rejected>>
  <2>1. CountsAreApart'
    BY <1>0, <1>1, <1>2, <1>5 DEF CountsAreApart
  <2>2. writerDropped \ dropped' = writerDropped \ dropped
    BY <1>1, <1>5 DEF RowsBalance
  <2> QED
    BY <1>5, <2>1, <2>2 DEF RowsBalance
<1>6. CASE Enqueue(r)
  <2>1. /\ BeaconEnd(r) /\ UNCHANGED <<batch, written, rejected, held>>
        /\ \/ /\ events' = Append(events, r) /\ accepted' = accepted \union {r}
              /\ UNCHANGED <<dropped, writerDropped>>
           \/ /\ writerDropped' = writerDropped \union {r} /\ dropped' = dropped \union {r}
              /\ UNCHANGED <<events, accepted>>
    BY <1>6 DEF Enqueue, writerVars
  <2>2. CountsAreApart'
    BY <1>0, <1>1, <1>2, <2>1 DEF CountsAreApart
  <2>3. events' = Append(events, r) => ToSet(events') = ToSet(events) \union {r}
    BY QueuedIsThere DEF BeaconTypes
  <2>4. RowsBalance'
    BY <1>1, <2>1, <2>3 DEF RowsBalance
  <2> QED
    BY <2>2, <2>4
<1>7. CASE Arrive(r)
  <2>1. \A s : [req[r] EXCEPT !.at = "site", !.site = s].at = "site"
    BY DEF BeaconTypes, Request
  <2>2. req'[r].at = "site"
    BY <1>7, <2>1 DEF Arrive, BeaconTypes
  <2> QED
    BY <1>4, <1>7, <2>2 DEF Arrive, writerVars
<1>8. CASE ReadSalt(r) \/ Rotate(r) \/ Reread(r)
  <2>1. req'[r].at # "done"
    BY <1>8, RequestSteps
  <2> QED
    BY <1>4, <1>8, <2>1 DEF ReadSalt, Rotate, Reread, writerVars
<1>9. CASE CheckSite(r) \/ CheckPause(r)
  BY <1>3, <1>4, <1>5, <1>9 DEF CheckSite, CheckPause, writerVars, countVars
<1>10. CASE Shed(r) \/ BeaconRefuse(r) \/ RotateFails(r)
  BY <1>5, <1>10 DEF Shed, BeaconRefuse, RotateFails, writerVars
<1> QED
  BY <1>6, <1>7, <1>8, <1>9, <1>10 DEF Handle

AccountedInv == BeaconTypes /\ CountsAreApart /\ RowsBalance /\ StopOrder

\* Every step of the requests, the writer, the settings and main.
LEMMA AccountedKept == AccountedInv /\ [BeaconNext]_beaconVars => AccountedInv'
<1> SUFFICES ASSUME AccountedInv, [BeaconNext]_beaconVars PROVE AccountedInv'
  OBVIOUS
<1>0. BeaconTypes /\ BeaconTypes' /\ CountsAreApart /\ RowsBalance /\ StopOrder
  BY BeaconTyped DEF AccountedInv
<1>1. ASSUME NEW r \in Reqs, Handle(r) PROVE AccountedInv'
  <2>1. \A q \in Reqs \ {r} : req'[q] = req[q]
    BY <1>0, <1>1, RequestSteps
  <2>2. /\ UNCHANGED <<wpc, batch, main, shutdown>>
        /\ main = "exited" => FALSE
    BY <1>1 DEF Handle, Arrive, Shed, BeaconRefuse, CheckSite, CheckPause, ReadSalt, Rotate,
                RotateFails, Reread, Enqueue, At, writerVars, mainVars
  <2>3. r \in InFlight \/ main = "serving"
    BY <1>1 DEF Handle, Arrive, Shed, BeaconRefuse, CheckSite, CheckPause, ReadSalt, Rotate,
                RotateFails, Reread, Enqueue, At, InFlight
  <2>4. shutdown # "clean"
    BY <1>0, <2>3 DEF StopOrder
  <2>5. StopOrder'
    BY <1>0, <2>2, <2>4 DEF StopOrder
  <2> QED
    BY <1>0, <1>1, <2>5, CountsKept DEF AccountedInv
<1>2. ASSUME UNCHANGED <<req, events, batch, written, writerDropped, countVars>>
      PROVE  CountsAreApart' /\ RowsBalance' /\ InFlight' = InFlight
  BY <1>0, <1>2 DEF CountsAreApart, RowsBalance, InFlight, countVars
<1>3. CASE ApplySites \/ ApplyPaused \/ Tick
  BY <1>0, <1>2, <1>3 DEF ApplySites, ApplyPaused, Tick, writerVars, mainVars, StopOrder, AccountedInv
<1>4. CASE Receive
  <2>1. /\ events # <<>> /\ events' = Tail(events) /\ batch' = batch \union {Head(events)}
        /\ UNCHANGED <<req, written, writerDropped, countVars, main, shutdown>>
        /\ wpc \in {"select", "drain"} /\ wpc' \in {"select", "write", "drain", "drainWrite"}
        /\ wpc = "select" => wpc' \in {"select", "write"}
    <3>1. /\ wpc \in {"select", "drain"}
          /\ \/ wpc' = wpc
             \/ wpc = "select" /\ wpc' = "write"
             \/ wpc # "select" /\ wpc' = "drainWrite"
      BY <1>4 DEF Receive
    <3> QED
      BY <1>4, <3>1 DEF Receive, mainVars
  <2>2. ToSet(events) = {Head(events)} \union ToSet(events')
    BY <1>0, <2>1, RowWasThere DEF BeaconTypes
  <2>3. CountsAreApart' /\ RowsBalance' /\ InFlight' = InFlight
    BY <1>0, <2>1, <2>2 DEF CountsAreApart, RowsBalance, InFlight, countVars
  <2>4. StopOrder'
    BY <1>0, <2>1, <2>3 DEF StopOrder
  <2> QED
    BY <1>0, <2>3, <2>4 DEF AccountedInv
<1>5. CASE FlushTick \/ Draining \/ Drained
  <2>1. CountsAreApart' /\ RowsBalance' /\ InFlight' = InFlight
    BY <1>2, <1>5 DEF FlushTick, Draining, Drained
  <2>2. StopOrder'
    BY <1>0, <1>5, <2>1 DEF FlushTick, Draining, Drained, mainVars, StopOrder
  <2> QED
    BY <1>0, <2>1, <2>2 DEF AccountedInv
<1>6. CASE Write
  <2>1. /\ batch' = {} /\ UNCHANGED <<req, events, countVars, main, shutdown>>
        /\ \/ wpc = "write" /\ wpc' = "select"
           \/ wpc = "drainWrite" /\ wpc' = "drain"
           \/ wpc = "lastWrite" /\ wpc' = "done"
        /\ \/ written' = written \union batch /\ UNCHANGED writerDropped
           \/ writerDropped' = writerDropped \union batch /\ UNCHANGED written
    BY <1>6 DEF Write, WriteOK, WriteFails, Flushed, mainVars
  <2>2. batch \intersect dropped = {}
    BY <1>0 DEF CountsAreApart, RowsBalance
  <2>3. CountsAreApart' /\ RowsBalance' /\ InFlight' = InFlight
    BY <1>0, <2>1, <2>2 DEF CountsAreApart, RowsBalance, InFlight, countVars
  <2>4. StopOrder'
    BY <1>0, <2>1, <2>3 DEF StopOrder
  <2> QED
    BY <1>0, <2>3, <2>4 DEF AccountedInv
<1>7. CASE Cancel \/ Stopping
  <2>1. CountsAreApart' /\ RowsBalance' /\ InFlight' = InFlight
    BY <1>2, <1>7 DEF Cancel, Stopping, ServeReturns, ServeFails, SettingsEnd, StopWriter, Exit, writerVars
  <2>2. StopOrder'
    BY <1>0, <1>7, <2>1 DEF Cancel, Stopping, ServeReturns, ServeFails, SettingsEnd, StopWriter, Exit,
                            writerVars, StopOrder
  <2> QED
    BY <1>0, <2>1, <2>2 DEF AccountedInv
<1>8. CASE UNCHANGED beaconVars
  BY <1>0, <1>2, <1>8 DEF beaconVars, writerVars, mainVars, StopOrder, AccountedInv
<1> QED
  BY <1>1, <1>3, <1>4, <1>5, <1>6, <1>7, <1>8 DEF BeaconNext

\* One of the four counters has it, and no other.
LEMMA OneCounter ==
  ASSUME CountsAreApart, NEW r \in Reqs, req[r].at = "done"
  PROVE  Cardinality({c \in 1..4 : r \in <<accepted, dropped, rejected, held>>[c]}) = 1
<1> DEFINE counters == <<accepted, dropped, rejected, held>>
           C == {c \in 1..4 : r \in counters[c]}
<1>1. counters[1] = accepted /\ counters[2] = dropped /\ counters[3] = rejected /\ counters[4] = held
  OBVIOUS
<1> HIDE DEF counters
<1>2. \E k \in 1..4 : C = {k}
  <2>1. CASE r \in accepted
    <3>1. C = {1}
      BY <1>1, <2>1 DEF CountsAreApart
    <3> QED
      BY <3>1
  <2>2. CASE r \in dropped
    <3>1. C = {2}
      BY <1>1, <2>2 DEF CountsAreApart
    <3> QED
      BY <3>1
  <2>3. CASE r \in rejected
    <3>1. C = {3}
      BY <1>1, <2>3 DEF CountsAreApart
    <3> QED
      BY <3>1
  <2>4. CASE r \in held
    <3>1. C = {4}
      BY <1>1, <2>4 DEF CountsAreApart
    <3> QED
      BY <3>1
  <2> QED
    BY <2>1, <2>2, <2>3, <2>4 DEF CountsAreApart
<1> QED
  BY <1>2, FS_Singleton DEF counters

\* handleEvent and Writer: a request is counted once, an accepted event is
\* never unaccounted for, and a clean shutdown leaves nothing on its way,
\* whatever requests, batches and failed writes are under way at the signal.
THEOREM EveryEventIsAccounted == BeaconSpec => []Accounted
<1>1. BeaconInit => AccountedInv
  <2> SUFFICES ASSUME BeaconInit PROVE CountsAreApart /\ RowsBalance /\ StopOrder
    BY BeaconStarts DEF AccountedInv
  <2>1. ToSet(events) = {}
    <3>1. DOMAIN events = {}
      BY DEF BeaconInit
    <3> QED
      BY <3>1 DEF ToSet
  <2>2. \A r \in Reqs : req[r].at = "idle"
    BY DEF BeaconInit, Unread
  <2> QED
    BY <2>1, <2>2 DEF BeaconInit, CountsAreApart, RowsBalance, StopOrder
<1>2. AccountedInv => Accounted
  <2> SUFFICES ASSUME AccountedInv PROVE Accounted
    OBVIOUS
  <2>1. \A r \in Reqs : req[r].at = "done" =>
          Cardinality({c \in 1..4 : r \in <<accepted, dropped, rejected, held>>[c]}) = 1
    BY OneCounter DEF AccountedInv
  <2> QED
    BY <2>1 DEF AccountedInv, RowsBalance, StopOrder, Accounted
<1> QED
  BY <1>1, <1>2, AccountedKept, PTL DEF BeaconSpec

-----------------------------------------------------------------------------
(* Mail.                                                                   *)

\* What a job's server has received, and what the job says of it.
JobFields == DOMAIN NoJob

MailInv ==
  /\ DOMAIN job = Jobs /\ DOMAIN heard = Jobs
  /\ \A j \in Jobs : DOMAIN job[j] = JobFields /\ DOMAIN heard[j] = DOMAIN Silence
  /\ MailIsGuarded

\* A job that changes, with no claim to have sent more than before, while
\* nothing is heard of it.
LEMMA JobGoesOn ==
  ASSUME MailInv, NEW j \in Jobs, NEW v, job' = [job EXCEPT ![j] = v], UNCHANGED heard,
         DOMAIN v = JobFields, v.sent => job[j].sent
  PROVE  MailInv'
  BY DEF MailInv, MailIsGuarded

\* A stage gone to, or a job stopped, says nothing of a message.
LEMMA JobShapes ==
  ASSUME MailInv, NEW j \in Jobs
  PROVE  /\ \A e : DOMAIN MailStop(j, e) = JobFields /\ (MailStop(j, e).sent <=> job[j].sent)
         /\ \A s : DOMAIN MailGo(j, s) = JobFields /\ (MailGo(j, s).sent <=> job[j].sent)
<1>1. DOMAIN job[j] = JobFields /\ "sent" \in JobFields
  BY DEF MailInv, JobFields, NoJob
<1> QED
  BY <1>1 DEF MailStop, MailGo

\* Every request's own steps.
LEMMA JobKeeps ==
  ASSUME MailInv, NEW j \in Jobs,
         \/ \E kind \in Kinds : Start(j, kind)
         \/ Connect(j) \/ BadAddress(j) \/ Greeting(j) \/ Handshake(j) \/ Authenticate(j)
         \/ Command(j, "sender", "recipient") \/ Command(j, "recipient", "data")
         \/ Deliver(j) \/ RecordVerification(j)
  PROVE  MailInv'
<1> DEFINE Quiet(v) == DOMAIN v = JobFields /\ (v.sent => job[j].sent)
<1>1. \A e, s : Quiet(MailStop(j, e)) /\ Quiet(MailGo(j, s))
  BY JobShapes
<1>2. Quiet(NoJob) /\ Quiet(job[j]) /\ JobFields = {"at", "kind", "id", "mode", "credentials",
          "stage", "tls", "reached", "oauth", "authenticated", "anonymous", "sent", "err"}
  BY DEF MailInv, JobFields, NoJob
<1>3. \A v, x : Quiet(v) => /\ Quiet([v EXCEPT !.at = x]) /\ Quiet([v EXCEPT !.reached = x])
                            /\ Quiet([v EXCEPT !.stage = x]) /\ Quiet([v EXCEPT !.tls = x])
                            /\ Quiet([v EXCEPT !.oauth = x]) /\ Quiet([v EXCEPT !.authenticated = x])
                            /\ Quiet([v EXCEPT !.anonymous = x]) /\ Quiet([v EXCEPT !.kind = x])
                            /\ Quiet([v EXCEPT !.id = x]) /\ Quiet([v EXCEPT !.mode = x])
                            /\ Quiet([v EXCEPT !.credentials = x])
  BY <1>2
<1>4. \A v : Quiet(v) /\ job' = [job EXCEPT ![j] = v] /\ UNCHANGED heard => MailInv'
  BY JobGoesOn
<1> HIDE DEF Quiet
<1>5. ASSUME NEW kind \in Kinds, Start(j, kind) PROVE MailInv'
  <2> DEFINE a == [NoJob EXCEPT !.at = "talking"]
             b == [a EXCEPT !.kind = kind]
             c == [b EXCEPT !.id = account.id]
             d == [c EXCEPT !.mode = account.tls]
             e == [d EXCEPT !.credentials = account.secret = "sealed"]
  <2>1. Quiet(a)
    BY <1>2, <1>3
  <2>2. Quiet(b)
    <3> HIDE DEF a
    <3> QED
      BY <1>3, <2>1
  <2>3. Quiet(c)
    <3> HIDE DEF b
    <3> QED
      BY <1>3, <2>2
  <2>4. Quiet(d)
    <3> HIDE DEF c
    <3> QED
      BY <1>3, <2>3
  <2>5. Quiet(e)
    <3> HIDE DEF d
    <3> QED
      BY <1>3, <2>4
  <2>6. job' = [job EXCEPT ![j] = e] /\ UNCHANGED heard
    BY <1>5, Zenon DEF Start
  <2> HIDE DEF e
  <2> QED
    BY <1>4, <2>5, <2>6
<1>6. CASE Connect(j)
  <2> DEFINE w == MailGo(j, IF job[j].mode = "implicit" THEN "tls" ELSE "greeting")
             v == [w EXCEPT !.reached = TRUE]
  <2>1. Quiet(w)
    BY <1>1
  <2>2. Quiet(v)
    <3> HIDE DEF w
    <3> QED
      BY <1>3, <2>1
  <2>3. UNCHANGED heard /\ (\/ job' = [job EXCEPT ![j] = v]
                            \/ \E e \in MailFault : job' = [job EXCEPT ![j] = MailStop(j, e)])
    BY <1>6 DEF Connect
  <2> HIDE DEF v
  <2> QED
    BY <1>1, <1>4, <2>2, <2>3
<1>7. CASE BadAddress(j)
  <2> DEFINE w == MailStop(j, "address")
             v == [w EXCEPT !.stage = "recipient"]
  <2>1. Quiet(w)
    BY <1>1
  <2>2. Quiet(v)
    <3> HIDE DEF w
    <3> QED
      BY <1>3, <2>1
  <2>3. UNCHANGED heard /\ job' = [job EXCEPT ![j] = v]
    BY <1>7 DEF BadAddress
  <2> HIDE DEF v
  <2> QED
    BY <1>4, <2>2, <2>3
<1>8. CASE Greeting(j) \/ Command(j, "sender", "recipient") \/ Command(j, "recipient", "data")
  <2>1. UNCHANGED heard /\ (\/ \E s : job' = [job EXCEPT ![j] = MailGo(j, s)]
                            \/ \E e : job' = [job EXCEPT ![j] = MailStop(j, e)])
    BY <1>8, Zenon DEF Greeting, Command
  <2> QED
    BY <1>1, <1>4, <2>1
<1>9. CASE Handshake(j)
  <2> DEFINE w == MailGo(j, IF job[j].mode = "implicit" THEN "greeting" ELSE "auth")
             v == [w EXCEPT !.tls = job[j].mode]
  <2>1. Quiet(w)
    BY <1>1
  <2>2. Quiet(v)
    <3> HIDE DEF w
    <3> QED
      BY <1>3, <2>1
  <2>3. UNCHANGED heard /\ (\/ job' = [job EXCEPT ![j] = v] \/ job' = [job EXCEPT ![j] = MailGo(j, "auth")]
                            \/ \E e : job' = [job EXCEPT ![j] = MailStop(j, e)])
    BY <1>9 DEF Handshake
  <2> HIDE DEF v
  <2> QED
    BY <1>1, <1>4, <2>2, <2>3
<1>10. CASE RecordVerification(j)
  <2> DEFINE v == [NoJob EXCEPT !.at = "told"]
  <2>1. Quiet(v)
    BY <1>2, <1>3
  <2>2. UNCHANGED heard /\ job' = [job EXCEPT ![j] = v]
    BY <1>10 DEF RecordVerification
  <2> HIDE DEF v
  <2> QED
    BY <1>4, <2>1, <2>2
<1>11. \A v, h : /\ Quiet(v) /\ job' = [job EXCEPT ![j] = v] /\ heard' = [heard EXCEPT ![j] = h]
                 /\ DOMAIN h = DOMAIN Silence /\ (h.password => h.encrypted)
                 /\ (heard[j].accepted => h.accepted)
                 => MailInv'
  BY DEF MailInv, MailIsGuarded, Quiet
<1>12. CASE Authenticate(j)
  <2> DEFINE w == [job[j] EXCEPT !.at = "over"]
             x == [w EXCEPT !.stage = "done"]
             next == IF job[j].kind = "probe" THEN x ELSE MailGo(j, "sender")
             g == [heard[j] EXCEPT !.password = TRUE]
             h == [g EXCEPT !.encrypted = job[j].tls # ""]
  <2>1. Quiet(w)
    BY <1>2, <1>3
  <2>2. Quiet(x)
    <3> HIDE DEF w
    <3> QED
      BY <1>3, <2>1
  <2>3. Quiet(next)
    <3> HIDE DEF x
    <3> QED
      BY <1>1, <2>2
  <2>4. Quiet([next EXCEPT !.anonymous = TRUE]) /\ Quiet([next EXCEPT !.authenticated = TRUE])
    <3> HIDE DEF next
    <3> QED
      BY <1>3, <2>3
  <2>5. \A e, o : Quiet([MailStop(j, e) EXCEPT !.oauth = o])
    BY <1>1, <1>3
  <2>6. DOMAIN heard[j] = {"password", "encrypted", "accepted"}
    BY DEF MailInv, Silence
  <2>7. /\ DOMAIN h = DOMAIN Silence /\ (h.encrypted <=> job[j].tls # "")
        /\ (heard[j].accepted => h.accepted)
    <3>1. DOMAIN g = DOMAIN heard[j] /\ (heard[j].accepted => g.accepted)
      BY <2>6
    <3> HIDE DEF g
    <3>2. DOMAIN h = DOMAIN g /\ (g.accepted => h.accepted)
      BY <2>6, <3>1
    <3>3. h.encrypted <=> job[j].tls # ""
      BY <2>6, <3>1
    <3> QED
      BY <3>1, <3>2, <3>3 DEF MailInv
  <2>8. \E v : /\ Quiet(v) /\ job' = [job EXCEPT ![j] = v]
               /\ UNCHANGED heard \/ (job[j].tls # "" /\ heard' = [heard EXCEPT ![j] = h])
    <3>1. PICK o \in BOOLEAN :
            \/ job' = [job EXCEPT ![j] = [next EXCEPT !.anonymous = TRUE]] /\ UNCHANGED heard
            \/ job' = [job EXCEPT ![j] = [MailStop(j, "clear") EXCEPT !.oauth = o]] /\ UNCHANGED heard
            \/ /\ job[j].tls # ""
               /\ heard' = [heard EXCEPT ![j].password = TRUE, ![j].encrypted = job[j].tls # ""]
               /\ \/ job' = [job EXCEPT ![j] = [next EXCEPT !.authenticated = TRUE]]
                  \/ \E e : job' = [job EXCEPT ![j] = [MailStop(j, e) EXCEPT !.oauth = o]]
      BY <1>12, Zenon DEF Authenticate, MaySend
    <3>2. [heard EXCEPT ![j].password = TRUE, ![j].encrypted = job[j].tls # ""] = [heard EXCEPT ![j] = h]
      <4> DEFINE hh == [heard EXCEPT ![j] = g]
      <4>1. hh[j] = g /\ DOMAIN hh = DOMAIN heard
        BY DEF MailInv
      <4>2. [hh EXCEPT ![j] = [hh[j] EXCEPT !.encrypted = job[j].tls # ""]] = [heard EXCEPT ![j] = h]
        BY <4>1
      <4> QED
        BY <4>2
    <3> HIDE DEF h, next
    <3>3. \A e : Quiet([MailStop(j, e) EXCEPT !.oauth = o])
      BY <2>5
    <3> QED
      BY <2>4, <3>1, <3>2, <3>3, Zenon
  <2> HIDE DEF h
  <2> QED
    BY <1>4, <1>11, <2>7, <2>8
<1>13. CASE Deliver(j)
  <2> DEFINE w == MailGo(j, "done")
             x == [w EXCEPT !.at = "over"]
             v == [x EXCEPT !.sent = TRUE]
             h == [heard[j] EXCEPT !.accepted = TRUE]
  <2>1. Quiet(w)
    BY <1>1
  <2>2. Quiet(x)
    <3> HIDE DEF w
    <3> QED
      BY <1>3, <2>1
  <2>3. DOMAIN v = JobFields
    <3> HIDE DEF x
    <3> QED
      BY <2>2 DEF Quiet
  <2>4. DOMAIN h = DOMAIN Silence /\ h.accepted /\ (h.password => h.encrypted)
    BY DEF MailInv, MailIsGuarded, Silence
  <2>5. \/ /\ heard' = [heard EXCEPT ![j] = h]
           /\ \/ job' = [job EXCEPT ![j] = v]
              \/ \E e : job' = [job EXCEPT ![j] = MailStop(j, e)]
        \/ UNCHANGED heard /\ \E e : job' = [job EXCEPT ![j] = MailStop(j, e)]
    BY <1>13, Zenon DEF Deliver
  <2> HIDE DEF v, h
  <2>6. CASE heard' = [heard EXCEPT ![j] = h] /\ job' = [job EXCEPT ![j] = v]
    BY <2>3, <2>4, <2>6 DEF MailInv, MailIsGuarded
  <2>7. CASE \E e : job' = [job EXCEPT ![j] = MailStop(j, e)]
    BY <1>1, <1>4, <1>11, <2>4, <2>5, <2>7
  <2> QED
    BY <2>5, <2>6, <2>7
<1> QED
  BY <1>5, <1>6, <1>7, <1>8, <1>9, <1>10, <1>12, <1>13

\* authenticate and Deliver: no password leaves in the clear, and no message
\* is reported sent that the server did not take, whatever it answers, however
\* the account is saved, deleted or given another key in the meantime.
THEOREM PasswordsGoEncrypted == MailSpec => []MailIsGuarded
<1>1. MailInit => MailInv
  <2>1. NoJob.sent = FALSE /\ Silence.password = FALSE
    BY DEF NoJob, Silence
  <2> QED
    BY <2>1 DEF MailInit, MailInv, MailIsGuarded, JobFields
<1>2. MailInv /\ [MailNext]_mailVars => MailInv'
  <2> SUFFICES ASSUME MailInv, [MailNext]_mailVars PROVE MailInv'
    OBVIOUS
  <2>1. ASSUME UNCHANGED <<job, heard>> PROVE MailInv'
    BY <2>1 DEF MailInv, MailIsGuarded
  <2>2. ASSUME NEW typed \in BOOLEAN, NEW clear \in BOOLEAN, NEW on \in BOOLEAN,
               NEW tls \in {"starttls", "implicit"}, Save(typed, clear, tls, on)
        PROVE  MailInv'
    BY <2>1, <2>2 DEF Save
  <2>3. CASE DeleteAccount \/ NewKey
    BY <2>1, <2>3 DEF DeleteAccount, NewKey
  <2>4. CASE UNCHANGED mailVars
    BY <2>1, <2>4 DEF mailVars
  <2> QED
    BY <2>2, <2>3, <2>4, JobKeeps DEF MailNext
<1>3. MailInv => MailIsGuarded
  BY DEF MailInv
<1> QED
  BY <1>1, <1>2, <1>3, PTL DEF MailSpec

-----------------------------------------------------------------------------
(* The buttons of the health page.                                         *)

PressFields == {"at", "work", "entitled", "auth", "err", "queued", "seen", "open"}

\* What a press can be at before it has asked, and after.
Before == {"new", "verify", "request", "ask"}
After == {"status", "finish", "done"}

\* What a request that was queued may have been answered with.
Unrefused(e) == e \in {"none", "lost"}

\* What a record that is closed says.
Closed(row) == row \in {"succeeded", "refused", "failed"}

\* What such a record tells of the press.
TellsOf(row, v) ==
  /\ row = "succeeded" => v.queued
  /\ row = "refused" => ~v.queued
  /\ row = "failed" /\ v.queued => ~v.seen \/ v.err = "lost"

\* What a press's record may say.
Rows == {"none", "open", "succeeded", "refused", "failed"}

PressShapes ==
  /\ DOMAIN press = Presses /\ record \in [Presses -> Rows]
  /\ \A p \in Presses : DOMAIN press[p] = PressFields /\ press[p].at \in Before \union After

\* A press has asked for nothing until it asks, is told of an error exactly
\* when nothing was queued or the answer was lost, and has its record closed
\* last.
AskedOnce ==
  \A p \in Presses :
    /\ press[p].at \in Before => ~press[p].queued /\ press[p].err = "none"
    /\ press[p].at \in {"status", "finish"} => (press[p].queued <=> Unrefused(press[p].err))
    /\ Closed(record[p]) => press[p].at = "done"

\* The password is not needed for work that is not locked, and was given for
\* all else that is about to be asked for.
NeededOpen ==
  \A p \in Presses :
    /\ press[p].at # "new" /\ press[p].work \in Lockable \ locks => press[p].open
    /\ press[p].at = "ask" /\ ~press[p].auth =>
         press[p].work \notin {"secrets", "restart"} /\ (press[p].work \in Lockable => press[p].open)

AskingInv == PressShapes /\ AskedOnce /\ NeededOpen /\ PressesAreHonest

\* A step of one press, told by what it makes of that press and its record.
LEMMA PressGoesOn ==
  ASSUME AskingInv, NEW p \in Presses, NEW v, NEW x,
         press' = [press EXCEPT ![p] = v], record' = [record EXCEPT ![p] = x], UNCHANGED locks,
         DOMAIN v = PressFields, v.at \in Before \union After,
         v.at \in Before => ~v.queued /\ v.err = "none",
         v.at \in {"status", "finish"} => (v.queued <=> Unrefused(v.err)),
         v.at # "new" /\ v.work \in Lockable \ locks => v.open,
         v.at = "ask" /\ ~v.auth =>
           v.work \notin {"secrets", "restart"} /\ (v.work \in Lockable => v.open),
         v.queued /\ ~v.auth =>
           v.work \notin {"secrets", "restart"} /\ (v.work \in Lockable => v.open),
         press[p].queued => v.queued,
         press[p].at # "done",
         x \in Rows, Closed(x) => x # record[p] /\ v.at = "done",
         Closed(x) => TellsOf(x, v),
         audit' \subseteq audit \union {p}, p \in audit' => v.queued
  PROVE  AskingInv'
<1>1. /\ DOMAIN press' = Presses /\ press'[p] = v
      /\ \A q \in Presses : q # p => press'[q] = press[q]
      /\ record' \in [Presses -> Rows] /\ record'[p] = x
      /\ \A q \in Presses : q # p => record'[q] = record[q]
  BY DEF AskingInv, PressShapes
<1>2. PressShapes'
  BY <1>1 DEF AskingInv, PressShapes
<1>3. Closed(record[p]) => press[p].at = "done"
  BY DEF AskingInv, AskedOnce
<1>4. AskedOnce'
  BY <1>1, <1>3 DEF AskingInv, AskedOnce
<1>5. NeededOpen'
  BY <1>1 DEF AskingInv, NeededOpen
<1>6. RecordsAreTrue'
  <2>1. audit' \subseteq {q \in Presses : press'[q].queued}
    BY <1>1 DEF AskingInv, PressesAreHonest, RecordsAreTrue
  <2>2. \A q \in Presses : Closed(record[q]) => TellsOf(record[q], press[q])
    BY DEF AskingInv, PressesAreHonest, RecordsAreTrue, TellsOf
  <2>3. \A q \in Presses : Closed(record'[q]) => TellsOf(record'[q], press'[q])
    BY <1>1, <2>2
  <2> QED
    BY <2>1, <2>3 DEF RecordsAreTrue, TellsOf, Closed
<1>7. PasswordIsAsked'
  BY <1>1 DEF AskingInv, PressesAreHonest, PasswordIsAsked
<1> QED
  BY <1>2, <1>4, <1>5, <1>6, <1>7 DEF AskingInv, PressesAreHonest

\* Two fields of a press at once are one field after the other.
LEMMA TwoFields ==
  ASSUME PressShapes, NEW p \in Presses, NEW a, NEW x
  PROVE  /\ [press EXCEPT ![p].at = a, ![p].auth = x]
              = [press EXCEPT ![p] = [press[p] EXCEPT !.at = a, !.auth = x]]
         /\ [press EXCEPT ![p].at = a, ![p].err = x]
              = [press EXCEPT ![p] = [press[p] EXCEPT !.at = a, !.err = x]]
         /\ [press EXCEPT ![p].at = a, ![p].queued = x]
              = [press EXCEPT ![p] = [press[p] EXCEPT !.at = a, !.queued = x]]
         /\ [press EXCEPT ![p].at = a, ![p].seen = x]
              = [press EXCEPT ![p] = [press[p] EXCEPT !.at = a, !.seen = x]]
<1> DEFINE g == [press[p] EXCEPT !.at = a]
           f == [press EXCEPT ![p] = g]
<1>1. f[p] = g /\ \A v : [f EXCEPT ![p] = v] = [press EXCEPT ![p] = v]
  BY DEF PressShapes
<1>2. [f EXCEPT ![p] = [f[p] EXCEPT !.auth = x]] = [press EXCEPT ![p] = [g EXCEPT !.auth = x]]
  BY <1>1
<1>3. [f EXCEPT ![p] = [f[p] EXCEPT !.err = x]] = [press EXCEPT ![p] = [g EXCEPT !.err = x]]
  BY <1>1
<1>4. [f EXCEPT ![p] = [f[p] EXCEPT !.queued = x]] = [press EXCEPT ![p] = [g EXCEPT !.queued = x]]
  BY <1>1
<1>5. [f EXCEPT ![p] = [f[p] EXCEPT !.seen = x]] = [press EXCEPT ![p] = [g EXCEPT !.seen = x]]
  BY <1>1
<1> QED
  BY <1>2, <1>3, <1>4, <1>5

\* Three fields at once are two and then one.
LEMMA ThreeFields ==
  ASSUME PressShapes, NEW p \in Presses, NEW a, NEW x, NEW y
  PROVE  [press EXCEPT ![p].at = a, ![p].queued = x, ![p].err = y]
           = [press EXCEPT ![p] = [[press[p] EXCEPT !.at = a, !.queued = x] EXCEPT !.err = y]]
<1> DEFINE g == [press[p] EXCEPT !.at = a, !.queued = x]
           f == [press EXCEPT ![p].at = a, ![p].queued = x]
<1>1. f = [press EXCEPT ![p] = g]
  BY TwoFields
<1>2. f[p] = g /\ \A v : [f EXCEPT ![p] = v] = [press EXCEPT ![p] = v]
  <2> HIDE DEF f, g
  <2> QED
    BY <1>1 DEF PressShapes
<1>3. [f EXCEPT ![p].err = y] = [f EXCEPT ![p] = [f[p] EXCEPT !.err = y]]
  OBVIOUS
<1>4. [f EXCEPT ![p] = [f[p] EXCEPT !.err = y]] = [press EXCEPT ![p] = [g EXCEPT !.err = y]]
  <2> HIDE DEF f, g
  <2> QED
    BY <1>2
<1> QED
  BY <1>3, <1>4

\* What two fields of a press make of it.
LEMMA TwoShapes ==
  ASSUME NEW r, DOMAIN r = PressFields, NEW a, NEW x
  PROVE  /\ LET v == [r EXCEPT !.at = a, !.auth = x] IN
              /\ DOMAIN v = PressFields /\ v.at = a /\ v.auth = x
              /\ v.work = r.work /\ v.err = r.err /\ v.queued = r.queued /\ v.open = r.open
         /\ LET v == [r EXCEPT !.at = a, !.err = x] IN
              /\ DOMAIN v = PressFields /\ v.at = a /\ v.err = x
              /\ v.work = r.work /\ v.auth = r.auth /\ v.queued = r.queued /\ v.open = r.open
         /\ LET v == [r EXCEPT !.at = a, !.queued = x] IN
              /\ DOMAIN v = PressFields /\ v.at = a /\ v.queued = x
              /\ v.work = r.work /\ v.auth = r.auth /\ v.err = r.err /\ v.open = r.open
         /\ LET v == [r EXCEPT !.at = a, !.seen = x] IN
              /\ DOMAIN v = PressFields /\ v.at = a /\ v.queued = r.queued
              /\ v.work = r.work /\ v.auth = r.auth /\ v.err = r.err /\ v.open = r.open
<1> USE DEF PressFields
<1>1. LET v == [r EXCEPT !.at = a, !.auth = x] IN
              /\ DOMAIN v = PressFields /\ v.at = a /\ v.auth = x
              /\ v.work = r.work /\ v.err = r.err /\ v.queued = r.queued /\ v.open = r.open
  OBVIOUS
<1>2. LET v == [r EXCEPT !.at = a, !.err = x] IN
              /\ DOMAIN v = PressFields /\ v.at = a /\ v.err = x
              /\ v.work = r.work /\ v.auth = r.auth /\ v.queued = r.queued /\ v.open = r.open
  OBVIOUS
<1>3. LET v == [r EXCEPT !.at = a, !.queued = x] IN
              /\ DOMAIN v = PressFields /\ v.at = a /\ v.queued = x
              /\ v.work = r.work /\ v.auth = r.auth /\ v.err = r.err /\ v.open = r.open
  OBVIOUS
<1>4. LET v == [r EXCEPT !.at = a, !.seen = x] IN
              /\ DOMAIN v = PressFields /\ v.at = a /\ v.queued = r.queued
              /\ v.work = r.work /\ v.auth = r.auth /\ v.err = r.err /\ v.open = r.open
  OBVIOUS
<1> QED
  BY <1>1, <1>2, <1>3, <1>4

\* The steps of one press, whatever button it is of.
LEMMA PressKeeps ==
  ASSUME AskingInv, NEW p \in Presses,
         Posts(p) \/ Verify(p) \/ Requests(p) \/ Ask(p) \/ ReadStatus(p) \/ Finish(p)
  PROVE  AskingInv'
<1> DEFINE r == press[p]
<1>z. PressShapes /\ AskedOnce /\ NeededOpen /\ RecordsAreTrue /\ PasswordIsAsked
  BY DEF AskingInv, PressesAreHonest
<1>s. DOMAIN r = PressFields /\ (r.at # "done" => ~Closed(record[p]))
  BY <1>z DEF PressShapes, AskedOnce
<1>q. p \in audit => r.queued
  BY <1>z DEF RecordsAreTrue
<1>w. r.queued /\ ~r.auth => r.work \notin {"secrets", "restart"} /\ (r.work \in Lockable => r.open)
  BY <1>z DEF PasswordIsAsked
<1>b. /\ r.at \in Before => ~r.queued /\ r.err = "none"
      /\ r.at \in {"status", "finish"} => (r.queued <=> Unrefused(r.err))
  BY <1>z DEF AskedOnce
<1>o. /\ r.at # "new" /\ r.work \in Lockable \ locks => r.open
      /\ r.at = "ask" /\ ~r.auth =>
           r.work \notin {"secrets", "restart"} /\ (r.work \in Lockable => r.open)
  <2>1. /\ press[p].at # "new" /\ press[p].work \in Lockable \ locks => press[p].open
        /\ press[p].at = "ask" /\ ~press[p].auth =>
             press[p].work \notin {"secrets", "restart"} /\ (press[p].work \in Lockable => press[p].open)
    BY <1>z, Zenon DEF NeededOpen
  <2> QED
    BY <2>1, Zenon
<1>r. record[p] \in Rows /\ "open" \in Rows
  BY <1>z DEF PressShapes, Rows
<1>a. record = [record EXCEPT ![p] = record[p]]
  BY <1>s, <1>q, <1>w, <1>b, <1>o, <1>z DEF PressShapes
<1>1. ASSUME NEW w, NEW next \in {"verify", "request"}, BeginOperation(p, w, next)
      PROVE  AskingInv'
  <2>1. PICK who \in BOOLEAN :
          press' = [press EXCEPT ![p] = [NoPress EXCEPT !.at = next, !.work = w,
                                           !.entitled = who, !.open = w \notin locks]]
    BY <1>1 DEF BeginOperation
  <2> DEFINE a == [NoPress EXCEPT !.at = next]
             b == [a EXCEPT !.work = w]
             c == [b EXCEPT !.entitled = who]
             v == [c EXCEPT !.open = w \notin locks]
  <2>2. DOMAIN a = PressFields /\ a.at = next /\ ~a.queued /\ a.err = "none"
    BY DEF NoPress, PressFields
  <2>3. DOMAIN b = PressFields /\ b.at = next /\ ~b.queued /\ b.work = w /\ b.err = "none"
    <3> HIDE DEF a
    <3> QED
      BY <2>2 DEF PressFields
  <2>4. DOMAIN c = PressFields /\ c.at = next /\ ~c.queued /\ c.work = w /\ c.err = "none"
    <3> HIDE DEF b
    <3> QED
      BY <2>3 DEF PressFields
  <2>5. /\ DOMAIN v = PressFields /\ v.at = next /\ ~v.queued /\ v.work = w /\ v.err = "none"
        /\ (v.open <=> w \notin locks)
    <3> HIDE DEF c
    <3> QED
      BY <2>4 DEF PressFields
  <2>6. press' = [press EXCEPT ![p] = v] /\ r.at = "new" /\ UNCHANGED <<locks, audit>>
    BY <1>1, <2>1 DEF BeginOperation, Step
  <2> HIDE DEF v, r
  <2>7. ~r.queued /\ r.at # "done"
    BY <1>s, <1>q, <1>w, <1>b, <1>o, <1>z, <2>6 DEF Before
  <2>8. \E x \in Rows : record' = [record EXCEPT ![p] = x] /\ ~Closed(x)
    <3>1. record' = [record EXCEPT ![p] = "open"] \/ record' = record
      BY <1>1 DEF BeginOperation
    <3>2. ~Closed("open") /\ ~Closed(record[p])
      BY <1>s, <2>7 DEF Closed
    <3> QED
      BY <1>a, <1>r, <3>1, <3>2
  <2>9. p \notin audit' /\ audit' \subseteq audit \union {p}
    BY <1>s, <1>q, <1>w, <1>b, <1>o, <1>z, <2>6, <2>7
  <2>10. /\ v.at \in Before \union After /\ v.at \notin {"ask", "status", "finish", "new"}
         /\ (v.work \in Lockable \ locks => v.open)
    BY <2>5 DEF Before, After
  <2> QED
    BY <2>5, <2>6, <2>7, <2>8, <2>9, <2>10, PressGoesOn DEF r
<1>2. CASE Verify(p)
  <2>1. PICK right \in BOOLEAN : press' = [press EXCEPT ![p].at = "request", ![p].auth = right]
    BY <1>2 DEF Verify
  <2> DEFINE v == [r EXCEPT !.at = "request", !.auth = right]
  <2>2. press' = [press EXCEPT ![p] = v]
    BY <1>s, <1>q, <1>w, <1>b, <1>o, <1>z, <2>1, TwoFields
  <2>3. /\ DOMAIN v = PressFields /\ v.at = "request" /\ v.work = r.work /\ v.queued = r.queued
        /\ v.open = r.open /\ v.err = r.err
    BY <1>s, <1>q, <1>w, <1>b, <1>o, <1>z, TwoShapes
  <2>4. r.at = "verify" /\ UNCHANGED <<record, locks, audit>>
    BY <1>2 DEF Verify, Step
  <2> HIDE DEF v, r
  <2>5. /\ ~r.queued /\ r.err = "none" /\ r.at # "done" /\ p \notin audit'
        /\ ~Closed(record[p]) /\ v.at \in Before
        /\ v.work \in Lockable \ locks => v.open
    BY <1>s, <1>q, <1>b, <1>o, <2>3, <2>4 DEF Before
  <2> QED
    BY <1>a, <1>r, <2>2, <2>3, <2>4, <2>5, PressGoesOn DEF r
<1>3. ASSUME r.at \in {"request", "ask"}, NEW e, ~Unrefused(e), Refuse(p, e), UNCHANGED <<record, locks, audit>>
      PROVE  AskingInv'
  <2> DEFINE v == [r EXCEPT !.at = "status", !.err = e]
  <2>1. press' = [press EXCEPT ![p] = v]
    BY <1>s, <1>q, <1>w, <1>b, <1>o, <1>z, <1>3, TwoFields DEF Refuse
  <2>2. /\ DOMAIN v = PressFields /\ v.at = "status" /\ v.work = r.work /\ v.queued = r.queued
        /\ v.open = r.open /\ v.auth = r.auth /\ v.err = e
    BY <1>s, <1>q, <1>w, <1>b, <1>o, <1>z, TwoShapes
  <2> HIDE DEF v, r
  <2>3. /\ v.at \in After /\ v.at \notin Before /\ ~Unrefused(v.err) /\ ~v.queued /\ ~r.queued
        /\ v.at \notin {"new", "ask"} /\ r.at \notin {"new", "done"} /\ p \notin audit'
        /\ ~Closed(record[p]) /\ audit' \subseteq audit \union {p}
    BY <1>s, <1>q, <1>b, <1>3, <2>2 DEF Before, After
  <2>4. v.work \in Lockable \ locks => v.open
    BY <1>o, <1>3, <2>2
  <2> QED
    BY <1>a, <1>r, <1>3, <2>1, <2>2, <2>3, <2>4, PressGoesOn DEF r
<1>4. ASSUME r.at = "request", press' = [press EXCEPT ![p].at = "ask"], UNCHANGED <<record, locks, audit>>,
             ~r.auth => r.work \notin {"secrets", "restart"} /\ (r.work \in Lockable => r.open)
      PROVE  AskingInv'
  <2> DEFINE v == [r EXCEPT !.at = "ask"]
  <2>1. press' = [press EXCEPT ![p] = v]
    BY <1>4
  <2>2. /\ DOMAIN v = PressFields /\ v.at = "ask" /\ v.work = r.work /\ v.queued = r.queued
        /\ v.open = r.open /\ v.auth = r.auth /\ v.err = r.err
    BY <1>s, <1>q, <1>w, <1>b, <1>o, <1>z DEF PressFields
  <2> HIDE DEF v, r
  <2>3. /\ v.at \in Before /\ ~v.queued /\ ~r.queued /\ v.err = "none" /\ p \notin audit' /\ r.at # "done"
        /\ ~Closed(record[p])
    BY <1>s, <1>q, <1>w, <1>b, <1>o, <1>z, <1>4, <2>2 DEF Before
  <2>4. /\ v.work \in Lockable \ locks => v.open
        /\ ~v.auth => v.work \notin {"secrets", "restart"} /\ (v.work \in Lockable => v.open)
    BY <1>s, <1>q, <1>w, <1>b, <1>o, <1>z, <1>4, <2>2
  <2> QED
    BY <1>a, <1>r, <1>4, <2>1, <2>2, <2>3, <2>4, PressGoesOn DEF r
<1>5. ASSUME NEW w, NEW ok, Checked(p, w, ok),
             ok /\ ~r.auth => w \notin {"secrets", "restart"} /\ (w \in Lockable => r.open)
      PROVE  AskingInv'
  <2>1. /\ r.at = "request" /\ r.work = w /\ UNCHANGED <<record, locks, audit>>
        /\ \/ ok /\ press' = [press EXCEPT ![p].at = "ask"]
           \/ Refuse(p, "refused") \/ Refuse(p, "failed")
    BY <1>5 DEF Checked, Step
  <2> HIDE DEF r
  <2> QED
    BY <1>3, <1>4, <1>5, <2>1 DEF Unrefused
<1>6. CASE Requests(p)
  <2>1. CASE RequestBackup(p)
    <3>1. PICK w \in {"backup", "secrets"}, sets \in BOOLEAN :
            Checked(p, w, sets /\ (w = "secrets" => r.auth))
      BY <2>1 DEF RequestBackup
    <3> HIDE DEF r
    <3> QED
      BY <1>5, <3>1 DEF Lockable
  <2>2. CASE VerifyBackup(p)
    BY <1>5, <2>2 DEF VerifyBackup, Lockable
  <2>3. CASE RestoreBackup(p)
    BY <1>5, <2>3 DEF RestoreBackup, Lockable
  <2>4. CASE RequestRangeRefresh(p)
    BY <1>5, <2>4 DEF RequestRangeRefresh, Lockable
  <2>5. CASE RequestRelease(p)
    <3>1. PICK valid \in BOOLEAN : Checked(p, "release", ("release" \in locks => r.auth) /\ valid)
      BY <2>5 DEF RequestRelease
    <3>2. r.at = "request" /\ r.work = "release"
      BY <3>1 DEF Checked, Step
    <3>3. "release" \notin locks => r.open
      BY <1>s, <1>q, <1>w, <1>b, <1>o, <1>z, <3>2 DEF Lockable
    <3> HIDE DEF r
    <3> QED
      BY <1>5, <3>1, <3>3
  <2>6. CASE RequestUpgrade(p)
    <3>1. Checked(p, "upgrade", ("upgrade" \in locks => r.auth) /\ ~matches)
      BY <2>6 DEF RequestUpgrade
    <3>2. r.at = "request" /\ r.work = "upgrade"
      BY <3>1 DEF Checked, Step
    <3>3. "upgrade" \notin locks => r.open
      BY <1>s, <1>q, <1>w, <1>b, <1>o, <1>z, <3>2 DEF Lockable
    <3> HIDE DEF r
    <3> QED
      BY <1>5, <3>1, <3>3
  <2>7. CASE RequestRestart(p)
    <3>1. PICK askable \in BOOLEAN : Checked(p, "restart", r.auth /\ askable)
      BY <2>7 DEF RequestRestart
    <3> HIDE DEF r
    <3> QED
      BY <1>5, <3>1 DEF Lockable
  <2> QED
    BY <1>6, <2>1, <2>2, <2>3, <2>4, <2>5, <2>6, <2>7 DEF Requests
<1>7. CASE Ask(p)
  <2>1. r.at = "ask" /\ UNCHANGED <<record, locks>>
    BY <1>7 DEF Ask, Step
  <2>2. \/ UNCHANGED audit /\ (Refuse(p, Busy(r.work)) \/ Refuse(p, "failed"))
        \/ /\ \/ press' = [press EXCEPT ![p].at = "status", ![p].queued = TRUE]
              \/ press' = [press EXCEPT ![p].at = "status", ![p].queued = TRUE, ![p].err = "lost"]
           /\ audit' \subseteq audit \union {p}
    BY <1>7 DEF Ask
  <2>3. ~Unrefused(Busy(r.work)) /\ ~Unrefused("failed")
    BY DEF Busy, Unrefused
  <2> DEFINE g == [r EXCEPT !.at = "status", !.queued = TRUE]
             h == [g EXCEPT !.err = "lost"]
  <2>4. /\ DOMAIN g = PressFields /\ g.at = "status" /\ g.work = r.work /\ g.queued
        /\ g.open = r.open /\ g.auth = r.auth /\ g.err = r.err
    BY <1>s, <1>q, <1>w, <1>b, <1>o, <1>z, TwoShapes
  <2>5. /\ DOMAIN h = PressFields /\ h.at = "status" /\ h.work = r.work /\ h.queued
        /\ h.open = r.open /\ h.auth = r.auth /\ h.err = "lost"
    <3> HIDE DEF g
    <3> QED
      BY <2>4 DEF PressFields
  <2>6. ASSUME NEW v, press' = [press EXCEPT ![p] = v], audit' \subseteq audit \union {p}, v \in {g, h}
        PROVE  AskingInv'
    <3>2. /\ DOMAIN v = PressFields /\ v.at = "status" /\ v.work = r.work /\ v.queued
          /\ v.open = r.open /\ v.auth = r.auth /\ v.err \in {r.err, "lost"}
      BY <2>4, <2>5, <2>6
    <3> HIDE DEF g, h, r
    <3>3. r.err = "none" /\ ~r.queued /\ Unrefused("none") /\ Unrefused("lost")
      BY <1>b, <2>1 DEF Before, Unrefused
    <3>4. /\ v.at \in After /\ v.at \notin Before /\ Unrefused(v.err)
          /\ r.at \notin {"new", "done"}
          /\ ~Closed(record[p]) /\ v.at \notin {"new", "ask"}
      BY <1>s, <2>1, <3>2, <3>3 DEF Before, After
    <3>5. /\ v.work \in Lockable \ locks => v.open
          /\ v.queued /\ ~v.auth => v.work \notin {"secrets", "restart"} /\ (v.work \in Lockable => v.open)
      BY <1>o, <2>1, <3>2
    <3> QED
      BY <1>a, <1>r, <2>1, <2>6, <3>2, <3>4, <3>5, PressGoesOn DEF r
  <2>7. CASE /\ press' = [press EXCEPT ![p].at = "status", ![p].queued = TRUE]
             /\ audit' \subseteq audit \union {p}
    <3>1. press' = [press EXCEPT ![p] = g]
      BY <1>s, <1>q, <1>w, <1>b, <1>o, <1>z, <2>7, TwoFields
    <3> QED
      BY <2>6, <2>7, <3>1
  <2>8. CASE /\ press' = [press EXCEPT ![p].at = "status", ![p].queued = TRUE, ![p].err = "lost"]
             /\ audit' \subseteq audit \union {p}
    <3>1. press' = [press EXCEPT ![p] = h]
      BY <1>z, <2>8, ThreeFields
    <3> QED
      BY <2>6, <2>8, <3>1
  <2> HIDE DEF r
  <2> QED
    BY <1>3, <2>1, <2>2, <2>3, <2>7, <2>8
<1>8. CASE ReadStatus(p)
  <2>1. r.at = "status" /\ UNCHANGED <<record, locks, audit>>
    BY <1>8 DEF ReadStatus, Step
  <2>2. \/ press' = [press EXCEPT ![p].at = "finish"]
        \/ press' = [press EXCEPT ![p].at = "finish", ![p].seen = FALSE]
    BY <1>8 DEF ReadStatus
  <2> DEFINE v == [r EXCEPT !.at = "finish"]
             u == [r EXCEPT !.at = "finish", !.seen = FALSE]
  <2>3. press' = [press EXCEPT ![p] = v] \/ press' = [press EXCEPT ![p] = u]
    BY <1>s, <1>q, <1>w, <1>b, <1>o, <1>z, <2>2, TwoFields
  <2>4. /\ DOMAIN v = PressFields /\ v.at = "finish" /\ v.work = r.work /\ v.queued = r.queued
        /\ v.open = r.open /\ v.auth = r.auth /\ v.err = r.err
    BY <1>s, <1>q, <1>w, <1>b, <1>o, <1>z DEF PressFields
  <2>5. /\ DOMAIN u = PressFields /\ u.at = "finish" /\ u.work = r.work /\ u.queued = r.queued
        /\ u.open = r.open /\ u.auth = r.auth /\ u.err = r.err
    BY <1>s, <1>q, <1>w, <1>b, <1>o, <1>z, TwoShapes
  <2> HIDE DEF u, v, r
  <2>6. PICK t \in {u, v} : press' = [press EXCEPT ![p] = t]
    BY <2>3
  <2>7. /\ DOMAIN t = PressFields /\ t.at = "finish" /\ t.work = r.work /\ t.queued = r.queued
        /\ t.open = r.open /\ t.auth = r.auth /\ t.err = r.err
    BY <2>4, <2>5
  <2>8. /\ t.queued <=> Unrefused(t.err)
        /\ p \in audit' => t.queued
        /\ ~Closed(record[p])
    BY <1>s, <1>q, <1>w, <1>b, <1>o, <1>z, <2>1, <2>7
  <2>9. /\ t.work \in Lockable \ locks => t.open
        /\ t.queued /\ ~t.auth => t.work \notin {"secrets", "restart"} /\ (t.work \in Lockable => t.open)
    BY <1>s, <1>q, <1>w, <1>b, <1>o, <1>z, <2>1, <2>7
  <2> QED
    BY <1>a, <1>r, <2>1, <2>6, <2>7, <2>8, <2>9, PressGoesOn DEF r, Before, After
<1>9. CASE Finish(p)
  <2> DEFINE v == [r EXCEPT !.at = "done"]
  <2>1. r.at = "finish" /\ UNCHANGED <<locks, audit>> /\ press' = [press EXCEPT ![p] = v]
    BY <1>9 DEF Finish, Step
  <2>2. /\ DOMAIN v = PressFields /\ v.at = "done" /\ v.work = r.work /\ v.queued = r.queued
        /\ v.open = r.open /\ v.auth = r.auth /\ v.seen = r.seen /\ v.err = r.err
    BY <1>s, <1>q, <1>w, <1>b, <1>o, <1>z DEF PressFields
  <2>3. PICK x : record' = [record EXCEPT ![p] = x] /\ x \in {record[p], NoRow, Outcome(p)}
    <3>1. \/ record' = [record EXCEPT ![p] = IF record[p] = NoRow THEN NoRow ELSE Outcome(p)]
          \/ record' = record
      BY <1>9 DEF Finish
    <3> QED
      BY <1>a, <1>r, <3>1
  <2>4. /\ Outcome(p) = "succeeded" => r.err = "none"
        /\ Outcome(p) = "refused" => r.err = "refused"
        /\ Outcome(p) = "failed" => ~r.seen \/ r.err # "none"
    BY DEF Outcome
  <2>5. ~Closed(record[p]) /\ ~Closed(NoRow)
    BY <1>s, <2>1 DEF NoRow, Closed
  <2> HIDE DEF v, r
  <2>8. x \in Rows
    BY <1>r, <2>3 DEF Outcome, NoRow, Rows
  <2>9. Closed(x) => TellsOf(x, v)
    BY <1>b, <2>1, <2>2, <2>3, <2>4, <2>5 DEF TellsOf, Unrefused
  <2>6. p \in audit' => v.queued
    BY <1>q, <2>1, <2>2
  <2>7. /\ v.work \in Lockable \ locks => v.open
        /\ v.queued /\ ~v.auth => v.work \notin {"secrets", "restart"} /\ (v.work \in Lockable => v.open)
    BY <1>s, <1>q, <1>w, <1>b, <1>o, <1>z, <2>1, <2>2
  <2> QED
    <3>1. /\ v.at \in After /\ v.at \notin Before /\ v.at \notin {"new", "ask", "status", "finish"}
          /\ r.at # "done" /\ (r.queued => v.queued)
      BY <2>1, <2>2 DEF Before, After
    <3>2. Closed(x) => x # record[p]
      BY <2>5
    <3>3. audit' \subseteq audit \union {p}
      BY <2>1
    <3> QED
      BY <2>1, <2>2, <2>3, <2>9, <2>6, <2>7, <2>8, <3>1, <3>2, <3>3, PressGoesOn DEF r
<1>10. CASE Posts(p)
  BY <1>1, <1>10 DEF Posts, backupPost, backupVerifyPost, backupRestorePost, releasePost, upgradePost,
                     rangeRefreshPost, restartPost
<1> HIDE DEF r
<1> QED
  BY <1>2, <1>6, <1>7, <1>8, <1>9, <1>10

\* The locks change, and the panel stops in the middle.
LEMMA PressesKeep == AskingInv /\ [AskingNext]_askingVars => AskingInv'
<1> SUFFICES ASSUME AskingInv, [AskingNext]_askingVars PROVE AskingInv'
  OBVIOUS
<1>0. PressShapes /\ AskedOnce /\ NeededOpen /\ RecordsAreTrue /\ PasswordIsAsked
  BY DEF AskingInv, PressesAreHonest
<1>1. CASE Served
  BY <1>1 DEF Served, AskingInv, PressShapes, AskedOnce, NeededOpen, PressesAreHonest, RecordsAreTrue,
              PasswordIsAsked
<1>2. CASE SetLock
  <2>1. /\ DOMAIN press' = Presses /\ UNCHANGED <<record, audit>>
        /\ \A p \in Presses : press'[p] = [press[p] EXCEPT !.open = @ \/ press[p].work \notin locks']
    BY <1>2 DEF SetLock
  <2>2. \A p \in Presses :
          /\ DOMAIN press'[p] = PressFields /\ press'[p].at = press[p].at /\ press'[p].work = press[p].work
          /\ press'[p].auth = press[p].auth /\ press'[p].err = press[p].err
          /\ press'[p].queued = press[p].queued /\ press'[p].seen = press[p].seen
    BY <1>0, <2>1 DEF PressShapes, PressFields
  <2>3. \A p \in Presses : press'[p].open <=> press[p].open \/ press[p].work \notin locks'
    BY <1>0, <2>1 DEF PressShapes, PressFields
  <2>4. PressShapes' /\ AskedOnce'
    BY <1>0, <2>1, <2>2 DEF PressShapes, AskedOnce
  <2>5. NeededOpen' /\ PasswordIsAsked'
    BY <1>0, <2>2, <2>3 DEF NeededOpen, PasswordIsAsked
  <2>6. RecordsAreTrue'
    BY <1>0, <2>1, <2>2 DEF RecordsAreTrue
  <2> QED
    BY <2>4, <2>5, <2>6 DEF AskingInv, PressesAreHonest
<1>3. CASE Stop
  <2>1. /\ DOMAIN press' = Presses /\ UNCHANGED <<record, audit, locks>>
        /\ \A p \in Presses : press'[p] = [press[p] EXCEPT !.at = IF @ = "new" THEN @ ELSE "done"]
    BY <1>3 DEF Stop
  <2>2. \A p \in Presses :
          /\ DOMAIN press'[p] = PressFields /\ press'[p].work = press[p].work
          /\ press'[p].auth = press[p].auth /\ press'[p].err = press[p].err
          /\ press'[p].queued = press[p].queued /\ press'[p].open = press[p].open
          /\ press'[p].seen = press[p].seen
          /\ press'[p].at = IF press[p].at = "new" THEN "new" ELSE "done"
    BY <1>0, <2>1 DEF PressShapes, PressFields
  <2>3. PressShapes' /\ AskedOnce'
    BY <1>0, <2>1, <2>2 DEF PressShapes, AskedOnce, Before, After
  <2>4. NeededOpen' /\ PasswordIsAsked'
    BY <1>0, <2>1, <2>2 DEF NeededOpen, PasswordIsAsked
  <2>5. RecordsAreTrue'
    BY <1>0, <2>1, <2>2 DEF RecordsAreTrue
  <2> QED
    BY <2>3, <2>4, <2>5 DEF AskingInv, PressesAreHonest
<1>4. CASE UNCHANGED askingVars
  BY <1>4 DEF askingVars, AskingInv, PressShapes, AskedOnce, NeededOpen, PressesAreHonest, RecordsAreTrue,
              PasswordIsAsked
<1> QED
  BY <1>1, <1>2, <1>3, <1>4, PressKeeps DEF AskingNext

\* The handlers of the health page's buttons: whatever statements fail,
\* whatever others have asked for and however the locks change while a press
\* is handled, its record and the audit log say what became of it (failed with
\* its request queued only when the section could not be read again, or the
\* answer was lost), and locked work is queued only with the password.
THEOREM PressesAreTold == AskingSpec => []PressesAreHonest
<1>1. AskingInit => AskingInv
  <2>1. DOMAIN NoPress = PressFields /\ NoPress.at = "new" /\ ~NoPress.queued /\ NoPress.err = "none"
    BY DEF NoPress, PressFields
  <2> QED
    BY <2>1 DEF AskingInit, AskingInv, PressShapes, AskedOnce, NeededOpen, PressesAreHonest,
                RecordsAreTrue, PasswordIsAsked, NoRow, Rows, Before, After, Closed
<1>2. AskingInv => PressesAreHonest
  BY DEF AskingInv
<1> QED
  BY <1>1, <1>2, PressesKeep, PTL DEF AskingSpec

-----------------------------------------------------------------------------
(* Backups and restores.                                                   *)

\* Everything that only a database that is ours goes through.
Rebuilding == {"wipe", "build"}

\* A database that is not ours keeps all its tables and is never marked.
TargetsOK ==
  target.is \in {"other", "live"} =>
    /\ target.built = Tables
    /\ ~target.marked
    /\ run.at \notin Rebuilding

TargetShape == DOMAIN target = {"is", "built", "marked", "ours", "rows"}
RunShape == DOMAIN run = {"at", "tables", "todo", "got", "from"}

\* No database of another kind, one step further.
LEMMA TargetsKept == TargetShape /\ RunShape /\ TargetsOK /\ [RestoreNext]_restoreVars
                       => TargetShape' /\ RunShape' /\ TargetsOK'
<1> SUFFICES ASSUME TargetShape, RunShape, TargetsOK, [RestoreNext]_restoreVars
             PROVE  TargetShape' /\ RunShape' /\ TargetsOK'
  OBVIOUS
<1> USE DEF TargetShape, RunShape
<1>1. ASSUME UNCHANGED <<target, run>> PROVE TargetShape' /\ RunShape' /\ TargetsOK'
  BY <1>1 DEF TargetsOK
<1>2. CASE Transaction \/ Upgrade \/ NewPassword \/ Damage \/ DamageSealed \/ RestoreRefuse
           \/ Seal \/ Check \/ CheckSealed \/ UNCHANGED restoreVars
  <2>1. UNCHANGED <<target, run>>
    BY <1>2 DEF Transaction, Upgrade, NewPassword, Damage, DamageSealed, RestoreRefuse, Seal,
                Check, CheckSealed, restoreVars
  <2> QED
    BY <1>1, <2>1
<1>3. ASSUME UNCHANGED target, DOMAIN run' = DOMAIN run, run'.at \notin Rebuilding
      PROVE  TargetShape' /\ RunShape' /\ TargetsOK'
  BY <1>3 DEF TargetsOK
<1>4. DOMAIN Idle = {"at", "tables", "todo", "got", "from"} /\ Idle.at = "off"
  BY DEF Idle
<1>5. RestoreEnd /\ UNCHANGED target => TargetShape' /\ RunShape' /\ TargetsOK'
  BY <1>3, <1>4 DEF RestoreEnd, Rebuilding
<1>6. CASE Configure
  <2>1. PICK is \in {"side", "other", "live"} : target' = Target(is)
    BY <1>6 DEF Configure
  <2>2. run.at = "off" /\ run' = run
    BY <1>6 DEF Configure, RestoreAt
  <2> QED
    BY <2>1, <2>2 DEF Target, TargetsOK, Rebuilding
<1>7. CASE Crash \/ Written \/ Reported \/ Fails
  BY <1>5, <1>7 DEF Crash, Written, Reported, Fails, files
<1>8. CASE Snapshot
  <2>1. PICK S : run' = [Idle EXCEPT !.at = "copy", !.tables = S, !.todo = S, !.from = live]
    BY <1>8 DEF Snapshot
  <2>2. DOMAIN run' = DOMAIN run /\ run'.at = "copy"
    BY <1>4, <2>1
  <2> QED
    BY <1>3, <1>8, <2>2 DEF Snapshot, Rebuilding
<1>9. CASE CopyTable
  <2>1. PICK t \in run.todo : run' = [run EXCEPT !.todo = @ \ {t}, !.got[t] = Seen(t)]
    BY <1>9 DEF CopyTable
  <2>2. DOMAIN run' = DOMAIN run /\ run'.at = run.at
    BY <2>1
  <2> QED
    BY <1>3, <1>9, <2>2 DEF CopyTable, RestoreAt, Rebuilding
<1>10. CASE RestoreBegin \/ Restored
  <2>1. DOMAIN run' = DOMAIN run /\ run'.at \in {"probe", "restored"}
    BY <1>4, <1>10 DEF RestoreBegin, Restored
  <2> QED
    BY <1>3, <1>10, <2>1 DEF RestoreBegin, Restored, Rebuilding
<1>11. CASE Probe
  BY <1>3, <1>5, <1>11 DEF Probe, Rebuilding
<1>12. CASE Look
  <2>1. CASE RestoreEnd
    BY <1>5, <1>12, <2>1 DEF Look
  <2>2. CASE Owned /\ run' = [run EXCEPT !.at = "wipe"]
    <3>1. target.is \notin {"other", "live"}
      BY <2>2, RestoreAssumption DEF Owned, TargetsOK
    <3>2. UNCHANGED target /\ DOMAIN run' = DOMAIN run
      BY <1>12, <2>2 DEF Look
    <3> QED
      BY <3>1, <3>2 DEF TargetsOK
  <2> QED
    BY <1>12, <2>1, <2>2 DEF Look
<1>13. CASE Wipe
  <2>1. /\ run.at = "wipe" /\ target' = [target EXCEPT !.built = {}, !.marked = FALSE, !.rows = Zero]
        /\ run' = [run EXCEPT !.at = "build", !.todo = Tables]
    BY <1>13 DEF Wipe, RestoreAt
  <2>2. /\ DOMAIN target' = DOMAIN target /\ target'.is = target.is /\ target'.built = {}
        /\ DOMAIN run' = DOMAIN run /\ run'.at = "build"
    BY <2>1
  <2> QED
    BY <2>1, <2>2 DEF TargetsOK, Rebuilding
<1>14. CASE Build
  <2>1. PICK t \in run.todo : /\ target' = [target EXCEPT !.built = @ \union {t}]
                              /\ run' = [run EXCEPT !.todo = @ \ {t}]
    BY <1>14 DEF Build
  <2>2. run.at = "build"
    BY <1>14 DEF Build, RestoreAt
  <2>3. /\ DOMAIN target' = DOMAIN target /\ target'.is = target.is
        /\ DOMAIN run' = DOMAIN run
    BY <2>1
  <2> QED
    BY <2>2, <2>3 DEF TargetsOK, Rebuilding
<1>15. CASE Mark
  <2>1. run.at = "build" /\ target' = [target EXCEPT !.marked = TRUE]
    BY <1>15 DEF Mark, RestoreAt
  <2>2. DOMAIN target' = DOMAIN target /\ target'.is = target.is
    BY <2>1
  <2>3. DOMAIN run' = DOMAIN run
    BY <1>4, <1>15 DEF Mark, RestoreEnd
  <2> QED
    BY <2>1, <2>2, <2>3 DEF TargetsOK, Rebuilding
<1>16. CASE PutRows
  <2>1. PICK t \in run.todo :
          \/ RestoreEnd /\ UNCHANGED target
          \/ /\ target' = [target EXCEPT !.rows[t] = file.data[t]]
             /\ run' = [run EXCEPT !.todo = @ \ {t}] \/ RestoreEnd
    BY <1>16 DEF PutRows
  <2>2. CASE RestoreEnd /\ UNCHANGED target
    BY <1>5, <2>2
  <2>3. CASE /\ target' = [target EXCEPT !.rows[t] = file.data[t]]
             /\ run' = [run EXCEPT !.todo = @ \ {t}] \/ RestoreEnd
    <3>1. /\ DOMAIN target' = DOMAIN target /\ target'.is = target.is
          /\ target'.built = target.built /\ target'.marked = target.marked
      BY <2>3
    <3>2. DOMAIN run' = DOMAIN run /\ run'.at \in {"rows", "off"}
      BY <1>4, <1>16, <2>3 DEF PutRows, RestoreAt, RestoreEnd
    <3> QED
      BY <3>1, <3>2 DEF TargetsOK, Rebuilding
  <2> QED
    BY <2>1, <2>2, <2>3
<1> QED
  BY <1>2, <1>6, <1>7, <1>8, <1>9, <1>10, <1>11, <1>12, <1>13, <1>14, <1>15, <1>16 DEF RestoreNext

\* The only database ever emptied is one that was empty or holds what an earlier
\* restore put there (restore.go:373): the marker is set after a wipe only, and
\* a wipe is of a database without tables or with the marker.
THEOREM OnlyOursAreWiped == RestoreSpec => []OnlyOursIsWiped
<1>1. RestoreInit => TargetShape /\ RunShape /\ TargetsOK
  BY DEF RestoreInit, TargetShape, RunShape, TargetsOK, Target, Idle
<1>2. TargetsOK => OnlyOursIsWiped
  BY DEF TargetsOK, OnlyOursIsWiped
<1> QED
  BY <1>1, <1>2, TargetsKept, PTL DEF RestoreSpec

\* Every transaction adds a row to each table, and a copy begins from there.
Uniform(f) == f \in [Tables -> Nat] /\ \A t, u \in Tables : f[t] = f[u]

\* What has been copied is what the snapshot saw.
CopyOK ==
  /\ Uniform(live)
  /\ run.at = "copy" =>
       /\ Uniform(run.from) /\ DOMAIN run.got = Tables
       /\ run.todo \subseteq run.tables /\ run.tables \subseteq Tables
       /\ \A t \in run.tables \ run.todo : run.got[t] = run.from[t]

\* An intact file holds one moment's rows, and what its manifest says it does.
FileShape ==
  file.is => DOMAIN file = {"is", "man", "rows", "version", "same", "true", "data"}
FileOK ==
  file.is /\ file.same =>
    /\ file.man \subseteq Tables /\ file.true
    /\ \A t \in file.man : file.rows[t] \in Nat /\ file.data[t] = file.rows[t]
    /\ \A t \in Tables \ file.man : file.data[t] = Absent
    /\ \A t, u \in file.man : file.rows[t] = file.rows[u]
VerdictOK == checkVerdict = "passed" => file.is /\ file.same

\* The two things a step does to the file: nothing, or a new verdict of it.
LEMMA FileStays == FileShape /\ FileOK /\ VerdictOK /\ UNCHANGED <<file, checkVerdict>>
                     => FileShape' /\ FileOK' /\ VerdictOK'
  BY DEF FileShape, FileOK, VerdictOK

\* What a copy has is what its snapshot saw, one step further.
LEMMA CopiesKept == RunShape /\ CopyOK /\ [RestoreNext]_restoreVars => CopyOK'
<1> SUFFICES ASSUME RunShape, CopyOK, [RestoreNext]_restoreVars PROVE CopyOK'
  OBVIOUS
<1>1. ASSUME UNCHANGED live, run' = run \/ run'.at # "copy" PROVE CopyOK'
  BY <1>1 DEF CopyOK, Uniform
<1>2. Idle.at = "off" /\ RunShape
  BY DEF Idle
<1>3. RestoreEnd /\ UNCHANGED live => CopyOK'
  BY <1>1, <1>2 DEF RestoreEnd
<1>4. CASE Transaction
  <2>1. live' = [t \in Tables |-> live[t] + 1] /\ run' = run
    BY <1>4 DEF Transaction
  <2>2. Uniform(live)'
    BY <2>1 DEF CopyOK, Uniform
  <2> QED
    BY <2>1, <2>2 DEF CopyOK, Uniform
<1>5. CASE Upgrade \/ NewPassword \/ Configure \/ Damage \/ DamageSealed \/ RestoreRefuse
           \/ Seal \/ Check \/ CheckSealed \/ UNCHANGED restoreVars
  <2>1. UNCHANGED <<live, run>>
    BY <1>5 DEF Upgrade, NewPassword, Configure, Damage, DamageSealed, RestoreRefuse, Seal,
                Check, CheckSealed, restoreVars, world
  <2> QED
    BY <1>1, <2>1
<1>6. CASE Crash \/ Written \/ Reported \/ Fails
  BY <1>3, <1>6 DEF Crash, Written, Reported, Fails, world
<1>7. CASE Snapshot
  <2>1. PICK S \in SUBSET DOMAIN Sets :
          run' = [Idle EXCEPT !.at = "copy", !.tables = TablesFor(S), !.todo = TablesFor(S),
                              !.from = live]
    BY <1>7 DEF Snapshot
  <2>2. TablesFor(S) \subseteq Tables
    BY DEF TablesFor, Tables
  <2> HIDE DEF TablesFor
  <2>3. DOMAIN Idle = {"at", "tables", "todo", "got", "from"} /\ Idle.got = Zero
    BY DEF Idle
  <2>4. /\ run'.tables = TablesFor(S) /\ run'.todo = TablesFor(S) /\ run'.from = live
        /\ run'.got = Zero
    BY <2>1, <2>3
  <2>5. live' = live /\ DOMAIN Zero = Tables
    BY <1>7 DEF Snapshot, world, Zero
  <2> QED
    BY <2>2, <2>4, <2>5 DEF CopyOK, Uniform
<1>8. CASE CopyTable
  <2>1. PICK t \in run.todo : run' = [run EXCEPT !.todo = @ \ {t}, !.got[t] = Seen(t)]
    BY <1>8 DEF CopyTable
  <2>2. /\ run'.at = run.at /\ run'.todo = run.todo \ {t} /\ run'.tables = run.tables
        /\ run'.from = run.from /\ run'.got = [run.got EXCEPT ![t] = run.from[t]]
    BY <2>1 DEF RunShape, Seen
  <2>3. live' = live /\ run.at = "copy"
    BY <1>8 DEF CopyTable, world, RestoreAt
  <2> QED
    BY <2>2, <2>3 DEF CopyOK
<1>9. CASE RestoreBegin \/ Probe \/ Look \/ Wipe \/ Build \/ Mark \/ PutRows \/ Restored
  <2>1. live' = live
    BY <1>9 DEF RestoreBegin, Probe, Look, Wipe, Build, Mark, PutRows, Restored, world
  <2>2. DOMAIN Idle = {"at", "tables", "todo", "got", "from"}
    BY DEF Idle
  <2>3. CASE RestoreBegin \/ Probe \/ Look
    <3>1. run'.at # "copy"
      BY <1>2, <2>2, <2>3 DEF RestoreBegin, Probe, Look, RestoreEnd, RunShape, RestoreAt
    <3> QED
      BY <1>1, <2>1, <3>1
  <2>4. CASE Wipe \/ Mark \/ Restored
    <3>1. run'.at # "copy"
      BY <1>2, <2>2, <2>4 DEF Wipe, Mark, Restored, RestoreEnd, RunShape, RestoreAt
    <3> QED
      BY <1>1, <2>1, <3>1
  <2>5. CASE Build \/ PutRows
    <3>1. run'.at # "copy"
      BY <1>2, <2>2, <2>5 DEF Build, PutRows, RestoreEnd, RunShape, RestoreAt
    <3> QED
      BY <1>1, <2>1, <3>1
  <2> QED
    BY <1>9, <2>3, <2>4, <2>5
<1> QED
  BY <1>4, <1>5, <1>6, <1>7, <1>8, <1>9 DEF RestoreNext

\* What an intact file holds, one step further.
LEMMA FilesKept == RunShape /\ CopyOK /\ FileShape /\ FileOK /\ VerdictOK
                   /\ [RestoreNext]_restoreVars => FileShape' /\ FileOK' /\ VerdictOK'
<1> SUFFICES ASSUME RunShape, CopyOK, FileShape, FileOK, VerdictOK, [RestoreNext]_restoreVars
             PROVE  FileShape' /\ FileOK' /\ VerdictOK'
  OBVIOUS
<1>1. CASE Damage
  <2>1. checkVerdict' = "none"
    BY <1>1 DEF Damage
  <2>2. DOMAIN file = {"is", "man", "rows", "version", "same", "true", "data"}
    BY <1>1 DEF Damage, FileShape
  <2>3. \/ \E t \in Tables, n \in {Absent, 0} : file' = [file EXCEPT !.same = FALSE, !.data[t] = n]
        \/ file' = [file EXCEPT !.same = FALSE, !.man = {}, !.rows = Zero]
        \/ file' = [file EXCEPT !.same = FALSE, !.true = FALSE]
    BY <1>1 DEF Damage
  <2>4. DOMAIN file' = DOMAIN file /\ ~file'.same
    BY <2>2, <2>3
  <2> QED
    BY <2>1, <2>2, <2>4 DEF FileShape, FileOK, VerdictOK
<1>2. CASE Written
  <2>1. file' = [is |-> TRUE, man |-> run.tables, rows |-> run.got, version |-> build,
                 same |-> TRUE, true |-> TRUE,
                 data |-> [t \in Tables |-> IF t \in run.tables THEN run.got[t] ELSE Absent]]
    BY <1>2 DEF Written
  <2>2. run.at = "copy" /\ run.todo = {} /\ checkVerdict' = "none"
    BY <1>2 DEF Written, RestoreAt
  <2>3. /\ file'.man = run.tables /\ file'.rows = run.got /\ file'.true
        /\ file'.data = [t \in Tables |-> IF t \in run.tables THEN run.got[t] ELSE Absent]
    BY <2>1
  <2>4. DOMAIN file' = {"is", "man", "rows", "version", "same", "true", "data"}
    BY <2>1
  <2>5. /\ run.tables \subseteq Tables /\ Uniform(run.from)
        /\ \A t \in run.tables : run.got[t] = run.from[t]
    BY <2>2 DEF CopyOK
  <2>6. FileOK'
    BY <2>3, <2>5 DEF FileOK, Uniform
  <2> QED
    BY <2>2, <2>4, <2>6 DEF FileShape, VerdictOK
<1>3. CASE Check
  BY <1>3 DEF Check, Passes, FileShape, FileOK, VerdictOK
<1>4. CASE Transaction \/ Upgrade \/ NewPassword \/ Configure \/ DamageSealed \/ RestoreRefuse
           \/ Seal \/ CheckSealed \/ UNCHANGED restoreVars
  <2>1. UNCHANGED <<file, checkVerdict>>
    BY <1>4 DEF Transaction, Upgrade, NewPassword, Configure, DamageSealed, RestoreRefuse, Seal,
                CheckSealed, restoreVars, files
  <2> QED
    BY <2>1, FileStays
<1>5. CASE Crash \/ Reported \/ Fails \/ Snapshot \/ CopyTable \/ RestoreBegin \/ Probe \/ Look
           \/ Wipe \/ Build \/ Mark \/ PutRows \/ Restored
  <2>1. UNCHANGED <<file, checkVerdict>>
    BY <1>5 DEF Crash, Reported, Fails, Snapshot, CopyTable, RestoreBegin, Probe, Look, Wipe,
                Build, Mark, PutRows, Restored, files
  <2> QED
    BY <2>1, FileStays
<1> QED
  BY <1>1, <1>2, <1>3, <1>4, <1>5 DEF RestoreNext

\* While a restore puts rows back, what went in is what the file said.
RowsOK ==
  /\ DOMAIN target.rows = Tables
  /\ run.at \in {"rows", "restored"} =>
       /\ run.tables = {t \in Tables : file.data[t] # Absent}
       /\ run.todo \subseteq run.tables
       /\ \A t \in run.tables \ run.todo : target.rows[t] = file.rows[t]
  /\ run.at = "restored" => run.todo = {}

\* What is put back, one step further: the file stays what it is meanwhile.
LEMMA RowsKept == TargetShape /\ RunShape /\ RowsOK /\ [RestoreNext]_restoreVars => RowsOK'
<1> SUFFICES ASSUME TargetShape, RunShape, RowsOK, [RestoreNext]_restoreVars PROVE RowsOK'
  OBVIOUS
<1>1. ASSUME DOMAIN target'.rows = Tables, run'.at \notin {"rows", "restored"} PROVE RowsOK'
  BY <1>1 DEF RowsOK
<1>2. ASSUME UNCHANGED <<target, run, file>> PROVE RowsOK'
  BY <1>2 DEF RowsOK
<1>3. DOMAIN Zero = Tables /\ DOMAIN target.rows = Tables
  BY DEF Zero, RowsOK
<1>4. /\ Idle.at = "off" /\ DOMAIN Idle = {"at", "tables", "todo", "got", "from"}
      /\ DOMAIN run = {"at", "tables", "todo", "got", "from"}
      /\ DOMAIN target = {"is", "built", "marked", "ours", "rows"}
  BY DEF Idle, RunShape, TargetShape
<1>5. RestoreEnd /\ UNCHANGED target => RowsOK'
  BY <1>1, <1>3, <1>4 DEF RestoreEnd
<1>6. CASE Transaction \/ Upgrade \/ NewPassword \/ DamageSealed \/ RestoreRefuse \/ Seal
           \/ Check \/ CheckSealed \/ UNCHANGED restoreVars
  <2>1. UNCHANGED <<target, run, file>>
    BY <1>6 DEF Transaction, Upgrade, NewPassword, DamageSealed, RestoreRefuse, Seal, Check,
                CheckSealed, restoreVars, files
  <2> QED
    BY <1>2, <2>1
<1>7. CASE Configure
  <2>1. PICK is \in {"side", "other", "live"} : target' = Target(is)
    BY <1>7 DEF Configure
  <2>2. target'.rows = Zero
    BY <2>1 DEF Target
  <2>3. run'.at = "off"
    BY <1>7 DEF Configure, RestoreAt
  <2> QED
    BY <1>1, <1>3, <2>2, <2>3
<1>8. CASE Damage
  BY <1>1, <1>3, <1>8 DEF Damage, RestoreAt
<1>9. CASE Crash \/ Written \/ Reported \/ Fails
  BY <1>5, <1>9 DEF Crash, Written, Reported, Fails, files
<1>10. CASE Snapshot
  <2>1. PICK S : run' = [Idle EXCEPT !.at = "copy", !.tables = S, !.todo = S, !.from = live]
    BY <1>10 DEF Snapshot
  <2>2. run'.at = "copy"
    BY <1>4, <2>1
  <2> QED
    BY <1>1, <1>3, <1>10, <2>2 DEF Snapshot
<1>11. CASE CopyTable
  <2>1. PICK t \in run.todo : run' = [run EXCEPT !.todo = @ \ {t}, !.got[t] = Seen(t)]
    BY <1>11 DEF CopyTable
  <2>2. run'.at = "copy"
    BY <1>4, <1>11, <2>1 DEF CopyTable, RestoreAt
  <2> QED
    BY <1>1, <1>3, <1>11, <2>2 DEF CopyTable
<1>12. CASE RestoreBegin
  BY <1>1, <1>3, <1>4, <1>12 DEF RestoreBegin
<1>13. CASE Probe
  BY <1>1, <1>3, <1>4, <1>5, <1>13 DEF Probe
<1>14. CASE Look
  BY <1>1, <1>3, <1>4, <1>5, <1>14 DEF Look
<1>15. CASE Wipe
  <2>1. target'.rows = Zero
    BY <1>4, <1>15 DEF Wipe
  <2>2. run'.at = "build"
    BY <1>4, <1>15 DEF Wipe
  <2> QED
    BY <1>1, <1>3, <2>1, <2>2
<1>16. CASE Build
  <2>1. target'.rows = target.rows
    BY <1>4, <1>16 DEF Build
  <2>2. run'.at = "build"
    BY <1>4, <1>16 DEF Build, RestoreAt
  <2> QED
    BY <1>1, <1>3, <2>1, <2>2
<1>17. CASE Mark
  <2>1. target'.rows = target.rows
    BY <1>4, <1>17 DEF Mark
  <2>2. CASE RestoreEnd
    BY <1>1, <1>3, <1>4, <2>1, <2>2 DEF RestoreEnd
  <2> DEFINE S == {t \in Tables : file.data[t] # Absent}
  <2>3. CASE run' = [run EXCEPT !.at = "rows", !.tables = S, !.todo = S]
    <3> HIDE DEF S
    <3>1. run'.at = "rows" /\ run'.tables = S /\ run'.todo = S
      BY <1>4, <2>3
    <3>2. file' = file
      BY <1>17 DEF Mark, files
    <3>3. S = {t \in Tables : file.data[t] # Absent}'
      BY <3>2 DEF S
    <3> QED
      BY <1>3, <2>1, <3>1, <3>3 DEF RowsOK
  <2> QED
    BY <1>17, <2>2, <2>3 DEF Mark
<1>18. CASE PutRows
  <2>1. PICK t \in run.todo :
          IF t \notin file.man \/ ~ColumnsExist(t)
          THEN RestoreEnd /\ UNCHANGED target
          ELSE /\ target' = [target EXCEPT !.rows[t] = file.data[t]]
               /\ IF Arrived(t) THEN run' = [run EXCEPT !.todo = @ \ {t}] ELSE RestoreEnd
    BY <1>18 DEF PutRows
  <2>2. file' = file /\ run.at = "rows"
    BY <1>18 DEF PutRows, files, RestoreAt
  <2>3. CASE RestoreEnd /\ UNCHANGED target
    BY <1>5, <2>3
  <2>4. CASE target' = [target EXCEPT !.rows[t] = file.data[t]]
    <3>1. target'.rows = [target.rows EXCEPT ![t] = file.data[t]]
      BY <1>4, <2>4
    <3>2. DOMAIN target'.rows = Tables
      BY <1>3, <3>1
    <3>3. CASE RestoreEnd
      BY <1>1, <1>4, <3>2, <3>3 DEF RestoreEnd
    <3>4. CASE Arrived(t) /\ run' = [run EXCEPT !.todo = @ \ {t}]
      <4>1. run'.at = "rows" /\ run'.tables = run.tables /\ run'.todo = run.todo \ {t}
        BY <1>4, <2>2, <3>4
      <4>2. file.data[t] = file.rows[t]
        BY <3>4 DEF Arrived
      <4> QED
        BY <1>3, <2>2, <3>1, <4>1, <4>2 DEF RowsOK
    <3> QED
      BY <2>1, <2>4, <3>3, <3>4, <1>5
  <2> QED
    BY <2>1, <2>3, <2>4
<1>19. CASE Restored
  <2>1. run'.at = "restored" /\ run'.tables = run.tables /\ run'.todo = run.todo
    BY <1>4, <1>19 DEF Restored
  <2>2. UNCHANGED <<target, file>> /\ run.at = "rows" /\ run.todo = {}
    BY <1>19 DEF Restored, files, RestoreAt
  <2> QED
    BY <2>1, <2>2 DEF RowsOK
<1> QED
  BY <1>6, <1>7, <1>8, <1>9, <1>10, <1>11, <1>12, <1>13, <1>14, <1>15, <1>16, <1>17, <1>18,
     <1>19 DEF RestoreNext

\* An intact sealed file can be read and its header is its own; so can one that
\* passed its check, and by whom it says.
SealedOK ==
  /\ sealed.is => DOMAIN sealed = {"is", "key", "same", "man", "payload", "header"}
  /\ sealed.is /\ sealed.same => sealed.man /\ sealed.payload /\ sealed.header
  /\ opens # "none" => sealed.is /\ Opens(opens)

\* A sealed file, one step further.
LEMMA SealedKept == SealedOK /\ [RestoreNext]_restoreVars => SealedOK'
<1> SUFFICES ASSUME SealedOK, [RestoreNext]_restoreVars PROVE SealedOK'
  OBVIOUS
<1>1. ASSUME UNCHANGED <<sealed, opens>> PROVE SealedOK'
  BY <1>1 DEF SealedOK, Opens
<1>2. CASE DamageSealed
  <2>1. DOMAIN sealed = {"is", "key", "same", "man", "payload", "header"} /\ opens' = "none"
    BY <1>2 DEF DamageSealed, SealedOK
  <2>2. DOMAIN sealed' = DOMAIN sealed /\ ~sealed'.same
    BY <1>2, <2>1 DEF DamageSealed
  <2> QED
    BY <2>1, <2>2 DEF SealedOK
<1>3. CASE Seal
  <2>1. (sealed' = SealedTo(key) /\ opens' = "none") \/ UNCHANGED <<sealed, opens>>
    BY <1>3 DEF Seal
  <2> QED
    BY <1>1, <2>1 DEF SealedTo, SealedOK
<1>4. CASE CheckSealed
  <2>1. sealed' = sealed /\ sealed.is /\ opens' = IF SealedPasses THEN key ELSE "none"
    BY <1>4 DEF CheckSealed
  <2>2. opens' # "none" => sealed.man /\ sealed.payload /\ sealed.header /\ sealed.key = opens'
    BY <2>1 DEF SealedPasses, SealedOK
  <2> QED
    BY <2>1, <2>2 DEF SealedOK, Opens
<1>5. CASE Transaction \/ Upgrade \/ NewPassword \/ Configure \/ Damage \/ Crash \/ Snapshot
           \/ RestoreRefuse \/ CopyTable \/ UNCHANGED restoreVars
  <2>1. UNCHANGED <<sealed, opens>>
    BY <1>5 DEF Transaction, Upgrade, NewPassword, Configure, Damage, Crash, Snapshot,
                RestoreRefuse, CopyTable, restoreVars, files
  <2> QED
    BY <1>1, <2>1
<1>6. CASE Written \/ Check \/ RestoreBegin \/ Probe \/ Look \/ Wipe \/ Build \/ Mark \/ PutRows
           \/ Restored \/ Reported \/ Fails
  <2>1. UNCHANGED <<sealed, opens>>
    BY <1>6 DEF Written, Check, RestoreBegin, Probe, Look, Wipe, Build, Mark, PutRows,
                Restored, Reported, Fails, files
  <2> QED
    BY <1>1, <2>1
<1> QED
  BY <1>2, <1>3, <1>4, <1>5, <1>6 DEF RestoreNext

\* What a backup says of itself is so when it is taken (dump.go:117), checked
\* (verify.go:103) and restored (read.go:99): the snapshot is of one moment,
\* nothing changes the file while it is put back, and the sealed copy opens for
\* whom it was checked.
THEOREM BackupsTellTheTruth == RestoreSpec => []BackupsAreTrue
<1> DEFINE Inv == /\ TargetShape /\ RunShape /\ TargetsOK /\ CopyOK /\ FileShape /\ FileOK
                  /\ VerdictOK /\ RowsOK /\ SealedOK
<1>1. RestoreInit => Inv
  <2> SUFFICES ASSUME RestoreInit PROVE Inv
    OBVIOUS
  <2>1. TargetShape /\ RunShape /\ TargetsOK
    BY DEF RestoreInit, TargetShape, RunShape, TargetsOK, Target, Idle
  <2>2. CopyOK
    BY DEF RestoreInit, CopyOK, Idle, Uniform, Zero
  <2>3. FileShape /\ FileOK /\ VerdictOK
    BY DEF RestoreInit, FileShape, FileOK, VerdictOK, NoFile
  <2>4. RowsOK
    BY DEF RestoreInit, RowsOK, Target, Idle, Zero
  <2>5. SealedOK
    BY DEF RestoreInit, SealedOK, NoFile
  <2> QED
    BY <2>1, <2>2, <2>3, <2>4, <2>5
<1>2. Inv /\ [RestoreNext]_restoreVars => Inv'
  BY TargetsKept, CopiesKept, FilesKept, RowsKept, SealedKept
<1>3. Inv => BackupsAreTrue
  <2> SUFFICES ASSUME Inv PROVE BackupsAreTrue
    OBVIOUS
  <2>1. OneMoment
    BY DEF OneMoment, FileOK
  <2>2. CheckedOpens
    BY DEF CheckedOpens, SealedOK
  <2>3. ASSUME RestoreAt("restored")
        PROVE  \A t \in Tables : t \in file.man \ LeftOut => target.rows[t] = file.rows[t]
    <3>1. /\ run.tables = {t \in Tables : file.data[t] # Absent}
          /\ \A t \in run.tables : target.rows[t] = file.rows[t]
      BY <2>3 DEF RestoreAt, RowsOK
    <3> QED
      BY <3>1 DEF LeftOut
  <2>4. ASSUME file.is, file.same PROVE LeftOut = {} /\ file.true
    <3>1. /\ file.true /\ \A t \in file.man : file.data[t] \in Nat
      BY <2>4 DEF FileOK
    <3>2. \A t \in file.man : file.data[t] # Absent
      BY <3>1 DEF Absent
    <3> QED
      BY <3>1, <3>2 DEF LeftOut
  <2> QED
    BY <2>1, <2>2, <2>3, <2>4 DEF BackupsAreTrue, RestoredIsTheFile, VerdictOK
<1> QED
  BY <1>1, <1>2, <1>3, PTL DEF RestoreSpec

-----------------------------------------------------------------------------
(* Release updates.                                                        *)

\* A binary of the version kept last is on the disk; and it is where
\* nothing the update does next touches it.
LastGood(b) == bin[b] = good \/ keep[b] = good \/ <<b, good>> \in kept
Held(b) == keep[b] = good \/ <<b, good>> \in kept

\* Where no update is under way, where one is, and where the files are new.
Resting == {"off", "expire", "claim", "schema", "applying"}
InPlace == {"verify", "since", "ring", "wait"}
Aside == {"copy", "restore", "since2", "ring2", "wait2"} \union InPlace
Installing == {"fetch", "aside", "undo", "finish"} \union Aside

UpgraderShape ==
  DOMAIN upgrader = {"at", "ver", "carry", "todo", "blind", "failed", "outcome", "rolled"}

\* The shape of what the proofs follow.
ReleaseShape ==
  /\ UpgraderShape /\ DOMAIN bin = Binaries /\ DOMAIN keep = Binaries
  /\ DOMAIN rel = {"st", "to", "age", "rolled"} /\ upgrader.at \in Resting \union Installing

\* Each file is moved aside before anything is copied in, and what is put back
\* is removed from the checkpoint only when it is back.
GoodOK ==
  /\ good # 0
  /\ upgrader.at \in {"expire", "claim", "fetch", "aside"} => upgrader.rolled = FALSE
  /\ upgrader.at \in Resting \union {"fetch"} => keep = NoBinaries
  /\ upgrader.at \in Resting \union {"fetch", "finish"} => \A b \in Binaries : LastGood(b)
  /\ upgrader.at = "aside" =>
       \A b \in Binaries : IF b \in upgrader.todo THEN keep[b] = 0 /\ LastGood(b) ELSE Held(b)
  /\ upgrader.at \in Aside => \A b \in Binaries : Held(b)
  /\ upgrader.at = "undo" =>
       \A b \in Binaries :
         IF b \in upgrader.todo
         THEN Held(b) \/ (upgrader.rolled = FALSE /\ keep[b] = 0 /\ bin[b] = good)
         ELSE LastGood(b)

\* The request stays claimed while it is carried out, and the files are those of
\* its version once they have been copied.
NewOK ==
  /\ upgrader.at \in Installing =>
       rel.st = "running" /\ rel.to = upgrader.ver /\ upgrader.ver \in Versions
  /\ upgrader.at = "copy" => \A b \in Binaries \ upgrader.todo : bin[b] = upgrader.ver
  /\ upgrader.at \in InPlace => \A b \in Binaries : bin[b] = upgrader.ver
  /\ upgrader.at = "finish" /\ upgrader.outcome = "succeeded" => \A b \in Binaries : bin[b] = upgrader.ver
  /\ rel.st = "succeeded" => \A b \in Binaries : bin[b] = rel.to

ReleaseOK == ReleaseShape /\ GoodOK /\ NewOK

\* The version kept last is one that every service has reported under, or that
\* a process of another version spoke for.
WitnessOK ==
  /\ DOMAIN told = Services /\ good \in proven \union trusted
  /\ \A v : (\A s \in Services : told[s] = v) => v \in proven

\* An applier works here only in the upgrader's pass.
PassFields == {"at", "carry", "todo", "id", "to", "copied"}
PassOK ==
  /\ DOMAIN pass = Hosts /\ (\A h \in Hosts : DOMAIN pass[h] = PassFields)
  /\ pass["here"].at # "off" => upgrader.at = "applying"

\* The upgrader goes on to another of its steps and holds what it held.
LEMMA UpgraderMoves == ASSUME NEW p, UpgraderShape, UpgraderGoes(p)
                       PROVE  /\ UpgraderShape' /\ upgrader'.at = p /\ upgrader'.ver = upgrader.ver
                              /\ upgrader'.carry = upgrader.carry /\ upgrader'.todo = upgrader.todo
                              /\ upgrader'.rolled = upgrader.rolled
                              /\ upgrader'.outcome = upgrader.outcome
  BY DEF UpgraderShape, UpgraderGoes

\* The upgrader has an outcome to write down.
LEMMA UpgraderConcludes == ASSUME NEW o, NEW r, UpgraderShape, Concludes(o, r)
                           PROVE  /\ UpgraderShape' /\ upgrader'.at = "finish"
                                  /\ upgrader'.ver = upgrader.ver
                                  /\ upgrader'.carry = upgrader.carry /\ upgrader'.outcome = o
  BY DEF UpgraderShape, Concludes

\* Between the moves of files nothing is lost: the same files, the same request
\* and a step that knows no more than the one before it did.
LEMMA UpgraderWalks ==
  ASSUME ReleaseOK, UNCHANGED <<rel, onDisk, good>>, UpgraderShape', upgrader'.ver = upgrader.ver,
         \/ upgrader.at \in InPlace /\ upgrader'.at \in InPlace \union {"restore"}
         \/ /\ upgrader.at \in {"restore", "since2", "ring2"}
            /\ upgrader'.at \in {"restore", "since2", "ring2", "wait2"}
         \/ upgrader'.at = "finish" /\ upgrader'.outcome = "failed" /\ upgrader.at \in Aside \union {"fetch"}
         \/ upgrader'.at = "finish" /\ upgrader.at \in InPlace
  PROVE  ReleaseOK'
<1>1. /\ bin' = bin /\ keep' = keep /\ kept' = kept /\ rel' = rel /\ good' = good
  BY DEF onDisk
<1>2. \A b : LastGood(b)' = LastGood(b) /\ Held(b)' = Held(b) /\ (Held(b) => LastGood(b))
  BY <1>1 DEF LastGood, Held
<1>3. upgrader.at \in Installing /\ upgrader'.at \in Installing
  BY DEF Installing, Aside, InPlace
<1>4. ReleaseShape'
  BY <1>1, <1>3 DEF ReleaseOK, ReleaseShape
<1>5. GoodOK'
  BY <1>1, <1>2 DEF ReleaseOK, GoodOK, Installing, Aside, InPlace, Resting
<1>6. NewOK'
  BY <1>1, <1>3 DEF ReleaseOK, NewOK, Installing, Aside, InPlace, Resting
<1> QED
  BY <1>4, <1>5, <1>6 DEF ReleaseOK

\* Where no update is under way, whatever the upgrader does leaves the files be.
LEMMA UpgraderRests ==
  ASSUME ReleaseOK, UNCHANGED <<onDisk, good>>, upgrader.at \in Resting, upgrader'.at \in Resting,
         UpgraderShape', DOMAIN rel' = DOMAIN rel,
         upgrader'.at \in {"expire", "claim"} => upgrader'.rolled = FALSE,
         rel'.st = "succeeded" => rel.st = "succeeded" /\ rel'.to = rel.to
  PROVE  ReleaseOK'
<1>1. bin' = bin /\ keep' = keep /\ kept' = kept /\ good' = good
  BY DEF onDisk
<1>2. \A b : LastGood(b)' = LastGood(b)
  BY <1>1 DEF LastGood
<1>3. ReleaseShape'
  BY <1>1 DEF ReleaseOK, ReleaseShape
<1>4. upgrader'.at \notin Installing
  BY DEF Installing, Aside, InPlace, Resting
<1>5. GoodOK'
  BY <1>1, <1>2, <1>4 DEF ReleaseOK, GoodOK, Installing, Aside, Resting
<1>6. NewOK'
  BY <1>1, <1>4 DEF ReleaseOK, NewOK, Installing, Aside, InPlace
<1> QED
  BY <1>3, <1>5, <1>6 DEF ReleaseOK

\* A pass begins, and a request is claimed or not.
LEMMA ClaimsKeepGood == ASSUME ReleaseOK, UpgraderStart \/ ExpireStale \/ ClaimRelease \/ NothingAsked
                        PROVE  ReleaseOK'
<1>1. UpgraderShape /\ DOMAIN rel = {"st", "to", "age", "rolled"}
  BY DEF ReleaseOK, ReleaseShape
<1>2. CASE UpgraderStart
  <2>1. upgrader' = [UpgraderOff EXCEPT !.at = "expire", !.carry = bin["upgrader"]] /\ upgrader.at = "off"
    BY <1>2 DEF UpgraderStart, UpgraderAt, witnesses
  <2>2. UpgraderShape' /\ upgrader'.at = "expire" /\ upgrader'.rolled = FALSE
    BY <2>1 DEF UpgraderOff, UpgraderShape
  <2> QED
    BY <1>2, <2>1, <2>2, UpgraderRests DEF UpgraderStart, Resting, witnesses
<1>3. CASE ExpireStale
  <2>1. upgrader.at = "expire" /\ UpgraderGoes("claim")
    BY <1>3 DEF ExpireStale, UpgraderAt, witnesses
  <2>2. /\ UpgraderShape' /\ upgrader'.at = "claim" /\ upgrader'.rolled = upgrader.rolled
        /\ upgrader.rolled = FALSE
    BY <1>1, <2>1, UpgraderMoves DEF ReleaseOK, GoodOK
  <2>3. rel' = rel \/ rel' = [rel EXCEPT !.st = "failed"]
    BY <1>3 DEF ExpireStale, witnesses
  <2>4. DOMAIN rel' = DOMAIN rel /\ (rel'.st = "succeeded" => rel.st = "succeeded" /\ rel'.to = rel.to)
    BY <1>1, <2>3
  <2> QED
    BY <1>3, <2>1, <2>2, <2>4, UpgraderRests DEF ExpireStale, Resting, witnesses
<1>4. CASE NothingAsked
  <2>1. upgrader.at = "claim" /\ UpgraderGoes("schema")
    BY <1>4 DEF NothingAsked, UpgraderAt, witnesses
  <2>2. UpgraderShape' /\ upgrader'.at = "schema"
    BY <1>1, <2>1, UpgraderMoves
  <2> QED
    BY <1>4, <2>1, <2>2, UpgraderRests DEF NothingAsked, Resting, witnesses
<1>5. CASE ClaimRelease
  <2>1. upgrader.at = "claim" /\ rel' = [rel EXCEPT !.st = "running", !.age = 0]
    BY <1>5 DEF ClaimRelease, UpgraderAt, witnesses
  <2>2. DOMAIN rel' = DOMAIN rel /\ rel'.st = "running" /\ rel'.to = rel.to
    BY <1>1, <2>1
  <2>3. CASE rel.to \in Versions /\ upgrader' = [upgrader EXCEPT !.at = "fetch", !.ver = rel.to]
    <3>1. /\ UpgraderShape' /\ upgrader'.at = "fetch" /\ upgrader'.ver = rel.to
          /\ upgrader'.rolled = upgrader.rolled
      BY <1>1, <2>3 DEF UpgraderShape
    <3>2. bin' = bin /\ keep' = keep /\ kept' = kept /\ good' = good
      BY <1>5 DEF ClaimRelease, onDisk, witnesses
    <3>3. \A b : LastGood(b)' = LastGood(b)
      BY <3>2 DEF LastGood
    <3>4. GoodOK'
      BY <2>1, <3>1, <3>2, <3>3 DEF ReleaseOK, GoodOK, Resting, Aside, InPlace
    <3>5. NewOK'
      BY <2>2, <2>3, <3>1 DEF NewOK, InPlace
    <3> QED
      BY <2>2, <3>1, <3>2, <3>4, <3>5 DEF ReleaseOK, ReleaseShape, Installing
  <2>4. CASE upgrader' = [upgrader EXCEPT !.at = "schema"]
    <3>1. UpgraderShape' /\ upgrader'.at = "schema"
      BY <1>1, <2>4 DEF UpgraderShape
    <3> QED
      BY <1>5, <2>1, <2>2, <3>1, UpgraderRests DEF ClaimRelease, Resting, witnesses
  <2> QED
    BY <1>5, <2>3, <2>4 DEF ClaimRelease, witnesses
<1> QED
  BY <1>2, <1>3, <1>4, <1>5

\* What is left of a checkpoint is still on the disk.
LEMMA LeftIsKept == ASSUME ReleaseOK, NEW b \in Binaries, LastGood(b), UNCHANGED <<bin, good>>,
                           keep' = NoBinaries, kept' = kept \union Left
                    PROVE  LastGood(b)'
<1>1. good # 0
  BY DEF ReleaseOK, GoodOK
<1>2. keep[b] = good => <<b, good>> \in Left
  BY <1>1 DEF Left
<1> QED
  BY <1>2 DEF LastGood

\* The pass ends, by itself or not.
LEMMA EndsKeepGood == ASSUME ReleaseOK, FinishRelease \/ (Killed /\ ~UpgraderAt("off")) PROVE ReleaseOK'
<1>1. UpgraderShape /\ DOMAIN rel = {"st", "to", "age", "rolled"} /\ DOMAIN bin = Binaries
  BY DEF ReleaseOK, ReleaseShape
<1>2. bin' = bin /\ good' = good /\ keep' = NoBinaries /\ kept' = kept \union Left
  BY DEF FinishRelease, Killed, witnesses
<1>3. DOMAIN keep' = Binaries
  BY <1>2 DEF NoBinaries
<1>4. \A b \in Binaries : LastGood(b)
  <2> SUFFICES ASSUME NEW b \in Binaries PROVE LastGood(b)
    OBVIOUS
  <2>1. Held(b) => LastGood(b)
    BY DEF Held, LastGood
  <2>2. bin[b] = good => LastGood(b)
    BY DEF LastGood
  <2>3. upgrader.at \in Resting \union Installing
    BY DEF ReleaseOK, ReleaseShape
  <2>4. CASE upgrader.at \in Resting \union {"fetch", "finish"}
    BY <2>4 DEF ReleaseOK, GoodOK
  <2>5. CASE upgrader.at = "aside"
    BY <2>1, <2>5 DEF ReleaseOK, GoodOK
  <2>6. CASE upgrader.at \in Aside
    BY <2>1, <2>6 DEF ReleaseOK, GoodOK
  <2>7. CASE upgrader.at = "undo"
    BY <2>1, <2>2, <2>7 DEF ReleaseOK, GoodOK
  <2> QED
    BY <2>3, <2>4, <2>5, <2>6, <2>7 DEF Installing
<1>5. \A b \in Binaries : LastGood(b)'
  BY <1>2, <1>4, LeftIsKept
<1>6. ASSUME UpgraderShape', upgrader'.at \in {"schema", "off"}, DOMAIN rel' = DOMAIN rel,
             rel'.st = "succeeded" => \A b \in Binaries : bin[b] = rel'.to
      PROVE  ReleaseOK'
  <2>1. ReleaseShape'
    BY <1>1, <1>2, <1>3, <1>6 DEF ReleaseShape, Resting
  <2>2. GoodOK'
    BY <1>2, <1>5, <1>6 DEF ReleaseOK, GoodOK, Aside, InPlace
  <2>3. NewOK'
    BY <1>2, <1>6 DEF NewOK, Installing, Aside, InPlace
  <2> QED
    BY <2>1, <2>2, <2>3 DEF ReleaseOK
<1>7. CASE FinishRelease
  <2>1. upgrader.at = "finish" /\ upgrader' = [upgrader EXCEPT !.at = "schema"]
    BY <1>7 DEF FinishRelease, UpgraderAt, witnesses
  <2>2. UpgraderShape' /\ upgrader'.at = "schema"
    BY <1>1, <2>1 DEF UpgraderShape
  <2>3. rel' = rel \/ rel' = [rel EXCEPT !.st = upgrader.outcome, !.rolled = upgrader.rolled]
    BY <1>7 DEF FinishRelease, witnesses
  <2>4. rel.st = "running" /\ rel.to = upgrader.ver
    BY <2>1 DEF ReleaseOK, NewOK, Installing
  <2>5. DOMAIN rel' = DOMAIN rel /\ rel'.to = rel.to /\ (rel'.st = rel.st \/ rel'.st = upgrader.outcome)
    BY <1>1, <2>3
  <2>6. rel'.st = "succeeded" => \A b \in Binaries : bin[b] = rel'.to
    BY <2>1, <2>4, <2>5 DEF ReleaseOK, NewOK
  <2> QED
    BY <1>6, <2>2, <2>5, <2>6
<1>8. CASE Killed
  <2>1. UpgraderShape' /\ upgrader'.at = "off" /\ rel' = rel
    BY <1>8 DEF Killed, UpgraderOff, UpgraderShape, witnesses
  <2>2. rel.st = "succeeded" => \A b \in Binaries : bin[b] = rel.to
    BY DEF ReleaseOK, NewOK
  <2> QED
    BY <1>6, <2>1, <2>2
<1> QED
  BY <1>7, <1>8

\* The steps between two moves of files.
LEMMA WalksKeepGood ==
  ASSUME ReleaseOK, \/ CarryOutFails \/ Since("since", "ring") \/ RingFor("ring", "wait", FALSE)
                    \/ BinariesRestored \/ Since("since2", "ring2") \/ RingFor("ring2", "wait2", TRUE)
                    \/ HealthyAgain
  PROVE  ReleaseOK'
<1>1. UpgraderShape
  BY DEF ReleaseOK, ReleaseShape
<1>2. UNCHANGED <<rel, onDisk, good>>
  BY DEF CarryOutFails, Since, RingFor, BinariesRestored, HealthyAgain, witnesses
<1>3. ASSUME NEW from, NEW to, Since(from, to)
      PROVE  /\ UpgraderShape' /\ upgrader'.ver = upgrader.ver
             /\ upgrader.at = from /\ upgrader'.at = to
  <2>1. PICK x : upgrader' = [upgrader EXCEPT !.at = to, !.blind = x]
    BY <1>3 DEF Since
  <2>2. UpgraderShape' /\ upgrader'.ver = upgrader.ver /\ upgrader'.at = to
    BY <1>1, <2>1 DEF UpgraderShape
  <2> QED
    BY <1>3, <2>2 DEF Since, UpgraderAt
<1>4. ASSUME NEW from, NEW to, NEW r, RingFor(from, to, r)
      PROVE  /\ UpgraderShape' /\ upgrader'.ver = upgrader.ver /\ upgrader.at = from
             /\ upgrader'.at = to \/ (upgrader'.at = "finish" /\ upgrader'.outcome = "failed")
  <2>1. upgrader.at = from /\ (UpgraderGoes(to) \/ Concludes("failed", r))
    BY <1>4 DEF RingFor, UpgraderAt
  <2>2. CASE UpgraderGoes(to)
    BY <1>1, <2>1, <2>2, UpgraderMoves
  <2>3. CASE Concludes("failed", r)
    BY <1>1, <2>1, <2>3, UpgraderConcludes
  <2> QED
    BY <2>1, <2>2, <2>3
<1>5. CASE CarryOutFails
  <2>1. upgrader.at = "fetch" /\ Concludes("failed", FALSE)
    BY <1>5 DEF CarryOutFails, UpgraderAt, witnesses
  <2>2. UpgraderShape' /\ upgrader'.at = "finish" /\ upgrader'.ver = upgrader.ver
        /\ upgrader'.outcome = "failed"
    BY <1>1, <2>1, UpgraderConcludes
  <2> QED
    BY <1>2, <2>1, <2>2, UpgraderWalks
<1>6. CASE Since("since", "ring") \/ Since("since2", "ring2")
  <2>1. /\ UpgraderShape' /\ upgrader'.ver = upgrader.ver
        /\ \/ upgrader.at = "since" /\ upgrader'.at = "ring"
           \/ upgrader.at = "since2" /\ upgrader'.at = "ring2"
    BY <1>3, <1>6
  <2> QED
    BY <1>2, <2>1, UpgraderWalks DEF InPlace
<1>7. CASE RingFor("ring", "wait", FALSE) \/ RingFor("ring2", "wait2", TRUE)
  <2>1. /\ UpgraderShape' /\ upgrader'.ver = upgrader.ver
        /\ \/ upgrader.at = "ring" /\ upgrader'.at = "wait"
           \/ upgrader.at = "ring2" /\ upgrader'.at = "wait2"
           \/ upgrader.at \in {"ring", "ring2"} /\ upgrader'.at = "finish" /\ upgrader'.outcome = "failed"
    BY <1>4, <1>7
  <2> QED
    BY <1>2, <2>1, UpgraderWalks DEF InPlace, Aside
<1>8. CASE BinariesRestored
  <2>1. upgrader.at = "restore" /\ (UpgraderGoes("since2") \/ Concludes("failed", FALSE))
    BY <1>8 DEF BinariesRestored, UpgraderAt
  <2>2. CASE UpgraderGoes("since2")
    <3>1. UpgraderShape' /\ upgrader'.ver = upgrader.ver /\ upgrader'.at = "since2"
      BY <1>1, <2>2, UpgraderMoves
    <3> QED
      BY <1>2, <2>1, <3>1, UpgraderWalks
  <2>3. CASE Concludes("failed", FALSE)
    <3>1. /\ UpgraderShape' /\ upgrader'.ver = upgrader.ver /\ upgrader'.at = "finish"
          /\ upgrader'.outcome = "failed"
      BY <1>1, <2>3, UpgraderConcludes
    <3> QED
      BY <1>2, <2>1, <3>1, UpgraderWalks DEF Aside
  <2> QED
    BY <2>1, <2>2, <2>3
<1>9. CASE HealthyAgain
  <2>1. upgrader.at = "wait2" /\ Concludes("failed", TRUE)
    BY <1>9 DEF HealthyAgain, UpgraderAt
  <2>2. /\ UpgraderShape' /\ upgrader'.ver = upgrader.ver /\ upgrader'.at = "finish"
        /\ upgrader'.outcome = "failed"
    BY <1>1, <2>1, UpgraderConcludes
  <2> QED
    BY <1>2, <2>1, <2>2, UpgraderWalks DEF Aside
<1> QED
  BY <1>5, <1>6, <1>7, <1>8, <1>9

\* What is fetched is moved in, file by file; or what was moved is put back.
LEMMA InstallKeepsGood ==
  ASSUME ReleaseOK, Fetched \/ AsideFails \/ VerifyInstall \/ \E b \in Binaries : MoveAside(b) \/ CopyIn(b)
  PROVE  ReleaseOK'
<1>1. UpgraderShape /\ DOMAIN bin = Binaries /\ DOMAIN keep = Binaries
  BY DEF ReleaseOK, ReleaseShape
<1>2. \A b : Held(b) => LastGood(b)
  BY DEF Held, LastGood
<1>3. CASE Fetched
  <2>1. upgrader.at = "fetch" /\ upgrader' = [upgrader EXCEPT !.at = "aside", !.todo = Binaries]
    BY <1>3 DEF Fetched, UpgraderAt, witnesses
  <2>2. /\ UpgraderShape' /\ upgrader'.at = "aside" /\ upgrader'.todo = Binaries
        /\ upgrader'.ver = upgrader.ver /\ upgrader'.rolled = upgrader.rolled
    BY <1>1, <2>1 DEF UpgraderShape
  <2>3. bin' = bin /\ keep' = keep /\ kept' = kept /\ good' = good /\ rel' = rel
    BY <1>3 DEF Fetched, onDisk, witnesses
  <2>4. \A b \in Binaries : LastGood(b)' /\ keep[b] = 0
    <3>1. keep = NoBinaries /\ \A b \in Binaries : LastGood(b)
      BY <2>1 DEF ReleaseOK, GoodOK
    <3> QED
      BY <2>3, <3>1 DEF LastGood, NoBinaries
  <2>5. GoodOK'
    BY <2>1, <2>2, <2>3, <2>4 DEF ReleaseOK, GoodOK, Resting, Aside, InPlace
  <2>6. NewOK'
    BY <2>1, <2>2, <2>3 DEF ReleaseOK, NewOK, Installing, Aside, InPlace
  <2> QED
    BY <2>2, <2>3, <2>5, <2>6 DEF ReleaseOK, ReleaseShape, Installing
<1>4. CASE AsideFails
  <2>1. upgrader.at = "aside" /\ upgrader' = [upgrader EXCEPT !.at = "undo", !.todo = Binaries]
    BY <1>4 DEF AsideFails, UpgraderAt, witnesses
  <2>2. /\ UpgraderShape' /\ upgrader'.at = "undo" /\ upgrader'.todo = Binaries
        /\ upgrader'.ver = upgrader.ver /\ upgrader'.rolled = FALSE
    BY <1>1, <2>1 DEF UpgraderShape, ReleaseOK, GoodOK
  <2>3. bin' = bin /\ keep' = keep /\ kept' = kept /\ good' = good /\ rel' = rel
    BY <1>4 DEF AsideFails, onDisk, witnesses
  <2>4. \A b \in Binaries : Held(b)' \/ (keep'[b] = 0 /\ bin'[b] = good')
    <3>1. good # 0
            /\ \A b \in Binaries : IF b \in upgrader.todo THEN keep[b] = 0 /\ LastGood(b) ELSE Held(b)
      BY <2>1 DEF ReleaseOK, GoodOK
    <3> QED
      BY <2>3, <3>1 DEF LastGood, Held
  <2>5. GoodOK'
    BY <2>2, <2>3, <2>4 DEF ReleaseOK, GoodOK, Resting, Aside, InPlace
  <2>6. NewOK'
    BY <2>1, <2>2, <2>3 DEF ReleaseOK, NewOK, Installing, Aside, InPlace
  <2> QED
    BY <2>2, <2>3, <2>5, <2>6 DEF ReleaseOK, ReleaseShape, Installing
\* From here on every file of the last good version is held.
<1>5. ASSUME upgrader.at \in Aside, UNCHANGED <<rel, onDisk, good>>, UpgraderShape',
             upgrader'.at = "undo", upgrader'.todo = Binaries, upgrader'.ver = upgrader.ver
      PROVE  ReleaseOK'
  <2>1. bin' = bin /\ keep' = keep /\ kept' = kept /\ good' = good /\ rel' = rel
    BY <1>5 DEF onDisk
  <2>2. \A b \in Binaries : Held(b)'
    BY <1>5, <2>1 DEF ReleaseOK, GoodOK, Held
  <2>3. GoodOK'
    BY <1>5, <2>1, <2>2 DEF ReleaseOK, GoodOK, Resting, Aside, InPlace
  <2>4. NewOK'
    BY <1>5, <2>1 DEF ReleaseOK, NewOK, Installing, Aside, InPlace
  <2> QED
    BY <1>5, <2>1, <2>3, <2>4 DEF ReleaseOK, ReleaseShape, Installing
<1>6. CASE VerifyInstall
  <2>1. /\ upgrader.at = "verify" /\ UNCHANGED <<rel, onDisk, good>>
        /\ \/ UpgraderGoes("since") \/ Concludes("succeeded", FALSE)
           \/ upgrader' = [upgrader EXCEPT !.at = "undo", !.todo = Binaries, !.rolled = TRUE]
    BY <1>6 DEF VerifyInstall, UpgraderAt, witnesses
  <2>2. CASE UpgraderGoes("since")
    <3>1. UpgraderShape' /\ upgrader'.ver = upgrader.ver /\ upgrader'.at = "since"
      BY <1>1, <2>2, UpgraderMoves
    <3> QED
      BY <2>1, <3>1, UpgraderWalks DEF InPlace
  <2>3. CASE Concludes("succeeded", FALSE)
    <3>1. UpgraderShape' /\ upgrader'.ver = upgrader.ver /\ upgrader'.at = "finish"
      BY <1>1, <2>3, UpgraderConcludes
    <3> QED
      BY <2>1, <3>1, UpgraderWalks DEF InPlace
  <2>4. CASE upgrader' = [upgrader EXCEPT !.at = "undo", !.todo = Binaries, !.rolled = TRUE]
    <3>1. /\ UpgraderShape' /\ upgrader'.at = "undo" /\ upgrader'.todo = Binaries
          /\ upgrader'.ver = upgrader.ver
      BY <1>1, <2>4 DEF UpgraderShape
    <3> QED
      BY <1>5, <2>1, <3>1 DEF Aside, InPlace
  <2> QED
    BY <2>1, <2>2, <2>3, <2>4
<1>7. ASSUME NEW b \in Binaries, MoveAside(b) PROVE ReleaseOK'
  <2>1. /\ upgrader.at = "aside" /\ b \in upgrader.todo
        /\ keep' = [keep EXCEPT ![b] = bin[b]] /\ bin' = [bin EXCEPT ![b] = 0]
        /\ kept' = kept /\ good' = good /\ rel' = rel
    BY <1>7 DEF MoveAside, UpgraderAt, witnesses
  <2>2. /\ good # 0 /\ upgrader.rolled = FALSE
        /\ \A c \in Binaries : IF c \in upgrader.todo THEN keep[c] = 0 /\ LastGood(c) ELSE Held(c)
    BY <2>1 DEF ReleaseOK, GoodOK
  <2>3. Held(b)'
    BY <1>1, <2>1, <2>2 DEF Held, LastGood
  <2>4. \A c \in Binaries \ {b} : /\ LastGood(c) => LastGood(c)'
                                  /\ Held(c) => Held(c)'
                                  /\ keep'[c] = keep[c]
    BY <1>1, <2>1 DEF Held, LastGood
  <2>5. rel.st = "running" /\ rel.to = upgrader.ver /\ upgrader.ver \in Versions
    BY <2>1 DEF ReleaseOK, NewOK, Installing
  <2>6. CASE upgrader.todo = {b} /\ upgrader' = [upgrader EXCEPT !.at = "copy", !.todo = Binaries]
    <3>1. /\ UpgraderShape' /\ upgrader'.at = "copy" /\ upgrader'.todo = Binaries
          /\ upgrader'.ver = upgrader.ver
      BY <1>1, <2>6 DEF UpgraderShape
    <3>2. \A c \in Binaries : Held(c)'
      BY <2>2, <2>3, <2>4, <2>6
    <3>3. GoodOK'
      BY <2>1, <2>2, <3>1, <3>2 DEF GoodOK, Resting
    <3>4. NewOK'
      BY <2>1, <2>5, <3>1 DEF NewOK, InPlace
    <3> QED
      BY <1>1, <2>1, <3>1, <3>3, <3>4 DEF ReleaseOK, ReleaseShape, Installing, Aside
  <2>7. CASE upgrader' = [upgrader EXCEPT !.todo = @ \ {b}]
    <3>1. /\ UpgraderShape' /\ upgrader'.at = "aside" /\ upgrader'.todo = upgrader.todo \ {b}
          /\ upgrader'.ver = upgrader.ver /\ upgrader'.rolled = FALSE
      BY <1>1, <2>1, <2>2, <2>7 DEF UpgraderShape
    <3>2. \A c \in Binaries : IF c \in upgrader'.todo THEN keep'[c] = 0 /\ LastGood(c)' ELSE Held(c)'
      BY <2>2, <2>3, <2>4, <3>1
    <3>3. GoodOK'
      BY <2>1, <2>2, <3>1, <3>2 DEF GoodOK, Resting, Aside, InPlace
    <3>4. NewOK'
      BY <2>1, <2>5, <3>1 DEF NewOK, InPlace
    <3> QED
      BY <1>1, <2>1, <3>1, <3>3, <3>4 DEF ReleaseOK, ReleaseShape, Installing
  <2> QED
    BY <1>7, <2>6, <2>7 DEF MoveAside, witnesses
<1>8. ASSUME NEW b \in Binaries, CopyIn(b) PROVE ReleaseOK'
  <2>1. /\ upgrader.at = "copy" /\ b \in upgrader.todo
        /\ keep' = keep /\ kept' = kept /\ good' = good /\ rel' = rel
    BY <1>8 DEF CopyIn, UpgraderAt, witnesses
  <2>2. CASE CopyFails(b) /\ UNCHANGED bin
    <3>1. /\ UpgraderShape' /\ upgrader'.at = "undo" /\ upgrader'.todo = Binaries
          /\ upgrader'.ver = upgrader.ver
      BY <1>1, <2>2 DEF UpgraderShape, CopyFails
    <3> QED
      BY <1>5, <2>1, <2>2, <3>1 DEF Aside, onDisk
  <2>3. CASE /\ bin' = [bin EXCEPT ![b] = upgrader.ver]
             /\ upgrader' = [upgrader EXCEPT !.todo = @ \ {b}, !.at = IF upgrader.todo = {b} THEN "verify" ELSE @]
    <3>1. /\ UpgraderShape' /\ upgrader'.at = (IF upgrader.todo = {b} THEN "verify" ELSE "copy")
          /\ upgrader'.todo = upgrader.todo \ {b} /\ upgrader'.ver = upgrader.ver
      BY <1>1, <2>1, <2>3 DEF UpgraderShape
    <3>2. \A c \in Binaries : Held(c)'
      BY <2>1 DEF ReleaseOK, GoodOK, Held, Aside
    <3>3. rel.st = "running" /\ rel.to = upgrader.ver /\ upgrader.ver \in Versions
          /\ \A c \in Binaries \ upgrader.todo : bin[c] = upgrader.ver
      BY <2>1 DEF ReleaseOK, NewOK, Installing, Aside
    <3>4. \A c \in Binaries \ (upgrader.todo \ {b}) : bin'[c] = upgrader.ver
      BY <1>1, <2>3, <3>3
    <3>5. upgrader'.at \in {"verify", "copy"} /\ good' # 0
      BY <2>1, <3>1 DEF ReleaseOK, GoodOK
    <3>6. GoodOK'
      BY <3>2, <3>5 DEF GoodOK, Resting
    <3>7. upgrader'.at = "verify" => \A c \in Binaries : bin'[c] = upgrader.ver
      BY <3>1, <3>4
    <3>8. NewOK'
      BY <2>1, <3>1, <3>3, <3>4, <3>5, <3>7 DEF NewOK, InPlace
    <3> QED
      BY <1>1, <2>1, <2>3, <3>1, <3>5, <3>6, <3>8 DEF ReleaseOK, ReleaseShape, Installing, Aside, InPlace
  <2> QED
    BY <1>8, <2>2, <2>3 DEF CopyIn, witnesses
<1> QED
  BY <1>3, <1>4, <1>6, <1>7, <1>8

\* What was moved aside comes back, by one way or the other, and is forgotten
\* only when the services have reported under what replaced it.
LEMMA ReturnKeepsGood ==
  ASSUME ReleaseOK, Healthy \/ \E b \in Binaries : rollback(b) \/ Restore(b)
  PROVE  ReleaseOK'
<1>1. UpgraderShape /\ DOMAIN bin = Binaries /\ DOMAIN keep = Binaries
  BY DEF ReleaseOK, ReleaseShape
<1>2. CASE Healthy
  <2>1. upgrader.at = "wait" /\ rel' = rel /\ bin' = bin /\ kept' = kept
    BY <1>2 DEF Healthy, UpgraderAt, witnesses
  <2>2. rel.st = "running" /\ rel.to = upgrader.ver /\ upgrader.ver \in Versions
        /\ \A b \in Binaries : bin[b] = upgrader.ver
    BY <2>1 DEF ReleaseOK, NewOK, Installing, Aside, InPlace
  <2>3. CASE Concludes("succeeded", FALSE) /\ good' = upgrader.ver /\ keep' \in {NoBinaries, keep}
    <3>1. /\ UpgraderShape' /\ upgrader'.at = "finish" /\ upgrader'.ver = upgrader.ver
      BY <1>1, <2>3, UpgraderConcludes
    <3>2. good' # 0 /\ \A b \in Binaries : LastGood(b)'
      BY <2>1, <2>2, <2>3, ReleaseAssumption DEF LastGood
    <3>3. GoodOK'
      BY <3>1, <3>2 DEF GoodOK, Resting, Aside, InPlace
    <3>4. NewOK'
      BY <2>1, <2>2, <3>1 DEF NewOK, InPlace
    <3>5. DOMAIN keep' = Binaries
      BY <1>1, <2>3 DEF NoBinaries
    <3> QED
      BY <1>1, <2>1, <3>1, <3>3, <3>4, <3>5 DEF ReleaseOK, ReleaseShape, Installing
  <2>4. CASE upgrader' = [upgrader EXCEPT !.at = "restore", !.todo = Binaries] /\ UNCHANGED good
             /\ keep' = keep
    <3>1. UpgraderShape' /\ upgrader'.at = "restore" /\ upgrader'.ver = upgrader.ver
      BY <1>1, <2>4 DEF UpgraderShape
    <3> QED
      BY <2>1, <2>4, <3>1, UpgraderWalks DEF InPlace, onDisk
  <2>5. CASE Concludes("failed", FALSE) /\ UNCHANGED good /\ keep' = keep
    <3>1. UpgraderShape' /\ upgrader'.at = "finish" /\ upgrader'.ver = upgrader.ver
      BY <1>1, <2>5, UpgraderConcludes
    <3> QED
      BY <2>1, <2>5, <3>1, UpgraderWalks DEF InPlace, onDisk
  <2> QED
    BY <1>2, <2>3, <2>4, <2>5 DEF Healthy, Forgets, witnesses
<1>3. ASSUME NEW b \in Binaries, rollback(b) PROVE ReleaseOK'
  <2>1. /\ upgrader.at = "undo" /\ b \in upgrader.todo
        /\ kept' = kept /\ good' = good /\ rel' = rel
    BY <1>3 DEF rollback, UpgraderAt, witnesses
  <2>2. /\ good # 0
        /\ \A c \in Binaries : IF c \in upgrader.todo
                               THEN Held(c) \/ (upgrader.rolled = FALSE /\ keep[c] = 0 /\ bin[c] = good)
                               ELSE LastGood(c)
    BY <2>1 DEF ReleaseOK, GoodOK
  <2>3. \/ /\ keep[b] # 0 /\ bin' = [bin EXCEPT ![b] = keep[b]] /\ keep' = [keep EXCEPT ![b] = 0]
        \/ /\ keep[b] # 0 /\ bin' = [bin EXCEPT ![b] = 0] /\ keep' = keep
        \/ /\ keep[b] = 0 /\ upgrader.rolled /\ bin' = [bin EXCEPT ![b] = 0] /\ keep' = keep
        \/ /\ keep[b] = 0 /\ ~upgrader.rolled /\ bin' = [bin EXCEPT ![b] = bin[b]] /\ keep' = keep
    BY <1>3 DEF rollback, witnesses
  <2>4. LastGood(b)'
    <3>1. CASE keep[b] # 0
      BY <1>1, <2>1, <2>2, <2>3, <3>1 DEF Held, LastGood
    <3>2. CASE keep[b] = 0 /\ upgrader.rolled
      <4>1. Held(b)
        BY <2>1, <2>2, <3>2
      <4> QED
        BY <2>1, <2>2, <3>2, <4>1 DEF Held, LastGood
    <3>3. CASE keep[b] = 0 /\ ~upgrader.rolled
      <4>1. bin'[b] = bin[b]
        BY <1>1, <2>3, <3>3
      <4> QED
        BY <2>1, <2>2, <3>3, <4>1 DEF Held, LastGood
    <3> QED
      BY <3>1, <3>2, <3>3
  <2>5. \A c \in Binaries \ {b} : bin'[c] = bin[c] /\ keep'[c] = keep[c]
    BY <1>1, <2>3
  <2>6. DOMAIN bin' = Binaries /\ DOMAIN keep' = Binaries
    BY <1>1, <2>3
  <2>7. \A c \in Binaries \ {b} : (LastGood(c) => LastGood(c)') /\ (Held(c) => Held(c)')
    BY <2>1, <2>5 DEF LastGood, Held
  <2>8. rel.st = "running" /\ rel.to = upgrader.ver /\ upgrader.ver \in Versions
    BY <2>1 DEF ReleaseOK, NewOK, Installing
  <2>9. CASE upgrader.todo = {b} /\ upgrader' = [upgrader EXCEPT !.at = "finish", !.todo = {}, !.outcome = "failed"]
    <3>1. /\ UpgraderShape' /\ upgrader'.at = "finish" /\ upgrader'.ver = upgrader.ver
          /\ upgrader'.outcome = "failed"
      BY <1>1, <2>9 DEF UpgraderShape
    <3>2. \A c \in Binaries : LastGood(c)'
      BY <2>2, <2>4, <2>7, <2>9
    <3>3. GoodOK'
      BY <2>1, <2>2, <3>1, <3>2 DEF GoodOK, Resting, Aside, InPlace
    <3>4. NewOK'
      BY <2>1, <2>8, <3>1 DEF NewOK, InPlace
    <3> QED
      BY <2>1, <2>6, <3>1, <3>3, <3>4 DEF ReleaseOK, ReleaseShape, Installing
  <2>10. CASE upgrader' = [upgrader EXCEPT !.todo = @ \ {b}]
    <3>1. /\ UpgraderShape' /\ upgrader'.at = "undo" /\ upgrader'.ver = upgrader.ver
          /\ upgrader'.todo = upgrader.todo \ {b} /\ upgrader'.rolled = upgrader.rolled
      BY <1>1, <2>1, <2>10 DEF UpgraderShape
    <3>2. \A c \in Binaries :
            IF c \in upgrader'.todo
            THEN Held(c)' \/ (upgrader'.rolled = FALSE /\ keep'[c] = 0 /\ bin'[c] = good')
            ELSE LastGood(c)'
      BY <2>1, <2>2, <2>4, <2>5, <2>7, <3>1
    <3>3. GoodOK'
      BY <2>1, <2>2, <3>1, <3>2 DEF GoodOK, Resting, Aside, InPlace
    <3>4. NewOK'
      BY <2>1, <2>8, <3>1 DEF NewOK, InPlace
    <3> QED
      BY <1>1, <2>1, <2>6, <3>1, <3>3, <3>4 DEF ReleaseOK, ReleaseShape, Installing
  <2> QED
    BY <1>3, <2>9, <2>10 DEF rollback, witnesses
<1>4. ASSUME NEW b \in Binaries, Restore(b) PROVE ReleaseOK'
  <2>1. /\ upgrader.at = "restore" /\ keep' = keep /\ kept' = kept /\ good' = good /\ rel' = rel
        /\ bin' = bin \/ bin' = [bin EXCEPT ![b] = keep[b]]
    BY <1>4 DEF Restore, UpgraderAt, witnesses
  <2>2. UpgraderShape' /\ upgrader'.at = "restore" /\ upgrader'.ver = upgrader.ver
    <3>1. ASSUME NEW r, r = [upgrader EXCEPT !.todo = @ \ {b}]
          PROVE  /\ DOMAIN r = DOMAIN upgrader /\ r.at = upgrader.at /\ r.ver = upgrader.ver
                 /\ DOMAIN [r EXCEPT !.failed = TRUE] = DOMAIN upgrader
                 /\ [r EXCEPT !.failed = TRUE].at = upgrader.at
                 /\ [r EXCEPT !.failed = TRUE].ver = upgrader.ver
      BY <1>1, <3>1 DEF UpgraderShape
    <3> DEFINE rest == [upgrader EXCEPT !.todo = @ \ {b}]
    <3>2. upgrader' = rest \/ upgrader' = [rest EXCEPT !.failed = TRUE]
      BY <1>4 DEF Restore, witnesses
    <3> HIDE DEF rest
    <3>3. /\ DOMAIN rest = DOMAIN upgrader /\ rest.at = upgrader.at /\ rest.ver = upgrader.ver
          /\ DOMAIN [rest EXCEPT !.failed = TRUE] = DOMAIN upgrader
          /\ [rest EXCEPT !.failed = TRUE].at = upgrader.at
          /\ [rest EXCEPT !.failed = TRUE].ver = upgrader.ver
      BY <3>1 DEF rest
    <3> QED
      BY <1>1, <2>1, <3>2, <3>3 DEF UpgraderShape
  <2>3. good # 0 /\ \A c \in Binaries : Held(c)
    BY <2>1 DEF ReleaseOK, GoodOK, Aside
  <2>4. GoodOK'
    BY <2>1, <2>2, <2>3 DEF GoodOK, Held, Resting
  <2>5. rel.st = "running" /\ rel.to = upgrader.ver /\ upgrader.ver \in Versions
    BY <2>1 DEF ReleaseOK, NewOK, Installing, Aside
  <2>6. NewOK'
    BY <2>1, <2>2, <2>5 DEF NewOK, InPlace
  <2>7. DOMAIN bin' = Binaries
    BY <1>1, <2>1
  <2> QED
    BY <1>1, <2>1, <2>2, <2>4, <2>6, <2>7 DEF ReleaseOK, ReleaseShape, Installing, Aside
<1> QED
  BY <1>2, <1>3, <1>4

\* What happens beside the upgrader: a request, a restart, a heartbeat, time.
LEMMA WorldKeepsGood ==
  ASSUME ReleaseOK, UNCHANGED <<onDisk, upgrader, good>>,
         \/ rel' = rel
         \/ ~Pending(rel) /\ \E v : rel' = [NoRelease EXCEPT !.st = "pending", !.to = v]
         \/ \E n : rel' = Older(rel, n)
  PROVE  ReleaseOK'
<1>1. bin' = bin /\ keep' = keep /\ kept' = kept /\ good' = good /\ upgrader' = upgrader
  BY DEF onDisk
<1>2. \A b : LastGood(b)' = LastGood(b) /\ Held(b)' = Held(b)
  BY <1>1 DEF LastGood, Held
<1>3. GoodOK'
  BY <1>1, <1>2 DEF ReleaseOK, GoodOK
<1>4. CASE rel' = rel
  <2>1. ReleaseShape'
    BY <1>1, <1>4 DEF ReleaseOK, ReleaseShape, UpgraderShape
  <2>2. NewOK'
    BY <1>1, <1>4 DEF ReleaseOK, NewOK
  <2> QED
    BY <1>3, <2>1, <2>2 DEF ReleaseOK
<1>5. CASE ~Pending(rel) /\ \E v : rel' = [NoRelease EXCEPT !.st = "pending", !.to = v]
  <2>1. DOMAIN rel' = {"st", "to", "age", "rolled"} /\ rel'.st = "pending"
    BY <1>5 DEF NoRelease
  <2>2. rel.st # "running"
    BY <1>5 DEF Pending
  <2>3. upgrader.at \notin Installing
    BY <2>2 DEF ReleaseOK, NewOK
  <2>4. NewOK'
    BY <1>1, <2>1, <2>3 DEF NewOK, Installing, Aside
  <2>5. ReleaseShape'
    BY <1>1, <2>1 DEF ReleaseOK, ReleaseShape, UpgraderShape
  <2> QED
    BY <1>3, <2>4, <2>5 DEF ReleaseOK
<1>6. CASE \E n : rel' = Older(rel, n)
  <2>1. DOMAIN rel = {"st", "to", "age", "rolled"}
    BY DEF ReleaseOK, ReleaseShape
  <2>2. PICK n, a : rel' = [rel EXCEPT !.age = a]
    BY <1>6 DEF Older
  <2>3. DOMAIN rel' = DOMAIN rel /\ rel'.st = rel.st /\ rel'.to = rel.to
    BY <2>1, <2>2
  <2>4. ReleaseShape'
    BY <1>1, <2>3 DEF ReleaseOK, ReleaseShape, UpgraderShape
  <2>5. NewOK'
    BY <1>1, <2>3 DEF ReleaseOK, NewOK
  <2> QED
    BY <1>3, <2>4, <2>5 DEF ReleaseOK
<1> QED
  BY <1>4, <1>5, <1>6

\* A step of an applier, told by what it makes of the upgrader here.
LEMMA ApplierSteps ==
  ASSUME UpgraderShape, PassOK, NEW h \in Hosts, SchemaStep(h)
  PROVE  /\ UNCHANGED <<rel, onDisk, installation, witnesses>> /\ UpgraderShape'
         /\ \/ UNCHANGED upgrader
            \/ upgrader.at = "schema" /\ upgrader'.at = "applying"
            \/ upgrader.at = "applying" /\ upgrader'.at = "off"
<1>1. \/ UNCHANGED upgrader
      \/ h = "here" /\ pass[h].at # "off" /\ upgrader' = UpgraderOff
      \/ UpgraderAt("schema") /\ UpgraderGoes("applying")
  BY DEF SchemaStep, ReleaseStaleClaims, ClaimUpgrade, CheckFingerprint, backUp, EnterSchema, ApplyFile,
         Requeue, ApplyFails, recordOn, FinishUpgrade, OtherCrash, Ends, Leaves, PassGoes, PassAt
<1>2. UNCHANGED <<rel, onDisk, installation, witnesses>>
  BY DEF SchemaStep, ReleaseStaleClaims, ClaimUpgrade, CheckFingerprint, backUp, EnterSchema, ApplyFile,
         Requeue, ApplyFails, recordOn, FinishUpgrade, OtherCrash, Rest
<1>3. CASE UNCHANGED upgrader
  BY <1>2, <1>3 DEF UpgraderShape
<1>4. CASE h = "here" /\ pass[h].at # "off" /\ upgrader' = UpgraderOff
  BY <1>2, <1>4 DEF PassOK, UpgraderOff, UpgraderShape
<1>5. CASE UpgraderAt("schema") /\ UpgraderGoes("applying")
  BY <1>2, <1>5, UpgraderMoves DEF UpgraderAt
<1> QED
  BY <1>1, <1>3, <1>4, <1>5

\* The schema's part of the pass moves no binary.
LEMMA SchemaKeepsGood == ASSUME ReleaseOK, PassOK, NEW h \in Hosts, SchemaStep(h) PROVE ReleaseOK'
<1>1. UpgraderShape
  BY DEF ReleaseOK, ReleaseShape
<1>2. /\ UNCHANGED <<rel, onDisk, good>> /\ UpgraderShape'
      /\ \/ UNCHANGED upgrader
         \/ upgrader.at = "schema" /\ upgrader'.at = "applying"
         \/ upgrader.at = "applying" /\ upgrader'.at = "off"
  BY <1>1, ApplierSteps DEF witnesses
<1>3. CASE UNCHANGED upgrader
  BY <1>2, <1>3, WorldKeepsGood
<1>4. CASE upgrader.at \in {"schema", "applying"} /\ upgrader'.at \in {"applying", "off"}
  BY <1>2, <1>4, UpgraderRests DEF Resting
<1> QED
  BY <1>2, <1>3, <1>4

\* The whole of it, one step further.
LEMMA ReleaseKept == ReleaseOK /\ PassOK /\ [UpgradeNext]_upgradeVars => ReleaseOK'
<1> SUFFICES ASSUME ReleaseOK, PassOK, [UpgradeNext]_upgradeVars PROVE ReleaseOK'
  OBVIOUS
<1>1. CASE UpgraderPass
  <2>1. CASE InstallStep
    BY <2>1, ClaimsKeepGood, EndsKeepGood, WalksKeepGood, InstallKeepsGood, ReturnKeepsGood
       DEF InstallStep
  <2> QED
    BY <1>1, <2>1, ClaimsKeepGood DEF UpgraderPass
<1>2. CASE \E h \in Hosts : SchemaStep(h)
  BY <1>2, SchemaKeepsGood
<1>3. CASE UpgraderCrash
  BY <1>3, EndsKeepGood DEF UpgraderCrash
<1>4. CASE \E v \in Versions : QueueUpgrade(v)
  BY <1>4, WorldKeepsGood DEF QueueUpgrade, witnesses
<1>5. CASE UpgradeTick
  BY <1>5, WorldKeepsGood DEF UpgradeTick, witnesses
<1>6. CASE AskByHand \/ \E v \in Versions : QueueRelease(v)
  <2>1. PICK v : AskRelease(v)
    BY <1>6 DEF AskByHand, QueueRelease
  <2> QED
    BY <2>1, WorldKeepsGood DEF AskRelease, witnesses
<1>7. CASE WorldStep
  BY <1>7, WorldKeepsGood DEF WorldStep, RestartScript, ServiceStops, StartUnit, Beat, witnesses
<1>8. CASE UNCHANGED upgradeVars
  BY <1>8, WorldKeepsGood DEF upgradeVars, rvars, installation, witnesses
<1> QED
  BY <1>1, <1>2, <1>3, <1>4, <1>5, <1>6, <1>7, <1>8 DEF UpgradeNext

\* A heartbeat is the only step that tells of a version, and what the upgrader
\* keeps is told of by every service, or by the word of another's process.
LEMMA WitnessKept == ReleaseOK /\ PassOK /\ WitnessOK /\ [UpgradeNext]_upgradeVars => WitnessOK'
<1> SUFFICES ASSUME ReleaseOK, PassOK, WitnessOK, [UpgradeNext]_upgradeVars PROVE WitnessOK'
  OBVIOUS
<1>1. ASSUME UNCHANGED witnesses PROVE WitnessOK'
  BY <1>1 DEF WitnessOK, witnesses
<1>2. CASE Healthy
  <2>1. UNCHANGED <<told, proven>>
    BY <1>2 DEF Healthy
  <2>2. CASE UNCHANGED <<good, trusted>>
    BY <1>1, <2>1, <2>2 DEF witnesses
  <2>3. CASE good' = upgrader.ver /\ Believes(upgrader.ver)
    <3>1. trusted' = IF \A s \in Services : told[s] = upgrader.ver THEN trusted
                     ELSE trusted \union {upgrader.ver}
      BY <2>3 DEF Believes
    <3>2. good' \in proven' \union trusted'
      BY <2>1, <2>3, <3>1 DEF WitnessOK
    <3> QED
      BY <2>1, <3>2 DEF WitnessOK
  <2> QED
    BY <1>2, <2>2, <2>3 DEF Healthy
<1>3. CASE \E s \in Services : Beat(s)
  <2>1. PICK s \in Services : Beat(s)
    BY <1>3
  <2>2. /\ told' = [told EXCEPT ![s] = running[s]] /\ UNCHANGED <<trusted, good>>
        /\ proven' = IF \A t \in Services : told'[t] = running[s] THEN proven \union {running[s]} ELSE proven
    BY <2>1 DEF Beat
  <2>3. DOMAIN told' = Services /\ told'[s] = running[s] /\ good' \in proven' \union trusted'
    BY <2>2 DEF WitnessOK
  <2>4. ASSUME NEW v, \A t \in Services : told'[t] = v PROVE v \in proven'
    BY <2>2, <2>3, <2>4
  <2> QED
    BY <2>3, <2>4 DEF WitnessOK
<1>4. CASE UpgraderPass /\ ~Healthy
  BY <1>1, <1>4 DEF UpgraderPass, UpgraderStart, InstallStep, ExpireStale, ClaimRelease, NothingAsked,
     FinishRelease, CarryOutFails, Fetched, AsideFails, VerifyInstall, MoveAside, CopyIn, rollback, Restore,
     Since, RingFor, BinariesRestored, HealthyAgain
<1>5. CASE \E h \in Hosts : SchemaStep(h)
  BY <1>1, <1>5, ApplierSteps DEF ReleaseOK, ReleaseShape
<1>6. CASE UpgraderCrash \/ UpgradeTick \/ \E v \in Versions : QueueUpgrade(v)
  BY <1>1, <1>6 DEF UpgraderCrash, Killed, UpgradeTick, QueueUpgrade
<1>7. CASE AskByHand \/ \E v \in Versions : QueueRelease(v)
  BY <1>1, <1>7 DEF AskByHand, QueueRelease, AskRelease
<1>8. CASE WorldStep /\ ~\E s \in Services : Beat(s)
  BY <1>1, <1>8 DEF WorldStep, RestartScript, ServiceStops, StartUnit
<1>9. CASE UNCHANGED upgradeVars
  BY <1>1, <1>9 DEF upgradeVars, rvars
<1> QED
  BY <1>2, <1>3, <1>4, <1>5, <1>6, <1>7, <1>8, <1>9 DEF UpgradeNext, UpgraderPass

\* A step of the release update is taken only where no applier works here.
LEMMA InstallIsElsewhere ==
  ASSUME UpgraderStart \/ InstallStep PROVE upgrader.at # "applying"
  BY DEF UpgraderStart, InstallStep, ExpireStale, ClaimRelease, NothingAsked, FinishRelease, CarryOutFails,
     Fetched, AsideFails, VerifyInstall, MoveAside, CopyIn, rollback, Restore, Since, RingFor, Healthy,
     BinariesRestored, HealthyAgain, UpgraderAt

\* One applier goes on, and the others stay.
LEMMA OnePass ==
  ASSUME PassOK, NEW h \in Hosts, NEW v, DOMAIN v = PassFields, pass' = [pass EXCEPT ![h] = v]
  PROVE  /\ DOMAIN pass' = Hosts /\ (\A g \in Hosts : DOMAIN pass'[g] = PassFields)
         /\ pass'[h] = v /\ \A g \in Hosts : g # h => pass'[g] = pass[g]
  BY DEF PassOK


\* A step of an applier changes what that applier holds, and the upgrader only
\* where it works here.
LEMMA PassSteps ==
  ASSUME PassOK, UpgraderShape, NEW h \in Hosts, SchemaStep(h)
  PROVE  \E v : /\ DOMAIN v = PassFields /\ pass' = [pass EXCEPT ![h] = v]
                /\ (v.at # "off" => \/ pass[h].at # "off" /\ UNCHANGED upgrader
                                    \/ h = "here" /\ upgrader'.at = "applying"
                                    \/ h # "here" /\ UNCHANGED upgrader)
                /\ (h # "here" => UNCHANGED upgrader)
<1> DEFINE Goal(v) == /\ DOMAIN v = PassFields /\ pass' = [pass EXCEPT ![h] = v]
                      /\ (v.at # "off" => \/ pass[h].at # "off" /\ UNCHANGED upgrader
                                          \/ h = "here" /\ upgrader'.at = "applying"
                                          \/ h # "here" /\ UNCHANGED upgrader)
                      /\ (h # "here" => UNCHANGED upgrader)
<1>1. DOMAIN NoPass = PassFields /\ NoPass.at = "off" /\ DOMAIN pass[h] = PassFields
  BY DEF NoPass, PassFields, PassOK
<1>2. ASSUME Leaves(h) PROVE \E v : Goal(v)
  <2>1. Goal(NoPass)
    BY <1>1, <1>2 DEF Leaves
  <2> QED
    BY <2>1
<1>3. CASE \E w \in Versions : ReleaseStaleClaims(h, w)
  <2>1. PICK w : ReleaseStaleClaims(h, w)
    BY <1>3
  <2> DEFINE v == [NoPass EXCEPT !.at = "claim", !.carry = w]
  <2>2. DOMAIN v = PassFields /\ pass' = [pass EXCEPT ![h] = v]
    BY <1>1, <2>1 DEF ReleaseStaleClaims
  <2>3. (h = "here" /\ upgrader'.at = "applying") \/ (h # "here" /\ UNCHANGED upgrader)
    BY <2>1, UpgraderMoves DEF ReleaseStaleClaims
  <2>4. Goal(v)
    BY <2>2, <2>3
  <2> QED
    BY <2>4
<1>4. ASSUME NEW v, DOMAIN v = PassFields, pass' = [pass EXCEPT ![h] = v], pass[h].at # "off",
             UNCHANGED upgrader
      PROVE  \E w : Goal(w)
  <2>1. Goal(v)
    BY <1>4
  <2> QED
    BY <2>1
<1>5. ASSUME NEW p, PassGoes(h, p), pass[h].at # "off" PROVE \E w : Goal(w)
  <2> DEFINE v == [pass[h] EXCEPT !.at = p]
  <2>1. DOMAIN v = PassFields /\ pass' = [pass EXCEPT ![h] = v] /\ UNCHANGED upgrader
    BY <1>1, <1>5 DEF PassGoes
  <2> HIDE DEF v
  <2> QED
    BY <1>4, <1>5, <2>1
<1>6. CASE ClaimUpgrade(h)
  <2>1. CASE Leaves(h)
    BY <1>2, <2>1
  <2>2. CASE /\ pass' = [pass EXCEPT ![h].at = "check", ![h].id = upgrade.id, ![h].to = upgrade.to]
             /\ UNCHANGED upgrader
    <3> DEFINE v == [pass[h] EXCEPT !.at = "check", !.id = upgrade.id, !.to = upgrade.to]
    <3>1. DOMAIN v = PassFields
      BY <1>1
    <3>2. pass' = [pass EXCEPT ![h] = v] /\ pass[h].at # "off"
      BY <1>6, <2>2 DEF PassOK, ClaimUpgrade, PassAt
    <3> HIDE DEF v
    <3> QED
      BY <1>4, <2>2, <3>1, <3>2
  <2> QED
    BY <1>6, <2>1, <2>2 DEF ClaimUpgrade
<1>7. CASE backUp(h)
  <2>1. CASE Leaves(h)
    BY <1>2, <2>1
  <2>2. CASE /\ pass' = [pass EXCEPT ![h].at = "enter", ![h].todo = 1..SchemaFiles, ![h].copied = TRUE]
             /\ UNCHANGED upgrader
    <3> DEFINE v == [pass[h] EXCEPT !.at = "enter", !.todo = 1..SchemaFiles, !.copied = TRUE]
    <3>1. DOMAIN v = PassFields
      BY <1>1
    <3>2. pass' = [pass EXCEPT ![h] = v] /\ pass[h].at # "off"
      BY <1>7, <2>2 DEF PassOK, backUp, PassAt
    <3> HIDE DEF v
    <3> QED
      BY <1>4, <2>2, <3>1, <3>2
  <2> QED
    BY <1>7, <2>1, <2>2 DEF backUp, Ends
<1>8. CASE ApplyFile(h)
  <2>1. PICK f : pass' = [pass EXCEPT ![h].todo = @ \ {f}]
    BY <1>8 DEF ApplyFile
  <2> DEFINE v == [pass[h] EXCEPT !.todo = @ \ {f}]
  <2>2. DOMAIN v = PassFields /\ pass' = [pass EXCEPT ![h] = v] /\ pass[h].at # "off"
    BY <1>1, <1>8, <2>1 DEF ApplyFile, PassAt
  <2> HIDE DEF v
  <2> QED
    BY <1>4, <1>8, <2>2 DEF ApplyFile
<1>9. CASE CheckFingerprint(h) \/ EnterSchema(h) \/ recordOn(h)
  BY <1>2, <1>5, <1>9 DEF CheckFingerprint, EnterSchema, recordOn, Ends, PassAt
<1>10. CASE Requeue(h) \/ ApplyFails(h) \/ FinishUpgrade(h) \/ OtherCrash(h)
  BY <1>2, <1>10 DEF Requeue, ApplyFails, FinishUpgrade, OtherCrash, Ends
<1> QED
  BY <1>3, <1>6, <1>7, <1>8, <1>9, <1>10, Zenon DEF SchemaStep

\* Whose applier works here is told by the pass itself.
LEMMA PassKept == ReleaseOK /\ PassOK /\ [UpgradeNext]_upgradeVars => PassOK'
<1> SUFFICES ASSUME ReleaseOK, PassOK, [UpgradeNext]_upgradeVars PROVE PassOK'
  OBVIOUS
<1>1. UpgraderShape
  BY DEF ReleaseOK, ReleaseShape
<1>2. ASSUME UNCHANGED <<pass, upgrader>> PROVE PassOK'
  BY <1>2 DEF PassOK
<1>3. CASE UpgraderPass
  BY <1>3, InstallIsElsewhere DEF UpgraderPass, svars, PassOK
<1>4. CASE \E h \in Hosts : SchemaStep(h)
  <2>1. PICK h \in Hosts : SchemaStep(h)
    BY <1>4
  <2>2. PICK v : DOMAIN v = PassFields /\ pass' = [pass EXCEPT ![h] = v]
                 /\ (v.at # "off" => \/ pass[h].at # "off" /\ UNCHANGED upgrader
                                     \/ h = "here" /\ upgrader'.at = "applying"
                                     \/ h # "here" /\ UNCHANGED upgrader)
                 /\ (h # "here" => UNCHANGED upgrader)
    BY <2>1, PassSteps, <1>1
  <2>3. DOMAIN pass' = Hosts /\ \A g \in Hosts : DOMAIN pass'[g] = PassFields
    BY <2>2, OnePass DEF PassOK
  <2>4. pass'["here"].at # "off" => upgrader'.at = "applying"
    BY <2>2, OnePass DEF PassOK, Hosts
  <2> QED
    BY <2>3, <2>4 DEF PassOK
<1>5. CASE UpgraderCrash
  <2>1. pass' = [pass EXCEPT !["here"] = NoPass] /\ DOMAIN NoPass = PassFields /\ NoPass.at = "off"
    BY <1>5 DEF UpgraderCrash, NoPass, PassFields
  <2> QED
    BY <2>1, OnePass DEF PassOK, Hosts
<1>6. CASE UpgradeTick \/ \E v \in Versions : QueueUpgrade(v)
  BY <1>2, <1>6 DEF UpgradeTick, QueueUpgrade
<1>7. CASE (AskByHand \/ WorldStep \/ \E v \in Versions : QueueRelease(v)) /\ UNCHANGED svars
  BY <1>2, <1>7 DEF AskByHand, QueueRelease, AskRelease, WorldStep, RestartScript, ServiceStops,
                    StartUnit, Beat, svars
<1>8. CASE UNCHANGED upgradeVars
  BY <1>2, <1>8 DEF upgradeVars, rvars, svars
<1> QED
  BY <1>3, <1>4, <1>5, <1>6, <1>7, <1>8 DEF UpgradeNext

\* It begins that way.
LEMMA ReleaseBegins == UpgradeInit => ReleaseOK /\ PassOK /\ WitnessOK
<1> SUFFICES ASSUME UpgradeInit PROVE ReleaseOK /\ PassOK /\ WitnessOK
  OBVIOUS
<1>1. /\ rel = NoRelease /\ bin = [b \in Binaries |-> 1] /\ keep = NoBinaries
      /\ upgrader = UpgraderOff /\ good = 1
  BY DEF UpgradeInit, ReleaseInit
<1>2. DOMAIN upgrader = {"at", "ver", "carry", "todo", "blind", "failed", "outcome", "rolled"}
      /\ upgrader.at = "off"
  BY <1>1 DEF UpgraderOff
<1>3. DOMAIN rel = {"st", "to", "age", "rolled"} /\ rel.st = "none"
  BY <1>1 DEF NoRelease
<1>4. \A b \in Binaries : LastGood(b)
  BY <1>1 DEF LastGood
<1>5. GoodOK
  BY <1>1, <1>2, <1>4 DEF GoodOK, Aside, InPlace
<1>6. NewOK
  BY <1>2, <1>3 DEF NewOK, Installing, Aside, InPlace
<1>7. ReleaseOK
  BY <1>1, <1>2, <1>3, <1>5, <1>6 DEF ReleaseOK, ReleaseShape, UpgraderShape, NoBinaries, Resting
<1>8. PassOK
  BY DEF UpgradeInit, PassOK, NoPass, PassFields, Hosts
<1>9. PICK s : s \in Services
  BY ReleaseAssumption
<1>10. WitnessOK
  BY <1>9 DEF UpgradeInit, ReleaseInit, WitnessOK
<1> QED
  BY <1>7, <1>8, <1>10

\* Whatever fails, and whenever the upgrader is killed, every binary of a
\* version that all services have reported under is on the disk, or of one that
\* a process of another version spoke for (install.go, restart.go): it is moved,
\* not deleted, and what replaces it is complete when it is forgotten.
THEOREM TheLastGoodIsKept == UpgradeSpec => []LastGoodKept
<1>1. ReleaseOK /\ WitnessOK => LastGoodKept
  <2> SUFFICES ASSUME ReleaseOK PROVE \A b \in Binaries : LastGood(b)
    BY DEF LastGoodKept, OnDiskWhole, LastGood, WitnessOK
  <2> TAKE b \in Binaries
  <2>1. (Held(b) => LastGood(b)) /\ (bin[b] = good => LastGood(b))
    BY DEF Held, LastGood
  <2>2. upgrader.at \in Resting \union Installing
    BY DEF ReleaseOK, ReleaseShape
  <2>3. CASE upgrader.at \in Resting \union {"fetch", "finish"}
    BY <2>3 DEF ReleaseOK, GoodOK
  <2>4. CASE upgrader.at = "aside" \/ upgrader.at = "undo"
    BY <2>1, <2>4 DEF ReleaseOK, GoodOK
  <2>5. CASE upgrader.at \in Aside
    BY <2>1, <2>5 DEF ReleaseOK, GoodOK
  <2> QED
    BY <2>2, <2>3, <2>4, <2>5 DEF Installing
<1> QED
  BY <1>1, ReleaseBegins, ReleaseKept, PassKept, WitnessKept, PTL DEF UpgradeSpec

-----------------------------------------------------------------------------
(* Schema upgrades.                                                        *)

\* From its claim to the end of the pass an applier has a request.
Claimed == {"check", "backup", "enter", "files", "applied"}

UpgradeShape ==
  /\ DOMAIN upgrade = {"st", "id", "to", "age"} /\ upgrade.id \in Nat /\ DOMAIN shape = 1..SchemaFiles

\* A claim is the newest request's or an older one's; whoever has lost it lost
\* it to a sweep; and nobody claims what somebody still has.
ClaimOK(h) ==
  pass[h].at \in Claimed =>
    /\ pass[h].id \in Nat /\ pass[h].id <= upgrade.id
    /\ StillClaimed(h) \/ pass[h].id \in swept
    /\ Own(h) => upgrade.to = pass[h].to /\ upgrade.st # "pending"

Sole ==
  upgrade.st = "running" =>
    \A g, h \in Hosts : pass[g].at \in Claimed /\ Own(g) /\ pass[h].at \in Claimed /\ Own(h) => g = h

\* Only what was asked for is applied, after the backup, by one at a time.
LockOK(h) ==
  /\ pass[h].at \in {"backup", "enter", "files", "applied"} => pass[h].to = pass[h].carry
  /\ pass[h].at \in {"enter", "files", "applied"} => pass[h].copied = TRUE
  /\ pass[h].at = "enter" => pass[h].todo = 1..SchemaFiles
  /\ pass[h].at = "files" <=> inside = h
  /\ pass[h].at = "files" => \A f \in 1..SchemaFiles : f \notin pass[h].todo => shape[f] = pass[h].carry

\* The schema the newest request asked for is there, and nobody is at it.
InFull ==
  inside = "nobody" /\ schemaRecord = upgrade.to /\ \A f \in 1..SchemaFiles : shape[f] = upgrade.to

AppliedOK(h) == pass[h].at = "applied" /\ Own(h) /\ overran = FALSE => InFull
SuccessOK == upgrade.st = "succeeded" /\ overran = FALSE => InFull

UpgradeOK ==
  /\ UpgradeShape /\ Sole /\ SuccessOK
  /\ \A h \in Hosts : ClaimOK(h) /\ LockOK(h) /\ AppliedOK(h)

\* Nothing of it is touched but the age of a claim.
LEMMA UpgradeWaits ==
  ASSUME UpgradeOK, UNCHANGED <<pass, inside, shape, schemaRecord, swept, overran>>,
         DOMAIN upgrade' = DOMAIN upgrade, upgrade'.st = upgrade.st, upgrade'.id = upgrade.id,
         upgrade'.to = upgrade.to
  PROVE  UpgradeOK'
<1>1. UpgradeShape' /\ Sole' /\ SuccessOK'
  BY DEF UpgradeOK, UpgradeShape, Sole, SuccessOK, InFull, Own
<1>2. ASSUME NEW h \in Hosts PROVE ClaimOK(h)' /\ LockOK(h)' /\ AppliedOK(h)'
  BY <1>2 DEF UpgradeOK, ClaimOK, LockOK, AppliedOK, InFull, Own, StillClaimed
<1> QED
  BY <1>1, <1>2 DEF UpgradeOK

\* A new request: the appliers of the old one have lost theirs before.
LEMMA UpgradeAsked ==
  ASSUME UpgradeOK, UNCHANGED <<pass, inside, shape, schemaRecord, swept, overran>>,
         NEW v, ~Pending(upgrade), upgrade' = AskedUpgrade(v)
  PROVE  UpgradeOK'
<1>1. /\ DOMAIN upgrade' = {"st", "id", "to", "age"} /\ upgrade'.st = "pending"
      /\ upgrade'.id = upgrade.id + 1 /\ upgrade.id \in Nat
  BY DEF UpgradeOK, UpgradeShape, AskedUpgrade, NoUpgrade
<1>2. UpgradeShape' /\ Sole' /\ SuccessOK'
  BY <1>1 DEF UpgradeOK, UpgradeShape, Sole, SuccessOK
<1>3. ASSUME NEW h \in Hosts PROVE ClaimOK(h)' /\ LockOK(h)' /\ AppliedOK(h)'
  <2>1. ClaimOK(h) /\ LockOK(h)
    BY <1>3 DEF UpgradeOK
  <2>2. LockOK(h)'
    BY <2>1 DEF LockOK
  <2>3. pass[h].at \in Claimed => ~Own(h)'
    BY <1>1, <2>1 DEF ClaimOK, Own
  <2>4. ClaimOK(h)'
    BY <1>1, <2>1, <2>3 DEF ClaimOK, StillClaimed, Pending
  <2>5. AppliedOK(h)'
    BY <2>3 DEF AppliedOK, Claimed
  <2> QED
    BY <2>2, <2>4, <2>5
<1> QED
  BY <1>2, <1>3 DEF UpgradeOK

\* A pass ends, and what it writes is written to the row it had claimed.
LEMMA PassEnds ==
  ASSUME PassOK, UpgradeOK, NEW h \in Hosts, UNCHANGED <<shape, schemaRecord, swept, overran>>,
         pass' = [pass EXCEPT ![h] = NoPass], inside' = IF inside = h THEN "nobody" ELSE inside,
         DOMAIN upgrade' = DOMAIN upgrade, upgrade'.id = upgrade.id, upgrade'.to = upgrade.to,
         \/ upgrade'.st = upgrade.st
         \/ pass[h].at \in Claimed /\ Own(h) /\ upgrade'.st = "failed"
         \/ pass[h].at \in Claimed /\ StillClaimed(h) /\ upgrade'.st = "pending"
         \/ pass[h].at = "applied" /\ Own(h) /\ upgrade'.st = "succeeded"
  PROVE  UpgradeOK'
<1>1. /\ DOMAIN NoPass = PassFields /\ NoPass.at = "off"
  BY DEF NoPass, PassFields
<1>2. pass'[h].at = "off" /\ \A g \in Hosts : g # h => pass'[g] = pass[g]
  BY <1>1, OnePass
<1>3. UpgradeShape'
  BY DEF UpgradeOK, UpgradeShape
<1>4. InFull => InFull'
  BY DEF InFull
<1>5. SuccessOK'
  BY <1>4 DEF UpgradeOK, SuccessOK, AppliedOK
<1>6. \A g \in Hosts : pass'[g].at \in Claimed => g # h /\ pass'[g] = pass[g] /\ Own(g)' = Own(g)
  BY <1>2 DEF Own, Claimed
<1>7. Sole'
  BY <1>6 DEF UpgradeOK, Sole, Own, StillClaimed
<1>8. ASSUME NEW g \in Hosts PROVE ClaimOK(g)' /\ LockOK(g)' /\ AppliedOK(g)'
  <2>1. CASE g = h
    <3>1. g # "nobody"
      BY SchemaAssumption DEF Hosts
    <3> QED
      BY <1>2, <2>1, <3>1 DEF ClaimOK, LockOK, AppliedOK, Claimed
  <2>2. CASE g # h
    <3>1. pass'[g] = pass[g] /\ Own(g)' = Own(g) /\ g # "nobody"
      BY <1>2, <2>2, SchemaAssumption DEF Own, Hosts
    <3>2. ClaimOK(g) /\ LockOK(g) /\ AppliedOK(g) /\ Sole
      BY DEF UpgradeOK
    <3>3. LockOK(g)'
      BY <2>2, <3>1, <3>2 DEF LockOK
    <3>4. AppliedOK(g)'
      BY <1>4, <3>1, <3>2 DEF AppliedOK
    <3>5. ClaimOK(g)'
      <4> SUFFICES ASSUME pass[g].at \in Claimed PROVE ClaimOK(g)'
        BY <3>1 DEF ClaimOK
      <4>1. CASE upgrade'.st = upgrade.st
        BY <3>1, <3>2, <4>1 DEF ClaimOK, StillClaimed
      <4>2. CASE /\ upgrade'.st # upgrade.st /\ pass[h].at \in Claimed /\ Own(h)
        <5>1. ~StillClaimed(g)
          BY <2>2, <3>2, <4>2 DEF Sole, StillClaimed
        <5>2. Own(g) => upgrade.st # "running"
          BY <5>1 DEF StillClaimed
        <5>3. Own(g) => upgrade'.st # "pending"
          BY <5>2, <4>2 DEF StillClaimed
        <5> QED
          BY <3>1, <3>2, <5>1, <5>3 DEF ClaimOK
      <4> QED
        BY <4>1, <4>2 DEF StillClaimed, Claimed
    <3> QED
      BY <3>3, <3>4, <3>5
  <2> QED
    BY <2>1, <2>2
<1> QED
  BY <1>3, <1>5, <1>7, <1>8 DEF UpgradeOK

\* Which is what every one of its ends does.
LEMMA EndsKeepUpgrade ==
  ASSUME PassOK, UpgradeOK, NEW h \in Hosts, UNCHANGED <<shape, schemaRecord, swept, overran>>, Leaves(h),
         NEW st, upgrade' \in {upgrade, [upgrade EXCEPT !.st = st]},
         \/ upgrade' = upgrade
         \/ pass[h].at \in Claimed /\ Own(h) /\ st = "failed"
         \/ pass[h].at \in Claimed /\ StillClaimed(h) /\ st = "pending"
         \/ pass[h].at = "applied" /\ Own(h) /\ st = "succeeded"
  PROVE  UpgradeOK'
<1>1. /\ DOMAIN upgrade' = DOMAIN upgrade /\ upgrade'.id = upgrade.id /\ upgrade'.to = upgrade.to
      /\ upgrade' = upgrade \/ upgrade'.st = st
  BY DEF UpgradeOK, UpgradeShape
<1>2. pass' = [pass EXCEPT ![h] = NoPass] /\ inside' = IF inside = h THEN "nobody" ELSE inside
  BY DEF Leaves
<1> QED
  BY <1>1, <1>2, PassEnds

\* A pass begins, and a claim that has gone stale is taken away.
LEMMA SweepKeeps ==
  ASSUME PassOK, UpgradeOK, NEW h \in Hosts, NEW v, ReleaseStaleClaims(h, v) PROVE UpgradeOK'
<1> DEFINE p == [NoPass EXCEPT !.at = "claim", !.carry = v]
<1>1. DOMAIN p = PassFields /\ p.at = "claim" /\ pass' = [pass EXCEPT ![h] = p] /\ pass[h].at = "off"
  BY DEF NoPass, PassFields, ReleaseStaleClaims, PassAt
<1> HIDE DEF p
<1>2. pass'[h].at = "claim" /\ \A g \in Hosts : g # h => pass'[g] = pass[g]
  BY <1>1, OnePass
<1>3. /\ UNCHANGED <<inside, shape, schemaRecord, overran>>
      /\ \/ UNCHANGED <<upgrade, swept>>
         \/ /\ upgrade.st = "running" /\ upgrade' = [upgrade EXCEPT !.st = "failed"]
            /\ swept' = swept \union {upgrade.id}
  BY DEF ReleaseStaleClaims
<1>4. /\ DOMAIN upgrade' = DOMAIN upgrade /\ upgrade'.id = upgrade.id /\ upgrade'.to = upgrade.to
      /\ \/ upgrade'.st = upgrade.st /\ swept' = swept
         \/ upgrade'.st = "failed" /\ swept' = swept \union {upgrade.id}
  BY <1>3 DEF UpgradeOK, UpgradeShape
<1>5. UpgradeShape' /\ SuccessOK' /\ InFull' = InFull
  BY <1>3, <1>4 DEF UpgradeOK, UpgradeShape, SuccessOK, InFull
<1>6. \A g \in Hosts : pass'[g].at \in Claimed => g # h /\ pass'[g] = pass[g] /\ Own(g)' = Own(g)
  BY <1>2, <1>4 DEF Own, Claimed
<1>7. Sole'
  BY <1>4, <1>6 DEF UpgradeOK, Sole
<1>8. ASSUME NEW g \in Hosts PROVE ClaimOK(g)' /\ LockOK(g)' /\ AppliedOK(g)'
  <2>1. CASE g = h
    BY <1>1, <1>2, <1>3, <2>1 DEF UpgradeOK, ClaimOK, LockOK, AppliedOK, Claimed
  <2>2. CASE g # h
    <3>1. pass'[g] = pass[g] /\ Own(g)' = Own(g)
      BY <1>2, <1>4, <2>2 DEF Own
    <3>2. ClaimOK(g) /\ LockOK(g) /\ AppliedOK(g)
      BY DEF UpgradeOK
    <3>3. LockOK(g)' /\ AppliedOK(g)'
      BY <1>3, <1>5, <3>1, <3>2 DEF LockOK, AppliedOK
    <3>4. ClaimOK(g)'
      BY <1>4, <3>1, <3>2 DEF ClaimOK, StillClaimed, Own
    <3> QED
      BY <3>3, <3>4
  <2> QED
    BY <2>1, <2>2
<1> QED
  BY <1>5, <1>7, <1>8 DEF UpgradeOK

\* A request that waits is nobody's.
LEMMA ClaimKeeps ==
  ASSUME PassOK, UpgradeOK, NEW h \in Hosts, ClaimUpgrade(h), upgrade.st = "pending" PROVE UpgradeOK'
<1> DEFINE p == [pass[h] EXCEPT !.at = "check", !.id = upgrade.id, !.to = upgrade.to]
<1>1. /\ DOMAIN p = PassFields /\ p.at = "check" /\ p.id = upgrade.id /\ p.to = upgrade.to
      /\ pass' = [pass EXCEPT ![h] = p] /\ pass[h].at = "claim"
  BY DEF PassOK, PassFields, ClaimUpgrade, PassAt
<1> HIDE DEF p
<1>2. /\ pass'[h].at = "check" /\ pass'[h].id = upgrade.id /\ pass'[h].to = upgrade.to
      /\ \A g \in Hosts : g # h => pass'[g] = pass[g]
  BY <1>1, OnePass
<1>3. UNCHANGED <<inside, shape, schemaRecord, overran, swept>>
      /\ upgrade' = [upgrade EXCEPT !.st = "running", !.age = 0]
  BY DEF ClaimUpgrade
<1>4. /\ DOMAIN upgrade' = DOMAIN upgrade /\ upgrade'.id = upgrade.id /\ upgrade'.to = upgrade.to
      /\ upgrade'.st = "running" /\ upgrade.id \in Nat
  BY <1>3 DEF UpgradeOK, UpgradeShape
<1>5. UpgradeShape' /\ SuccessOK' /\ InFull' = InFull
  BY <1>3, <1>4 DEF UpgradeOK, UpgradeShape, SuccessOK, InFull
<1>6. ASSUME NEW g \in Hosts, g # h PROVE ClaimOK(g)' /\ LockOK(g)' /\ AppliedOK(g)'
                                           /\ (pass'[g].at \in Claimed => ~Own(g)')
  <2>1. pass'[g] = pass[g] /\ Own(g)' = Own(g)
    BY <1>2, <1>4, <1>6 DEF Own
  <2>2. ClaimOK(g) /\ LockOK(g) /\ AppliedOK(g)
    BY DEF UpgradeOK
  <2>3. LockOK(g)' /\ AppliedOK(g)'
    BY <1>3, <1>5, <2>1, <2>2 DEF LockOK, AppliedOK
  <2>4. pass[g].at \in Claimed => ~Own(g)
    BY <2>2 DEF ClaimOK
  <2>5. ClaimOK(g)'
    BY <1>3, <1>4, <2>1, <2>2, <2>4 DEF ClaimOK, StillClaimed
  <2> QED
    BY <2>1, <2>3, <2>4, <2>5
<1>7. Sole'
  BY <1>6 DEF Sole
<1>8. ClaimOK(h)' /\ LockOK(h)' /\ AppliedOK(h)'
  BY <1>1, <1>2, <1>3, <1>4 DEF UpgradeOK, ClaimOK, LockOK, AppliedOK, StillClaimed, Own, Claimed
<1> QED
  BY <1>5, <1>6, <1>7, <1>8 DEF UpgradeOK

\* An applier goes on with what it has; nobody else notices.
LEMMA PassGoesOn ==
  ASSUME PassOK, UpgradeOK, NEW h \in Hosts, NEW p, DOMAIN p = PassFields, pass' = [pass EXCEPT ![h] = p],
         UNCHANGED <<upgrade, inside, shape, schemaRecord, swept, overran>>,
         p.id = pass[h].id, p.to = pass[h].to, p.carry = pass[h].carry,
         pass[h].at \in Claimed, p.at \in Claimed, p.at # "applied",
         \/ pass[h].at = "check" /\ p.at = "backup" /\ pass[h].to = pass[h].carry
         \/ pass[h].at = "backup" /\ p.at = "enter" /\ p.copied = TRUE /\ p.todo = 1..SchemaFiles
  PROVE  UpgradeOK'
<1>1. pass'[h] = p /\ \A g \in Hosts : g # h => pass'[g] = pass[g]
  BY OnePass
<1>2. UpgradeShape' /\ SuccessOK' /\ InFull' = InFull
  BY DEF UpgradeOK, UpgradeShape, SuccessOK, InFull
<1>3. \A g \in Hosts : pass'[g].id = pass[g].id /\ Own(g)' = Own(g)
                       /\ (pass'[g].at \in Claimed => pass[g].at \in Claimed)
  BY <1>1 DEF Own
<1>4. Sole'
  BY <1>3 DEF UpgradeOK, Sole
<1>5. ASSUME NEW g \in Hosts PROVE ClaimOK(g)' /\ LockOK(g)' /\ AppliedOK(g)'
  <2>1. ClaimOK(g) /\ LockOK(g) /\ AppliedOK(g)
    BY DEF UpgradeOK
  <2>2. CASE g = h
    <3>1. ClaimOK(g)'
      BY <1>1, <1>3, <2>1, <2>2 DEF ClaimOK, StillClaimed
    <3>2. LockOK(g)'
      BY <1>1, <2>1, <2>2 DEF LockOK
    <3> QED
      BY <1>1, <2>2, <3>1, <3>2 DEF AppliedOK
  <2>3. CASE g # h
    <3>1. pass'[g] = pass[g] /\ Own(g)' = Own(g)
      BY <1>1, <1>3, <2>3
    <3> QED
      BY <1>2, <2>1, <3>1 DEF ClaimOK, LockOK, AppliedOK, StillClaimed
  <2> QED
    BY <2>2, <2>3
<1> QED
  BY <1>2, <1>4, <1>5 DEF UpgradeOK

\* Inside, what the others applied is no longer what is there: whoever still has
\* the claim is the only one, and whoever has not says so.
LEMMA InsideKeeps ==
  ASSUME PassOK, UpgradeOK, NEW h \in Hosts, NEW p, DOMAIN p = PassFields, pass' = [pass EXCEPT ![h] = p],
         UNCHANGED <<upgrade, swept>>, DOMAIN shape' = DOMAIN shape,
         p.id = pass[h].id, p.to = pass[h].to, p.carry = pass[h].carry, p.copied = pass[h].copied,
         pass[h].at \in {"enter", "files"}, p.at \in {"files", "applied"},
         \A g \in Hosts : g # h => inside # g /\ inside' # g,
         p.at = "files" <=> inside' = h,
         overran' = FALSE => StillClaimed(h) \/ (overran = FALSE /\ inside = h),
         p.at = "files" => \A f \in 1..SchemaFiles : f \notin p.todo => shape'[f] = p.carry,
         p.at = "applied" => /\ inside' = "nobody" /\ schemaRecord' = p.carry
                             /\ \A f \in 1..SchemaFiles : shape'[f] = p.carry
  PROVE  UpgradeOK'
<1>1. pass'[h] = p /\ (\A g \in Hosts : g # h => pass'[g] = pass[g]) /\ h # "nobody"
  BY OnePass, SchemaAssumption DEF Hosts
<1>2. UpgradeShape'
  BY DEF UpgradeOK, UpgradeShape
<1>3. \A g \in Hosts : pass'[g].id = pass[g].id /\ Own(g)' = Own(g) /\ StillClaimed(g)' = StillClaimed(g)
                       /\ (pass'[g].at \in Claimed => pass[g].at \in Claimed)
  BY <1>1 DEF Own, StillClaimed, Claimed
<1>4. Sole'
  BY <1>3 DEF UpgradeOK, Sole
<1>5. SuccessOK'
  BY <1>1 DEF UpgradeOK, SuccessOK, InFull, StillClaimed
<1>6. ASSUME NEW g \in Hosts, g # h PROVE ClaimOK(g)' /\ LockOK(g)' /\ AppliedOK(g)'
  <2>1. ClaimOK(g) /\ LockOK(g) /\ AppliedOK(g) /\ Sole
    BY DEF UpgradeOK
  <2>2. pass'[g] = pass[g] /\ Own(g)' = Own(g) /\ StillClaimed(g)' = StillClaimed(g)
    BY <1>1, <1>3, <1>6
  <2>3. pass[g].at = "applied" /\ Own(g) => overran' # FALSE
    BY <1>1, <1>6, <2>1 DEF Sole, StillClaimed, AppliedOK, InFull, Claimed
  <2>4. LockOK(g)'
    BY <1>6, <2>1, <2>2 DEF LockOK
  <2>5. AppliedOK(g)'
    BY <2>2, <2>3 DEF AppliedOK
  <2>6. ClaimOK(g)'
    BY <2>1, <2>2 DEF ClaimOK
  <2> QED
    BY <2>4, <2>5, <2>6
<1>7. ClaimOK(h)' /\ LockOK(h)' /\ AppliedOK(h)'
  <2>1. ClaimOK(h) /\ LockOK(h)
    BY DEF UpgradeOK
  <2>2. ClaimOK(h)'
    BY <1>1, <1>3, <2>1 DEF ClaimOK, Claimed
  <2>3. LockOK(h)'
    BY <1>1, <2>1 DEF LockOK
  <2>4. AppliedOK(h)'
    BY <1>1, <1>3, <2>1 DEF AppliedOK, InFull, ClaimOK, LockOK, Claimed
  <2> QED
    BY <2>2, <2>3, <2>4
<1> QED
  BY <1>2, <1>4, <1>5, <1>6, <1>7 DEF UpgradeOK

\* Nobody is inside but whoever is at the files.
LEMMA EnterKeeps ==
  ASSUME PassOK, UpgradeOK, NEW h \in Hosts, EnterSchema(h) PROVE UpgradeOK'
<1> DEFINE p == [pass[h] EXCEPT !.at = "files"]
<1>1. /\ DOMAIN p = PassFields /\ p.at = "files" /\ p.id = pass[h].id /\ p.to = pass[h].to
      /\ p.carry = pass[h].carry /\ p.copied = pass[h].copied /\ p.todo = pass[h].todo
      /\ pass' = [pass EXCEPT ![h] = p] /\ pass[h].at = "enter"
  BY DEF PassOK, PassFields, EnterSchema, PassAt, PassGoes
<1> HIDE DEF p
<1>2. /\ UNCHANGED <<upgrade, shape, schemaRecord, swept>> /\ inside = "nobody" /\ inside' = h
      /\ overran' = ~StillClaimed(h)
  BY DEF EnterSchema, Free
<1>3. \A g \in Hosts : g # "nobody"
  BY SchemaAssumption DEF Hosts
<1> QED
  BY <1>1, <1>2, <1>3, InsideKeeps DEF UpgradeOK, LockOK

\* A file of the schema goes in.
LEMMA FileKeeps ==
  ASSUME PassOK, UpgradeOK, NEW h \in Hosts, ApplyFile(h) PROVE UpgradeOK'
<1>1. PICK f : /\ shape' = [shape EXCEPT ![f] = pass[h].carry]
               /\ pass' = [pass EXCEPT ![h].todo = @ \ {f}]
  BY DEF ApplyFile
<1> DEFINE p == [pass[h] EXCEPT !.todo = @ \ {f}]
<1>2. /\ DOMAIN p = PassFields /\ p.at = "files" /\ p.id = pass[h].id /\ p.to = pass[h].to
      /\ p.carry = pass[h].carry /\ p.copied = pass[h].copied /\ p.todo = pass[h].todo \ {f}
      /\ pass' = [pass EXCEPT ![h] = p] /\ pass[h].at = "files"
  BY <1>1 DEF PassOK, PassFields, ApplyFile, PassAt
<1> HIDE DEF p
<1>3. UNCHANGED <<upgrade, inside, schemaRecord, swept, overran>>
  BY DEF ApplyFile
<1>4. LockOK(h) /\ DOMAIN shape = 1..SchemaFiles /\ inside = h
  BY <1>2 DEF UpgradeOK, UpgradeShape, LockOK
<1>5. DOMAIN shape' = DOMAIN shape /\ \A g \in 1..SchemaFiles : g \notin p.todo => shape'[g] = p.carry
  BY <1>1, <1>2, <1>4 DEF LockOK
<1> QED
  BY <1>2, <1>3, <1>4, <1>5, InsideKeeps

\* The record, when no file is left.
LEMMA RecordKeeps ==
  ASSUME PassOK, UpgradeOK, NEW h \in Hosts, recordOn(h) PROVE UpgradeOK'
<1> DEFINE p == [pass[h] EXCEPT !.at = "applied"]
<1>1. /\ DOMAIN p = PassFields /\ p.at = "applied" /\ p.id = pass[h].id /\ p.to = pass[h].to
      /\ p.carry = pass[h].carry /\ p.copied = pass[h].copied
      /\ pass' = [pass EXCEPT ![h] = p] /\ pass[h].at = "files" /\ pass[h].todo = {}
  BY DEF PassOK, PassFields, recordOn, PassAt, PassGoes
<1> HIDE DEF p
<1>2. UNCHANGED <<upgrade, shape, swept, overran>> /\ schemaRecord' = pass[h].carry
  BY DEF recordOn
<1>3. LockOK(h) /\ inside = h
  BY <1>1 DEF UpgradeOK, LockOK
<1>4. inside' = "nobody" /\ \A f \in 1..SchemaFiles : shape'[f] = p.carry
  BY <1>1, <1>2, <1>3 DEF LockOK, recordOn
<1>5. \A g \in Hosts : g # "nobody"
  BY SchemaAssumption DEF Hosts
<1> QED
  BY <1>1, <1>2, <1>3, <1>4, <1>5, InsideKeeps

\* The schema's part of a pass, one step further.
LEMMA SchemaKeepsUpgrade ==
  ASSUME PassOK, UpgradeOK, NEW h \in Hosts, SchemaStep(h) PROVE UpgradeOK'
<1>1. ASSUME NEW st, pass[h].at \in Claimed, Ends(h, st), UNCHANGED <<shape, schemaRecord, swept, overran>>,
             st = "failed" \/ (st = "succeeded" /\ pass[h].at = "applied")
      PROVE  UpgradeOK'
  <2>1. CASE Own(h)
    BY <1>1, <2>1, EndsKeepUpgrade DEF Ends
  <2>2. CASE ~Own(h)
    BY <1>1, <2>2, EndsKeepUpgrade DEF Ends
  <2> QED
    BY <2>1, <2>2
<1>2. CASE \E v \in Versions : ReleaseStaleClaims(h, v)
  BY <1>2, SweepKeeps
<1>3. CASE ClaimUpgrade(h)
  <2>1. CASE upgrade.st = "pending"
    BY <1>3, <2>1, ClaimKeeps
  <2>2. CASE upgrade.st # "pending"
    BY <1>3, <2>2, EndsKeepUpgrade DEF ClaimUpgrade
  <2> QED
    BY <2>1, <2>2
<1>4. CASE CheckFingerprint(h)
  <2>1. pass[h].at = "check" /\ UNCHANGED <<shape, schemaRecord, swept, overran>>
    BY <1>4 DEF CheckFingerprint, PassAt
  <2>2. CASE Ends(h, "failed")
    BY <1>1, <2>1, <2>2 DEF Claimed
  <2>3. CASE pass[h].to = pass[h].carry /\ PassGoes(h, "backup") /\ UNCHANGED <<upgrade, inside>>
    <3> DEFINE p == [pass[h] EXCEPT !.at = "backup"]
    <3>1. /\ DOMAIN p = PassFields /\ p.at = "backup" /\ p.id = pass[h].id /\ p.to = pass[h].to
          /\ p.carry = pass[h].carry /\ pass' = [pass EXCEPT ![h] = p]
      BY <2>3 DEF PassOK, PassFields, PassGoes
    <3> HIDE DEF p
    <3> QED
      BY <2>1, <2>3, <3>1, PassGoesOn DEF Claimed
  <2> QED
    BY <1>4, <2>2, <2>3 DEF CheckFingerprint, NotThisBinary
<1>5. CASE backUp(h)
  <2>1. pass[h].at = "backup" /\ UNCHANGED <<shape, schemaRecord, swept, overran>>
    BY <1>5 DEF backUp, PassAt
  <2>2. CASE Ends(h, "failed")
    BY <1>1, <2>1, <2>2 DEF Claimed
  <2>3. CASE /\ pass' = [pass EXCEPT ![h].at = "enter", ![h].todo = 1..SchemaFiles, ![h].copied = TRUE]
             /\ UNCHANGED <<upgrade, inside>>
    <3> DEFINE p == [pass[h] EXCEPT !.at = "enter", !.todo = 1..SchemaFiles, !.copied = TRUE]
    <3>1. /\ DOMAIN p = PassFields /\ p.at = "enter" /\ p.id = pass[h].id /\ p.to = pass[h].to
          /\ p.carry = pass[h].carry /\ p.copied = TRUE /\ p.todo = 1..SchemaFiles
      BY DEF PassOK, PassFields
    <3>2. pass' = [pass EXCEPT ![h] = p]
      BY <2>3 DEF PassOK, PassFields
    <3> HIDE DEF p
    <3> QED
      BY <2>1, <2>3, <3>1, <3>2, PassGoesOn DEF Claimed
  <2> QED
    BY <1>5, <2>2, <2>3 DEF backUp
<1>6. CASE EnterSchema(h) \/ ApplyFile(h) \/ recordOn(h)
  BY <1>6, EnterKeeps, FileKeeps, RecordKeeps
<1>7. CASE Requeue(h)
  <2>1. /\ pass[h].at \in Claimed /\ Leaves(h) /\ UNCHANGED <<shape, schemaRecord, swept, overran>>
        /\ \/ upgrade' = upgrade
           \/ StillClaimed(h) /\ upgrade' = [upgrade EXCEPT !.st = "pending"]
    BY <1>7 DEF Requeue, PassAt, Claimed
  <2> QED
    BY <2>1, EndsKeepUpgrade
<1>8. CASE ApplyFails(h) \/ FinishUpgrade(h)
  BY <1>1, <1>8 DEF ApplyFails, FinishUpgrade, PassAt, Claimed
<1>9. CASE OtherCrash(h)
  BY <1>9, EndsKeepUpgrade DEF OtherCrash
<1> QED
  BY <1>2, <1>3, <1>4, <1>5, <1>6, <1>7, <1>8, <1>9 DEF SchemaStep

\* The whole of it, one step further.
LEMMA UpgradeKept == PassOK /\ UpgradeOK /\ [UpgradeNext]_upgradeVars => UpgradeOK'
<1> SUFFICES ASSUME PassOK, UpgradeOK, [UpgradeNext]_upgradeVars PROVE UpgradeOK'
  OBVIOUS
<1>1. ASSUME UNCHANGED svars PROVE UpgradeOK'
  BY <1>1, UpgradeWaits DEF svars
<1>2. CASE \E h \in Hosts : SchemaStep(h)
  BY <1>2, SchemaKeepsUpgrade
<1>3. CASE UpgraderCrash
  BY <1>3, PassEnds DEF UpgraderCrash, Hosts
<1>4. CASE \E v \in Versions : QueueUpgrade(v)
  BY <1>4, UpgradeAsked DEF QueueUpgrade
<1>5. CASE UpgradeTick
  <2>1. PICK a : upgrade' = [upgrade EXCEPT !.age = a]
    BY <1>5 DEF UpgradeTick, Older
  <2>2. /\ DOMAIN upgrade' = DOMAIN upgrade /\ upgrade'.st = upgrade.st /\ upgrade'.id = upgrade.id
        /\ upgrade'.to = upgrade.to
    BY <2>1 DEF UpgradeOK, UpgradeShape
  <2> QED
    BY <1>5, <2>2, UpgradeWaits DEF UpgradeTick
<1>6. CASE UpgraderPass \/ UNCHANGED upgradeVars
  BY <1>1, <1>6 DEF UpgraderPass, upgradeVars
<1> QED
  BY <1>1, <1>2, <1>3, <1>4, <1>5, <1>6 DEF UpgradeNext

\* Where nothing is applied, no statement of a schema is run.
LEMMA OnlyApplierApplies ==
  ASSUME UpgradeOK, [UpgradeNext]_upgradeVars PROVE AppliesWhatWasAsked /\ RecordIsWhole
<1>1. ASSUME UNCHANGED <<shape, schemaRecord>> PROVE AppliesWhatWasAsked /\ RecordIsWhole
  BY <1>1 DEF AppliesWhatWasAsked, RecordIsWhole
<1>2. ASSUME NEW h \in Hosts, ApplyFile(h) \/ recordOn(h) PROVE AppliesWhatWasAsked /\ RecordIsWhole
  <2>1. pass[h].at = "files" /\ ClaimOK(h) /\ LockOK(h)
    BY <1>2 DEF UpgradeOK, ApplyFile, recordOn, PassAt
  <2>2. /\ inside = h /\ pass[h].to = pass[h].carry /\ pass[h].copied = TRUE
        /\ StillClaimed(h) \/ pass[h].id \in swept
    BY <2>1 DEF ClaimOK, LockOK, Claimed
  <2>3. AppliesWhatWasAsked
    BY <2>2 DEF AppliesWhatWasAsked
  <2>4. schemaRecord' # schemaRecord => pass[h].todo = {} /\ schemaRecord' = pass[h].carry
    BY <1>2 DEF ApplyFile, recordOn
  <2>5. RecordIsWhole
    BY <2>1, <2>4 DEF LockOK, RecordIsWhole
  <2> QED
    BY <2>3, <2>5
<1>3. ASSUME NEW h \in Hosts, SchemaStep(h), ~(ApplyFile(h) \/ recordOn(h))
      PROVE  AppliesWhatWasAsked /\ RecordIsWhole
  BY <1>1, <1>3 DEF SchemaStep, ReleaseStaleClaims, ClaimUpgrade, CheckFingerprint, backUp, EnterSchema,
                    Requeue, ApplyFails, FinishUpgrade, OtherCrash
<1>4. CASE UpgraderPass \/ UpgraderCrash \/ UpgradeTick \/ \E v \in Versions : QueueUpgrade(v)
  BY <1>1, <1>4 DEF UpgraderPass, UpgraderCrash, QueueUpgrade, UpgradeTick, svars
<1>5. CASE UNCHANGED svars \/ UNCHANGED upgradeVars
  BY <1>1, <1>5 DEF svars, upgradeVars
<1> QED
  BY <1>2, <1>3, <1>4, <1>5 DEF UpgradeNext

\* A schema is applied only because it was asked for, by the binary that has it,
\* after its backup, whole and by one applier at a time (applier.go), and with a
\* claim that is still held or was slow enough to be taken; and what is recorded
\* as succeeded, a release or a schema, is there in full, unless an applier that
\* had lost its claim went in after it.
THEOREM UpgradesDoTellTheTruth == UpgradeSpec => UpgradesAreTrue
<1> DEFINE Inv == ReleaseOK /\ PassOK /\ UpgradeOK
<1>1. UpgradeInit => UpgradeOK
  <2> SUFFICES ASSUME UpgradeInit PROVE UpgradeOK
    OBVIOUS
  <2>1. /\ DOMAIN upgrade = {"st", "id", "to", "age"} /\ DOMAIN shape = 1..SchemaFiles
        /\ upgrade.st = "none" /\ upgrade.id = 0 /\ inside = "nobody"
    BY DEF UpgradeInit, NoUpgrade
  <2>2. \A h \in Hosts : pass[h].at = "off" /\ h # "nobody"
    BY SchemaAssumption DEF UpgradeInit, NoPass, Hosts
  <2>3. UpgradeShape /\ Sole /\ SuccessOK
    BY <2>1 DEF UpgradeShape, Sole, SuccessOK
  <2>4. \A h \in Hosts : ClaimOK(h) /\ LockOK(h) /\ AppliedOK(h)
    BY <2>1, <2>2 DEF ClaimOK, LockOK, AppliedOK, Claimed
  <2> QED
    BY <2>3, <2>4 DEF UpgradeOK
<1>2. ReleaseOK /\ UpgradeOK => SucceededIsComplete
  BY DEF ReleaseOK, NewOK, UpgradeOK, SuccessOK, InFull, SucceededIsComplete
<1>3. Inv /\ [UpgradeNext]_upgradeVars => Inv'
  BY ReleaseKept, PassKept, UpgradeKept
<1>4. Inv /\ [UpgradeNext]_upgradeVars => AppliesWhatWasAsked /\ RecordIsWhole /\ SucceededIsComplete'
  <2>1. (ReleaseOK /\ UpgradeOK)' => SucceededIsComplete'
    BY DEF ReleaseOK, NewOK, UpgradeOK, SuccessOK, InFull, SucceededIsComplete
  <2> QED
    BY <1>3, <2>1, OnlyApplierApplies
<1>5. Inv /\ [UpgradeNext]_upgradeVars
        => [AppliesWhatWasAsked /\ RecordIsWhole /\ SucceededIsComplete']_upgradeVars
  BY <1>4
<1>6. UpgradeInit => Inv
  BY <1>1, ReleaseBegins
<1> QED
  BY <1>3, <1>5, <1>6, PTL DEF UpgradeSpec, UpgradesAreTrue

-----------------------------------------------------------------------------
(* The setup checks.                                                       *)

CheckAnswers == {"pass", "fail", "warn", "skip"}
CheckResults == [status : CheckAnswers, blocks : BOOLEAN]

\* What a required check has seen the deployment without when it does not
\* block: each of its answers but a pass is a failure or no look.
Covers(id) ==
  CASE id = "schema.panel" -> {"no pool", "database", "panel table"}
    [] id = "schema.analytics" -> {"analytics table", "plain table"}
    [] id = "schema.columns" -> {"column"}
    [] id = "grants.panel_isolation" -> {"panel unnamed", "panel reads"}
    [] id = "grants.api_read_only" -> {"api unnamed", "api writes"}
    [] id = "db.no_background_jobs" -> {"planted job"}
    [] id = "logs.writable" -> {"no log dir", "log dir gone", "log file", "log dir read-only"}
    [] id = "service" -> {"service down", "bad address"}
    [] OTHER -> {}

\* What was absent at some moment of the page, or passes unseen.
WasSeen(y) == y \in cleared \/ Unseen(y)

\* A page's answers are of its own time, and one that passed does not block.
PreflightInv ==
  /\ results \in Seq(CheckResults)
  /\ page # Blank => conditions \subseteq met /\ Conditions \ conditions \subseteq cleared
  /\ \A k \in 1..Len(results) :
       /\ results[k].blocks => results[k].status # "pass"
       /\ ~results[k].blocks => \A y \in Covers(Checks[k]) \cap Conditions : WasSeen(y)

\* Each check answers one of four things.
LEMMA ChecksAnswer ==
  ASSUME NEW k \in 1..Len(Checks), NEW p, NEW c, NEW l
  PROVE  Run(Checks[k], p, c, l) \in CheckAnswers
<1> DEFINE id == Checks[k]
<1> USE DEF CheckAnswers, Database, Information
<1>1. Len(Checks) = 17
  BY DEF Checks
<1>2. id \in {"schema.panel", "schema.analytics", "schema.columns", "grants.live_settings",
              "grants.panel_isolation", "grants.api_read_only", "db.connection_encrypted",
              "db.no_background_jobs", "retention.configured", "grants.roles_exist",
              "config.developer_password", "config.ip_token_key", "data.bot_fingerprints",
              "logs.writable", "disk.free", "backup.configured", "service"}
  BY <1>1 DEF Checks
<1> HIDE DEF id
<1>3. /\ checkPanelSchema(c, l) \in CheckAnswers
      /\ checkAnalyticsSchema(c, l) \in CheckAnswers
      /\ checkSelfMigratingColumns(c, l) \in CheckAnswers
      /\ checkSettingsGrant(c, l) \in CheckAnswers
      /\ checkPanelIsolation(c, l) \in CheckAnswers
      /\ checkAPIIsReadOnly(c, l) \in CheckAnswers
      /\ checkConnectionEncryption(c, l) \in CheckAnswers
      /\ checkNoBackgroundJobs(c, l) \in CheckAnswers
  BY DEF checkPanelSchema, checkAnalyticsSchema, checkSelfMigratingColumns, checkSettingsGrant,
         checkPanelIsolation, checkAPIIsReadOnly, checkConnectionEncryption, encryptionVerdict,
         checkNoBackgroundJobs
<1>4. /\ checkRetentionPolicies(c, l) \in CheckAnswers
      /\ checkConfiguredRolesExist(c, l) \in CheckAnswers
      /\ checkDeveloperPassword(c) \in CheckAnswers
      /\ checkIPTokenKey(c, l) \in CheckAnswers
      /\ checkBotData(c) \in CheckAnswers
      /\ checkLogDir(c) \in CheckAnswers
      /\ checkFreeSpace(c) \in CheckAnswers
      /\ checkBackups \in CheckAnswers /\ noServiceURLs \in CheckAnswers
      /\ checkService(c, l) \in CheckAnswers
  BY DEF checkRetentionPolicies, checkConfiguredRolesExist, checkDeveloperPassword,
         checkIPTokenKey, checkBotData, checkLogDir, checkFreeSpace, checkBackups,
         noServiceURLs, checkService
<1> QED
  BY <1>2, <1>3, <1>4 DEF Run, id

\* A required check that does not block has looked and found nothing, but for
\* what passes it unseen.
LEMMA UnblockedHasLooked ==
  ASSUME NEW id, NEW p, NEW c, NEW l, ~Blocks(Required(id, p, c), Run(id, p, c, l)),
         NEW y \in Covers(id), y \in c
  PROVE  \/ y = "plain table" /\ id = "schema.analytics" /\ Run(id, p, c, l) = "warn"
         \/ y = "panel reads" /\ "panel misnamed" \in c
         \/ y = "api writes" /\ "api misnamed" \in c
         \/ y \in {"service down", "bad address"} /\ (p = "health" \/ "no addresses" \in c)
<1> USE DEF Blocks, Required, Database, Information, Pool, Answers
<1>1. CASE id = "schema.panel"
  BY <1>1 DEF Covers, Run, checkPanelSchema, missingTables, panelTables
<1>2. CASE id = "schema.analytics"
  BY <1>2 DEF Covers, Run, checkAnalyticsSchema, missingTables
<1>3. CASE id = "schema.columns"
  BY <1>3 DEF Covers, Run, checkSelfMigratingColumns
<1>4. CASE id = "grants.panel_isolation"
  BY <1>4 DEF Covers, Run, checkPanelIsolation, Named, roleHasPrivilege, roleExists, unnamed,
              misnamed
<1>5. CASE id = "grants.api_read_only"
  BY <1>5 DEF Covers, Run, checkAPIIsReadOnly, Named, roleHasPrivilege, roleExists, unnamed,
              misnamed
<1>6. CASE id = "db.no_background_jobs"
  BY <1>6 DEF Covers, Run, checkNoBackgroundJobs
<1>7. CASE id = "logs.writable"
  BY <1>7 DEF Covers, Run, checkLogDir
<1>8. CASE id = "service"
  BY <1>8 DEF Covers, Run, checkService, Addresses
<1> QED
  BY <1>1, <1>2, <1>3, <1>4, <1>5, <1>6, <1>7, <1>8 DEF Covers

\* Nothing has been asked before the first page.
LEMMA PreflightStarts == PreflightInit => PreflightInv
<1> SUFFICES ASSUME PreflightInit PROVE PreflightInv
  OBVIOUS
<1>1. results = <<>> /\ page = Blank
  BY DEF PreflightInit
<1>2. results \in Seq(CheckResults) /\ Len(results) = 0
  BY <1>1
<1> QED
  BY <1>1, <1>2 DEF PreflightInv

\* A step of the checks, of a page, of the deployment.
LEMMA PreflightKeeps == PreflightInv /\ [PreflightNext]_preflightVars => PreflightInv'
<1> SUFFICES ASSUME PreflightInv, [PreflightNext]_preflightVars PROVE PreflightInv'
  OBVIOUS
<1>1. ASSUME NEW p \in Pages, AskForPage(p) PROVE PreflightInv'
  <2>1. /\ results' = <<>> /\ cleared' = Conditions \ conditions /\ met' = conditions
        /\ conditions' = conditions
    BY <1>1 DEF AskForPage
  <2>2. results' \in Seq(CheckResults) /\ Len(results') = 0
    BY <2>1
  <2> QED
    BY <2>1, <2>2 DEF PreflightInv
<1>2. CASE RunNext
  <2> DEFINE k == Len(results) + 1
             status == Run(Checks[k], page, conditions, late)
             r == [status |-> status, blocks |-> Blocks(Required(Checks[k], page, conditions), status)]
  <2>1. /\ page # Blank /\ k \in 1..Len(Checks) /\ results' = Append(results, r)
        /\ UNCHANGED <<conditions, page, cleared, met>>
    <3>1. Len(results) \in Nat /\ Len(Checks) = 17
      BY DEF PreflightInv, Checks
    <3> QED
      BY <1>2, <3>1 DEF RunNext
  <2>2. status \in CheckAnswers
    BY <2>1, ChecksAnswer
  <2>3. r \in CheckResults
    BY <2>2 DEF Blocks, Required, CheckResults
  <2>4. r.blocks => r.status # "pass"
    BY DEF Blocks
  <2>5. ASSUME ~r.blocks, NEW y \in Covers(Checks[k]) \cap Conditions
        PROVE  \/ y \in cleared
               \/ y = "plain table" /\ Checks[k] = "schema.analytics" /\ r.status = "warn"
               \/ y = "panel reads" /\ "panel misnamed" \in met
               \/ y = "api writes" /\ "api misnamed" \in met
               \/ y \in {"service down", "bad address"} /\ (page = "health" \/ "no addresses" \in met)
    <3>1. ~Blocks(Required(Checks[k], page, conditions), Run(Checks[k], page, conditions, late))
      BY <2>5
    <3>2. CASE y \in conditions
      <4> DEFINE id == Checks[k]
      <4>1. /\ ~Blocks(Required(id, page, conditions), Run(id, page, conditions, late))
            /\ y \in Covers(id) /\ r.status = Run(id, page, conditions, late) /\ conditions \subseteq met
        BY <2>1, <2>5, <3>1 DEF PreflightInv
      <4> HIDE DEF id, r, status, k
      <4>2. \/ y = "plain table" /\ id = "schema.analytics" /\ Run(id, page, conditions, late) = "warn"
            \/ y = "panel reads" /\ "panel misnamed" \in conditions
            \/ y = "api writes" /\ "api misnamed" \in conditions
            \/ y \in {"service down", "bad address"} /\ (page = "health" \/ "no addresses" \in conditions)
        BY <3>2, <4>1, UnblockedHasLooked
      <4> USE DEF id
      <4> QED
        BY <4>1, <4>2
    <3>3. CASE y \notin conditions
      BY <2>1, <3>3 DEF PreflightInv
    <3> QED
      BY <3>2, <3>3
  <2> HIDE DEF r, status
  <2>6. /\ results' \in Seq(CheckResults)
        /\ Len(results') = k /\ results'[k] = r
        /\ \A j \in 1..Len(results) : results'[j] = results[j]
    BY <2>1, <2>3 DEF PreflightInv
  <2>9. Len(results) \in Nat
    BY DEF PreflightInv
  <2>7. ASSUME NEW y, WasSeen(y) PROVE (y \in cleared \/ Unseen(y))'
    <3>1. \A id : OnlyWarned(id) => OnlyWarned(id)'
      BY <2>6, <2>9 DEF OnlyWarned, PreflightInv
    <3> QED
      BY <2>1, <2>7, <3>1 DEF WasSeen, Unseen
  <2>8. ASSUME NEW j \in 1..Len(results')
        PROVE  /\ results'[j].blocks => results'[j].status # "pass"
               /\ ~results'[j].blocks => \A y \in Covers(Checks[j]) \cap Conditions : WasSeen(y)'
    <3>1. CASE j = k
      <4>1. /\ results'[j].blocks => results'[j].status # "pass"
            /\ k \in DOMAIN results' /\ results'[k] = r
        BY <2>1, <2>4, <2>6, <2>9, <3>1
      <4>2. Checks[k] = "schema.analytics" /\ r.status = "warn" => OnlyWarned("schema.analytics")'
        BY <4>1 DEF OnlyWarned
      <4>3. ASSUME ~r.blocks, NEW y \in Covers(Checks[k]) \cap Conditions PROVE WasSeen(y)'
        BY <2>1, <2>5, <4>2, <4>3 DEF WasSeen, Unseen
      <4> QED
        BY <3>1, <4>1, <4>3
    <3>2. CASE j \in 1..Len(results)
      <4>1. results'[j] = results[j]
        BY <2>6, <3>2
      <4> QED
        BY <2>7, <3>2, <4>1 DEF PreflightInv, WasSeen
    <3> QED
      BY <2>9, <2>6, <3>1, <3>2
  <2> QED
    BY <2>1, <2>6, <2>8 DEF PreflightInv
<1>3. CASE \E v : Answered(v)
  <2>1. results' = <<>> /\ page' = Blank
    BY <1>3 DEF Answered
  <2>2. results' \in Seq(CheckResults) /\ Len(results') = 0
    BY <2>1
  <2> QED
    BY <2>1, <2>2 DEF PreflightInv
<1>4. CASE GiveUp
  BY <1>4 DEF GiveUp, PreflightInv, WasSeen, Unseen, OnlyWarned
<1>5. CASE Change
  <2>1. /\ cleared \subseteq cleared' /\ met \subseteq met' /\ UNCHANGED <<page, results>>
        /\ page # Blank => conditions' \subseteq met' /\ Conditions \ conditions' \subseteq cleared'
    BY <1>5 DEF Change
  <2> QED
    BY <2>1 DEF PreflightInv, WasSeen, Unseen, OnlyWarned
<1>6. CASE UNCHANGED preflightVars
  BY <1>6 DEF preflightVars, PreflightInv, WasSeen, Unseen, OnlyWarned
<1> QED
  BY <1>1, <1>2, <1>3, <1>4, <1>5, <1>6
     DEF PreflightNext, ShowDatabase, ShowChecks, loadHandover, handOver, healthChecks

\* A list that is complete and does not block has seen all there is to see.
LEMMA CompleteHasSeen ==
  ASSUME PreflightInv, Len(results) = Len(Checks), \A k \in DOMAIN results : ~results[k].blocks
  PROVE  \A y \in Disqualifying : WasSeen(y)
<1> SUFFICES ASSUME NEW y \in Disqualifying PROVE WasSeen(y)
  OBVIOUS
<1>1. /\ Len(Checks) = 17 /\ Checks[1] = "schema.panel" /\ Checks[2] = "schema.analytics"
      /\ Checks[3] = "schema.columns" /\ Checks[5] = "grants.panel_isolation"
      /\ Checks[6] = "grants.api_read_only" /\ Checks[8] = "db.no_background_jobs"
      /\ Checks[14] = "logs.writable" /\ Checks[17] = "service"
  BY DEF Checks
<1>2. /\ Covers("schema.panel") = {"no pool", "database", "panel table"}
      /\ Covers("schema.analytics") = {"analytics table", "plain table"}
      /\ Covers("schema.columns") = {"column"}
      /\ Covers("grants.panel_isolation") = {"panel unnamed", "panel reads"}
      /\ Covers("grants.api_read_only") = {"api unnamed", "api writes"}
      /\ Covers("db.no_background_jobs") = {"planted job"}
      /\ Covers("logs.writable") = {"no log dir", "log dir gone", "log file", "log dir read-only"}
      /\ Covers("service") = {"service down", "bad address"}
  BY DEF Covers
<1>3. PICK k \in {1, 2, 3, 5, 6, 8, 14, 17} : y \in Covers(Checks[k])
  BY <1>1, <1>2 DEF Disqualifying
<1>4. results \in Seq(CheckResults) /\ Len(results) = 17
  BY <1>1 DEF PreflightInv
<1>5. DOMAIN results = 1..17
  BY <1>4
<1> QED
  <2>1. k \in 1..Len(results) /\ ~results[k].blocks
    BY <1>3, <1>4, <1>5
  <2>2. y \in Conditions
    BY Zenon DEF Disqualifying
  <2> QED
    BY <1>3, <2>1, <2>2 DEF PreflightInv

\* preflight.go Complete and the pages that ask it: for any conditions, however
\* they come and go while the checks run, no page calls a deployment ready,
\* hands it over or finds it clear for an answer that is older than the page or
\* for a required check that failed or could not look, but for the three that
\* pass unseen: tables that a warning could not tell to be hypertables, the
\* grants of a role of another name, and services without an address.
THEOREM ReadyIsSeen == PreflightSpec => ReadyWhenSaid
<1>0. PreflightInv => DOMAIN results = 1..Len(results)
  BY DEF PreflightInv
<1>1. PreflightInv /\ [PreflightNext]_preflightVars =>
        [verdict' # verdict /\ verdict' \in {"ready", "handed over", "clear"}
           => \A y \in Disqualifying : y \in cleared \/ Unseen(y)]_preflightVars
  <2> SUFFICES ASSUME PreflightInv, PreflightNext,
                      verdict' # verdict, verdict' \in {"ready", "handed over", "clear"}
               PROVE  \A y \in Disqualifying : WasSeen(y)
    BY DEF WasSeen
  <2>1. /\ Len(results) = Len(Checks)
        /\ \A k \in DOMAIN results : ~results[k].blocks
    <3>1. CASE ShowChecks \/ loadHandover \/ handOver
      BY <3>1 DEF ShowChecks, loadHandover, handOver, Ran, Answered, Complete
    <3>2. CASE healthChecks
      <4>1. /\ Len(results) = Len(Checks)
            /\ ~(\E k \in {i \in DOMAIN results : results[i].status # "pass"} : results[k].blocks)
        BY <3>2 DEF healthChecks, Ran, Answered
      <4>2. DOMAIN results = 1..Len(results)
        BY <1>0
      <4>3. \A k \in 1..Len(results) : results[k].blocks => results[k].status # "pass"
        BY DEF PreflightInv
      <4> QED
        BY <4>1, <4>2, <4>3
    <3>3. CASE ShowDatabase \/ RunNext \/ GiveUp \/ Change
      BY <3>3 DEF ShowDatabase, RunNext, GiveUp, Change, Answered
    <3>4. CASE \E p \in Pages : AskForPage(p)
      <4>1. verdict' = Blank
        BY <3>4 DEF AskForPage
      <4>2. Blank \notin {"ready", "handed over", "clear"}
        BY Zenon DEF Blank
      <4> QED
        BY <4>1, <4>2
    <3> QED
      BY <3>1, <3>2, <3>3, <3>4 DEF PreflightNext
  <2> QED
    BY <2>1, CompleteHasSeen
<1> QED
  BY <1>1, PreflightStarts, PreflightKeeps, PTL DEF PreflightSpec, ReadyWhenSaid

=============================================================================
