---------------------------- MODULE TrafficProofs ----------------------------
(***************************************************************************)
(* What a collector in front of a site guarantees.  The passthrough proxy, *)
(* for any number of connections: slots follow handlers, and no splice     *)
(* outlives the drain's last round.  The idle rule its drain uses, for     *)
(* every quiet time, any number of requests on one connection and a clock  *)
(* of any length.  Full mode, for any connections, requests, addresses and *)
(* greetings.                                                              *)
(***************************************************************************)
EXTENDS Passthrough, IdleRule, FullProxy, TLAPS

-----------------------------------------------------------------------------
(* The passthrough proxy.                                                  *)

\* A splice has its backend attached, and nothing before one has.
Attachment ==
  \A c \in Callers :
    /\ stage[c] = "splice" => attached[c]
    /\ attached[c] => stage[c] \in {"splice", "release", "close", "done"}

\* The drain closes sockets in its rounds only.
Targeting == target # None => serve \in {"round", "cut"}

\* A mark is followed by the closing of what was there when it was set, and
\* of nothing that could come later: Attach looks at the mark.
MarkedClosed ==
  \A c \in Callers :
    marked[c] /\ c # target => ~client[c] /\ (attached[c] => backend[c] = "closed")

\* The last round marks every connection there is; no more are accepted.
AllMarked ==
  /\ serve = "cut" => \A c \in live \ todo : marked[c]
  /\ serve \in {"grace", "drained", "stuck"} => \A c \in live : marked[c]

IInv ==
  TypeOK /\ SlotsFollowHandlers /\ Attachment /\ Targeting /\ MarkedClosed /\ AllMarked

\* Before the first Accept nothing is live, held or marked.
LEMMA InitIInv == Init => IInv
<1> SUFFICES ASSUME Init PROVE IInv
  OBVIOUS
<1>1. TypeOK
  BY DEF Init, GateInit, TypeOK, GateTypeOK, GateStates, Stages
<1>2. SlotsFollowHandlers
  BY DEF Init, GateInit, SlotsFollowHandlers, Holders, Admitted
<1>3. Attachment /\ Targeting /\ MarkedClosed /\ AllMarked
  BY DEF Init, Attachment, Targeting, MarkedClosed, AllMarked
<1> QED
  BY <1>1, <1>2, <1>3 DEF IInv

\* Every step keeps the types and the set of live connections.
LEMMA NextTypeOK == IInv /\ [Next]_vars => TypeOK'
<1> SUFFICES ASSUME IInv, [Next]_vars PROVE TypeOK'
  OBVIOUS
<1> DEFINE Goal == TypeOK'
<1> USE NoneAssumption DEF IInv, TypeOK, GateTypeOK, GateStates, Stages, Holders
<1>1. ASSUME NEW c \in Callers, GeoRefuse(c) PROVE Goal
  BY <1>1 DEF GeoRefuse, Goto, gateVars, handlerVars, drainVars
<1>2. ASSUME NEW c \in Callers, GeoPass(c) PROVE Goal
  BY <1>2 DEF GeoPass, Goto, gateVars, handlerVars, drainVars
<1>3. ASSUME NEW c \in Callers, Panic(c) PROVE Goal
  BY <1>3 DEF Panic, Goto, gateVars, handlerVars, drainVars
<1>4. ASSUME NEW c \in Callers, Accept(c) PROVE Goal
  BY <1>4 DEF Accept, Goto, gateVars, handlerVars, drainVars
<1>5. ASSUME NEW c \in Callers, AdmitRefuse(c) PROVE Goal
  BY <1>5 DEF AdmitRefuse, Refuse, Goto, gateVars, handlerVars, drainVars
<1>6. ASSUME NEW c \in Callers, AdmitDegrade(c) PROVE Goal
  BY <1>6 DEF AdmitDegrade, Degrade, Goto, gateVars, handlerVars, drainVars
<1>7. ASSUME NEW c \in Callers, NEW m \in Caps, AdmitProceed(c, m) PROVE Goal
  BY <1>7 DEF AdmitProceed, Proceed, Goto, gateVars, handlerVars, drainVars
<1>8. ASSUME NEW c \in Callers, Sniff(c) PROVE Goal
  BY <1>8 DEF Sniff, Goto, gateVars, handlerVars, drainVars
<1>9. ASSUME NEW c \in Callers, DialFails(c) PROVE Goal
  BY <1>9 DEF DialFails, Goto, gateVars, handlerVars, drainVars
<1>10. ASSUME NEW c \in Callers, Dialled(c) PROVE Goal
  BY <1>10 DEF Dialled, Goto, gateVars, handlerVars, drainVars
<1>11. ASSUME NEW c \in Callers, Attach(c) PROVE Goal
  <2>1. CASE marked[c]
    BY <1>11, <2>1 DEF Attach, Goto, gateVars, handlerVars, drainVars
  <2>2. CASE ~marked[c]
    <3>1. attached' \in [Callers -> BOOLEAN]
      BY <1>11, <2>2 DEF Attach
    <3> QED
      BY <1>11, <2>2, <3>1 DEF Attach, Goto, gateVars, handlerVars, drainVars
  <2> QED
    BY <2>1, <2>2
<1>12. ASSUME NEW c \in Callers, NEW d \in {"up", "down"}, CopyEnds(c, d) PROVE Goal
  BY <1>12 DEF CopyEnds, Goto, gateVars, handlerVars, drainVars
<1>13. ASSUME NEW c \in Callers, SpliceEnds(c) PROVE Goal
  BY <1>13 DEF SpliceEnds, Goto, gateVars, handlerVars, drainVars
<1>14. ASSUME NEW c \in Callers, ReleaseSlot(c) PROVE Goal
  BY <1>14 DEF ReleaseSlot, GiveBack, Goto, gateVars, handlerVars, drainVars
<1>15. ASSUME NEW c \in Callers, Finish(c) PROVE Goal
  BY <1>15 DEF Finish, Goto, gateVars, handlerVars, drainVars
<1>16. ASSUME NEW c \in Callers, LookIdle(c) PROVE Goal
  BY <1>16 DEF LookIdle, Mark, Goto, gateVars, handlerVars, drainVars
<1>17. ASSUME NEW c \in Callers, LookBusy(c) PROVE Goal
  BY <1>17 DEF LookBusy, Goto, gateVars, handlerVars, drainVars
<1>18. ASSUME NEW c \in Callers, CutConn(c) PROVE Goal
  BY <1>18 DEF CutConn, Mark, Goto, gateVars, handlerVars, drainVars
<1>19. CASE AcceptFails
  BY <1>19 DEF AcceptFails, Goto, gateVars, handlerVars, drainVars
<1>20. CASE Cancel
  BY <1>20 DEF Cancel, Goto, gateVars, handlerVars, drainVars
<1>21. CASE StartDrain
  BY <1>21 DEF StartDrain, Goto, gateVars, handlerVars, drainVars
<1>22. CASE CloseSockets
  BY <1>22 DEF CloseSockets, Goto, gateVars, handlerVars, drainVars
<1>23. CASE RoundEnds
  BY <1>23 DEF RoundEnds, Goto, gateVars, handlerVars, drainVars
<1>24. CASE DrainDone
  BY <1>24 DEF DrainDone, Goto, gateVars, handlerVars, drainVars
<1>25. CASE Poll
  BY <1>25 DEF Poll, Goto, gateVars, handlerVars, drainVars
<1>26. CASE Deadline
  BY <1>26 DEF Deadline, Goto, gateVars, handlerVars, drainVars
<1>27. CASE CutAll
  BY <1>27 DEF CutAll, Goto, gateVars, handlerVars, drainVars
<1>28. CASE GraceDone
  BY <1>28 DEF GraceDone, Goto, gateVars, handlerVars, drainVars
<1>29. CASE GraceOver
  BY <1>29 DEF GraceOver, Goto, gateVars, handlerVars, drainVars
<1>30. CASE UNCHANGED vars
  BY <1>30 DEF vars, Goto, gateVars, handlerVars, drainVars
<1> HIDE DEF IInv, Goal
<1> QED
  BY <1>1, <1>2, <1>3, <1>4, <1>5, <1>6, <1>7, <1>8, <1>9, <1>10, <1>11, <1>12, <1>13,
     <1>14, <1>15, <1>16, <1>17, <1>18, <1>19, <1>20, <1>21, <1>22, <1>23, <1>24,
     <1>25, <1>26, <1>27, <1>28, <1>29, <1>30
     DEF Next, HandlerStep, AdmitStep, DialStep, DrainStep, Goal

\* The gate and the handlers move together at every stage.
LEMMA NextSlots == IInv /\ [Next]_vars => SlotsFollowHandlers'
<1> SUFFICES ASSUME IInv, [Next]_vars PROVE SlotsFollowHandlers'
  OBVIOUS
<1> DEFINE Goal == SlotsFollowHandlers'
<1> USE NoneAssumption DEF IInv, TypeOK, GateTypeOK, GateStates, Stages, SlotsFollowHandlers, Holders, Admitted
<1>1. ASSUME NEW c \in Callers, GeoRefuse(c) PROVE Goal
  BY <1>1 DEF GeoRefuse, Goto, gateVars, handlerVars, drainVars
<1>2. ASSUME NEW c \in Callers, GeoPass(c) PROVE Goal
  BY <1>2 DEF GeoPass, Goto, gateVars, handlerVars, drainVars
<1>3. ASSUME NEW c \in Callers, Panic(c) PROVE Goal
  BY <1>3 DEF Panic, Goto, gateVars, handlerVars, drainVars
<1>4. ASSUME NEW c \in Callers, Accept(c) PROVE Goal
  BY <1>4 DEF Accept, Goto, gateVars, handlerVars, drainVars
<1>5. ASSUME NEW c \in Callers, AdmitRefuse(c) PROVE Goal
  BY <1>5 DEF AdmitRefuse, Refuse, Goto, gateVars, handlerVars, drainVars
<1>6. ASSUME NEW c \in Callers, AdmitDegrade(c) PROVE Goal
  BY <1>6 DEF AdmitDegrade, Degrade, Goto, gateVars, handlerVars, drainVars
<1>7. ASSUME NEW c \in Callers, NEW m \in Caps, AdmitProceed(c, m) PROVE Goal
  BY <1>7 DEF AdmitProceed, Proceed, Goto, gateVars, handlerVars, drainVars
<1>8. ASSUME NEW c \in Callers, Sniff(c) PROVE Goal
  BY <1>8 DEF Sniff, Goto, gateVars, handlerVars, drainVars
<1>9. ASSUME NEW c \in Callers, DialFails(c) PROVE Goal
  BY <1>9 DEF DialFails, Goto, gateVars, handlerVars, drainVars
<1>10. ASSUME NEW c \in Callers, Dialled(c) PROVE Goal
  BY <1>10 DEF Dialled, Goto, gateVars, handlerVars, drainVars
<1>11. ASSUME NEW c \in Callers, Attach(c) PROVE Goal
  BY <1>11 DEF Attach, Goto, gateVars, handlerVars, drainVars
<1>12. ASSUME NEW c \in Callers, NEW d \in {"up", "down"}, CopyEnds(c, d) PROVE Goal
  BY <1>12 DEF CopyEnds, Goto, gateVars, handlerVars, drainVars
<1>13. ASSUME NEW c \in Callers, SpliceEnds(c) PROVE Goal
  BY <1>13 DEF SpliceEnds, Goto, gateVars, handlerVars, drainVars
<1>14. ASSUME NEW c \in Callers, ReleaseSlot(c) PROVE Goal
  BY <1>14 DEF ReleaseSlot, GiveBack, Goto, gateVars, handlerVars, drainVars
<1>15. ASSUME NEW c \in Callers, Finish(c) PROVE Goal
  BY <1>15 DEF Finish, Goto, gateVars, handlerVars, drainVars
<1>16. ASSUME NEW c \in Callers, LookIdle(c) PROVE Goal
  BY <1>16 DEF LookIdle, Mark, Goto, gateVars, handlerVars, drainVars
<1>17. ASSUME NEW c \in Callers, LookBusy(c) PROVE Goal
  BY <1>17 DEF LookBusy, Goto, gateVars, handlerVars, drainVars
<1>18. ASSUME NEW c \in Callers, CutConn(c) PROVE Goal
  BY <1>18 DEF CutConn, Mark, Goto, gateVars, handlerVars, drainVars
<1>19. CASE AcceptFails
  BY <1>19 DEF AcceptFails, Goto, gateVars, handlerVars, drainVars
<1>20. CASE Cancel
  BY <1>20 DEF Cancel, Goto, gateVars, handlerVars, drainVars
<1>21. CASE StartDrain
  BY <1>21 DEF StartDrain, Goto, gateVars, handlerVars, drainVars
<1>22. CASE CloseSockets
  BY <1>22 DEF CloseSockets, Goto, gateVars, handlerVars, drainVars
<1>23. CASE RoundEnds
  BY <1>23 DEF RoundEnds, Goto, gateVars, handlerVars, drainVars
<1>24. CASE DrainDone
  BY <1>24 DEF DrainDone, Goto, gateVars, handlerVars, drainVars
<1>25. CASE Poll
  BY <1>25 DEF Poll, Goto, gateVars, handlerVars, drainVars
<1>26. CASE Deadline
  BY <1>26 DEF Deadline, Goto, gateVars, handlerVars, drainVars
<1>27. CASE CutAll
  BY <1>27 DEF CutAll, Goto, gateVars, handlerVars, drainVars
<1>28. CASE GraceDone
  BY <1>28 DEF GraceDone, Goto, gateVars, handlerVars, drainVars
<1>29. CASE GraceOver
  BY <1>29 DEF GraceOver, Goto, gateVars, handlerVars, drainVars
<1>30. CASE UNCHANGED vars
  BY <1>30 DEF vars, Goto, gateVars, handlerVars, drainVars
<1> HIDE DEF IInv, Goal
<1> QED
  BY <1>1, <1>2, <1>3, <1>4, <1>5, <1>6, <1>7, <1>8, <1>9, <1>10, <1>11, <1>12, <1>13,
     <1>14, <1>15, <1>16, <1>17, <1>18, <1>19, <1>20, <1>21, <1>22, <1>23, <1>24,
     <1>25, <1>26, <1>27, <1>28, <1>29, <1>30
     DEF Next, HandlerStep, AdmitStep, DialStep, DrainStep, Goal

\* A mark closes what is attached and keeps anything more from being attached.
LEMMA NextSplice == IInv /\ [Next]_vars => Attachment' /\ Targeting' /\ MarkedClosed' /\ AllMarked'
<1> SUFFICES ASSUME IInv, [Next]_vars PROVE Attachment' /\ Targeting' /\ MarkedClosed' /\ AllMarked'
  OBVIOUS
<1> DEFINE Goal == Attachment' /\ Targeting' /\ MarkedClosed' /\ AllMarked'
<1> USE NoneAssumption DEF IInv, TypeOK, Stages, Attachment, Targeting, MarkedClosed, AllMarked
<1>1. ASSUME NEW c \in Callers, GeoRefuse(c) PROVE Goal
  BY <1>1 DEF GeoRefuse, Goto, gateVars, handlerVars, drainVars
<1>2. ASSUME NEW c \in Callers, GeoPass(c) PROVE Goal
  BY <1>2 DEF GeoPass, Goto, gateVars, handlerVars, drainVars
<1>3. ASSUME NEW c \in Callers, Panic(c) PROVE Goal
  BY <1>3 DEF Panic, Goto, gateVars, handlerVars, drainVars
<1>4. ASSUME NEW c \in Callers, Accept(c) PROVE Goal
  BY <1>4 DEF Accept, Goto, gateVars, handlerVars, drainVars
<1>5. ASSUME NEW c \in Callers, AdmitRefuse(c) PROVE Goal
  BY <1>5 DEF AdmitRefuse, Refuse, Goto, gateVars, handlerVars, drainVars
<1>6. ASSUME NEW c \in Callers, AdmitDegrade(c) PROVE Goal
  BY <1>6 DEF AdmitDegrade, Degrade, Goto, gateVars, handlerVars, drainVars
<1>7. ASSUME NEW c \in Callers, NEW m \in Caps, AdmitProceed(c, m) PROVE Goal
  BY <1>7 DEF AdmitProceed, Proceed, Goto, gateVars, handlerVars, drainVars
<1>8. ASSUME NEW c \in Callers, Sniff(c) PROVE Goal
  BY <1>8 DEF Sniff, Goto, gateVars, handlerVars, drainVars
<1>9. ASSUME NEW c \in Callers, DialFails(c) PROVE Goal
  BY <1>9 DEF DialFails, Goto, gateVars, handlerVars, drainVars
<1>10. ASSUME NEW c \in Callers, Dialled(c) PROVE Goal
  BY <1>10 DEF Dialled, Goto, gateVars, handlerVars, drainVars
<1>11. ASSUME NEW c \in Callers, Attach(c) PROVE Goal
  BY <1>11 DEF Attach, Goto, gateVars, handlerVars, drainVars
<1>12. ASSUME NEW c \in Callers, NEW d \in {"up", "down"}, CopyEnds(c, d) PROVE Goal
  BY <1>12 DEF CopyEnds, Goto, gateVars, handlerVars, drainVars
<1>13. ASSUME NEW c \in Callers, SpliceEnds(c) PROVE Goal
  BY <1>13 DEF SpliceEnds, Goto, gateVars, handlerVars, drainVars
<1>14. ASSUME NEW c \in Callers, ReleaseSlot(c) PROVE Goal
  BY <1>14 DEF ReleaseSlot, GiveBack, Goto, gateVars, handlerVars, drainVars
<1>15. ASSUME NEW c \in Callers, Finish(c) PROVE Goal
  BY <1>15 DEF Finish, Goto, gateVars, handlerVars, drainVars
<1>16. ASSUME NEW c \in Callers, LookIdle(c) PROVE Goal
  BY <1>16 DEF LookIdle, Mark, Goto, gateVars, handlerVars, drainVars
<1>17. ASSUME NEW c \in Callers, LookBusy(c) PROVE Goal
  BY <1>17 DEF LookBusy, Goto, gateVars, handlerVars, drainVars
<1>18. ASSUME NEW c \in Callers, CutConn(c) PROVE Goal
  BY <1>18 DEF CutConn, Mark, Goto, gateVars, handlerVars, drainVars
<1>19. CASE AcceptFails
  BY <1>19 DEF AcceptFails, Goto, gateVars, handlerVars, drainVars
<1>20. CASE Cancel
  BY <1>20 DEF Cancel, Goto, gateVars, handlerVars, drainVars
<1>21. CASE StartDrain
  BY <1>21 DEF StartDrain, Goto, gateVars, handlerVars, drainVars
<1>22. CASE CloseSockets
  BY <1>22 DEF CloseSockets, Goto, gateVars, handlerVars, drainVars
<1>23. CASE RoundEnds
  BY <1>23 DEF RoundEnds, Goto, gateVars, handlerVars, drainVars
<1>24. CASE DrainDone
  BY <1>24 DEF DrainDone, Goto, gateVars, handlerVars, drainVars
<1>25. CASE Poll
  BY <1>25 DEF Poll, Goto, gateVars, handlerVars, drainVars
<1>26. CASE Deadline
  BY <1>26 DEF Deadline, Goto, gateVars, handlerVars, drainVars
<1>27. CASE CutAll
  BY <1>27 DEF CutAll, Goto, gateVars, handlerVars, drainVars
<1>28. CASE GraceDone
  BY <1>28 DEF GraceDone, Goto, gateVars, handlerVars, drainVars
<1>29. CASE GraceOver
  BY <1>29 DEF GraceOver, Goto, gateVars, handlerVars, drainVars
<1>30. CASE UNCHANGED vars
  BY <1>30 DEF vars, Goto, gateVars, handlerVars, drainVars
<1> HIDE DEF IInv, Goal
<1> QED
  BY <1>1, <1>2, <1>3, <1>4, <1>5, <1>6, <1>7, <1>8, <1>9, <1>10, <1>11, <1>12, <1>13,
     <1>14, <1>15, <1>16, <1>17, <1>18, <1>19, <1>20, <1>21, <1>22, <1>23, <1>24,
     <1>25, <1>26, <1>27, <1>28, <1>29, <1>30
     DEF Next, HandlerStep, AdmitStep, DialStep, DrainStep, Goal

\* The inductive invariant holds.
LEMMA Invariance == Spec => []IInv
<1>1. IInv /\ [Next]_vars => IInv'
  BY NextTypeOK, NextSlots, NextSplice DEF IInv
<1> QED
  BY <1>1, InitIInv, PTL DEF Spec

\* The types, and that the set of live connections is that of the handlers
\* not yet done.
THEOREM TypeCorrect == Spec => []TypeOK
<1>1. IInv => TypeOK
  BY DEF IInv
<1> QED
  BY <1>1, Invariance, PTL

\* handleConn's deferred release: no handler ends with its slot, and none
\* gives back a slot it does not hold, on any path out of it.
THEOREM SlotsAreHeldByHandlers == Spec => []SlotsFollowHandlers
<1>1. IInv => SlotsFollowHandlers
  BY DEF IInv
<1> QED
  BY <1>1, Invariance, PTL

\* tracked.close and tracked.attach: however dials and the drain's last round
\* interleave, what is spliced after it has both of its sockets closed.
THEOREM NoSpliceOutlivesDrain == Spec => []NoSpliceSurvives
<1>1. IInv => NoSpliceSurvives
  BY NoneAssumption DEF IInv, TypeOK, Attachment, Targeting, MarkedClosed, AllMarked, NoSpliceSurvives
<1> QED
  BY <1>1, Invariance, PTL

-----------------------------------------------------------------------------
(* The idle rule.                                                          *)

\* A request that waits in none of the three shapes was the last to move
\* data: it came after whatever went out.
LastToSpeak ==
  open > 0 /\ ~behind /\ ~tied /\ ~begun => received /\ (sent => lastOut < lastIn)

IdleInv == IdleTypeOK /\ LastToSpeak

\* A connection on which nothing has been said satisfies the invariant.
LEMMA IdleStarts == IdleInit => IdleInv
<1> SUFFICES ASSUME IdleInit PROVE IdleInv
  OBVIOUS
<1>1. IdleTypeOK
  <2>1. clock \in 0..MaxTime /\ lastOut \in 0..clock /\ lastIn \in 0..clock /\ open \in 0..MaxOpen
    BY IdleAssumption DEF IdleInit
  <2>2. /\ sent \in BOOLEAN /\ received \in BOOLEAN /\ inFlight \in BOOLEAN
        /\ behind \in BOOLEAN /\ tied \in BOOLEAN /\ begun \in BOOLEAN
    BY DEF IdleInit
  <2> QED
    BY <2>1, <2>2 DEF IdleTypeOK
<1>2. LastToSpeak
  BY DEF IdleInit, LastToSpeak
<1> QED
  BY <1>1, <1>2 DEF IdleInv

\* Every event on a connection keeps who spoke last in step with what waits.
LEMMA IdleKeeps == IdleInv /\ [IdleNext]_idleVars => IdleInv'
<1> SUFFICES ASSUME IdleInv, [IdleNext]_idleVars PROVE IdleInv'
  OBVIOUS
<1> USE IdleAssumption DEF IdleInv, IdleTypeOK, LastToSpeak
<1>1. CASE Ask
  BY <1>1 DEF Ask
<1>2. CASE Answer
  BY <1>2 DEF Answer
<1>3. CASE Begin
  BY <1>3 DEF Begin
<1>4. CASE Acknowledged
  BY <1>4 DEF Acknowledged, historyVars
<1>5. CASE Tick
  BY <1>5 DEF Tick, kernelVars, historyVars
<1>6. CASE Chat
  BY <1>6 DEF Chat, historyVars
<1>7. CASE UNCHANGED idleVars
  BY <1>7 DEF idleVars, kernelVars, historyVars
<1> QED
  BY <1>1, <1>2, <1>3, <1>4, <1>5, <1>6, <1>7 DEF IdleNext

\* The inductive invariant holds.
LEMMA IdleInvariance == IdleSpec => []IdleInv
  BY IdleStarts, IdleKeeps, PTL DEF IdleSpec

\* view.idle closes a connection on which a request waits only in the three
\* shapes, whatever DrainIdle is and however many requests share it.
THEOREM CutsAreShapes == IdleSpec => []IdleCutsOnly
<1>1. IdleInv => IdleCutsOnly
  BY IdleAssumption DEF IdleInv, IdleTypeOK, LastToSpeak, IdleCutsOnly, Idle, ToClient, FromClient
<1> QED
  BY <1>1, IdleInvariance, PTL

-----------------------------------------------------------------------------
(* Full mode.                                                              *)

Places == {"none", "greeting", "open", "gone"}
Greetings == Hellos \cup {""}
Shape == [at : Places, hello : Greetings, capturing : BOOLEAN,
          fp : Greetings, ip : Addresses \cup {""}, h2 : BOOLEAN]
Handling == {"geo", "admit", "record", "serve"}

FullTypeOK ==
  /\ GateTypeOK
  /\ conn \in [Conns -> Shape]
  /\ request \in [Callers -> Handling \cup {"none", "answered"}]
  /\ serving \in {"on", "draining", "returned", "failed"}

\* A handler runs on an open connection, or for a client of HTTP/2 that gave
\* its request up: nothing closes a connection under a request that waits.
BusyOpen ==
  \A q \in Callers :
    /\ request[q] # "none" => conn[Of(q)].at \in {"open", "gone"}
    /\ request[q] \in Handling /\ conn[Of(q)].at = "gone" => conn[Of(q)].h2 /\ q \in given

\* Where a handler is, against where its request stands with the limiter.
GateFollows ==
  \A q \in Callers :
    /\ request[q] \in {"none", "geo", "admit"} => gate[q] = "asking"
    /\ request[q] = "answered" => gate[q] \in {"asking", "gone"}

\* A request made under a block that still holds has not passed geoBlocked,
\* or was stopped by it: it never reached the limiter.
BarredOut ==
  \A q \in barred :
    /\ q \in Callers /\ conn[Of(q)].ip \in blocked
    /\ request[q] \in {"geo", "answered"} /\ gate[q] = "asking"

\* Serve returned nil with every connection closed, and accepts no more.
ReturnedClosed ==
  serving = "returned" => \A c \in Conns : conn[c].at \in {"none", "gone"}

FullInv ==
  FullTypeOK /\ BusyOpen /\ GateFollows /\ BarredOut /\ ReturnedClosed

USE FullAssumption

\* Before the first connection nothing is open, asked or barred.
LEMMA FullStarts == FullInit => FullInv
<1> SUFFICES ASSUME FullInit PROVE FullInv
  OBVIOUS
<1>1. FullTypeOK
  <2>1. GateTypeOK /\ request \in [Callers -> Handling \cup {"none", "answered"}]
    BY DEF FullInit, GateInit, GateTypeOK, GateStates
  <2>2. Unaccepted \in Shape
    BY DEF Unaccepted, Shape, Places, Greetings
  <2> QED
    BY <2>1, <2>2 DEF FullInit, FullTypeOK
<1>2. BusyOpen /\ GateFollows /\ BarredOut /\ ReturnedClosed
  BY DEF FullInit, GateInit, BusyOpen, GateFollows, BarredOut, ReturnedClosed, Handling
<1> QED
  BY <1>1, <1>2 DEF FullInv

\* A step of a connection closes it under no request that waits, and leaves
\* the address of every connection that has asked anything.
LEMMA ConnKeeps ==
  ASSUME FullInv, NEW c \in Conns,
         \/ \E ip \in Addresses : SnoopAccept(c, ip)
         \/ \E h \in Hellos : Greet(c, h)
         \/ CaptureFingerprint(c) \/ Leave(c) \/ Shutdown(c)
  PROVE  FullInv'
<1> USE DEF FullInv
<1>1. UNCHANGED <<gate, cap, request, blocked, serving, barred>>
  BY DEF SnoopAccept, Greet, CaptureFingerprint, Leave, Shutdown, gateVars
<1>2. conn[c] \in Shape
  BY DEF FullTypeOK
<1>3. \E v \in Shape : conn' = [conn EXCEPT ![c] = v]
  <2>1. ASSUME NEW ip \in Addresses, SnoopAccept(c, ip) PROVE <1>3
    BY <2>1 DEF SnoopAccept, Unaccepted, Shape, Places, Greetings
  <2>2. ASSUME NEW h \in Hellos, Greet(c, h) PROVE <1>3
    BY <1>2, <2>2 DEF Greet, Shape, Greetings
  <2>3. ASSUME CaptureFingerprint(c) PROVE <1>3
    <3>1. PICK h2 \in BOOLEAN :
            conn' = [conn EXCEPT ![c].at = "open", ![c].capturing = FALSE,
                                 ![c].fp = Fingerprint(c), ![c].h2 = h2]
      BY <2>3 DEF CaptureFingerprint
    <3>2. Fingerprint(c) \in Greetings
      BY <1>2 DEF Fingerprint, Shape, Greetings
    <3> DEFINE v == [conn[c] EXCEPT !.at = "open", !.capturing = FALSE, !.fp = Fingerprint(c), !.h2 = h2]
    <3>3. v \in Shape
      BY <1>2, <3>2 DEF Shape, Places
    <3>4. conn' = [conn EXCEPT ![c] = v]
      BY <3>1
    <3> QED
      BY <3>3, <3>4
  <2>4. ASSUME Leave(c) \/ Shutdown(c) PROVE <1>3
    BY <1>2, <2>4 DEF Leave, Shutdown, Shape, Greetings, Places
  <2> QED
    BY <2>1, <2>2, <2>3, <2>4
<1>4. conn' \in [Conns -> Shape] /\ \A d \in Conns : d # c => conn'[d] = conn[d]
  BY <1>3 DEF FullTypeOK
<1>5. \/ conn[c].at = "none" /\ conn'[c].at = "greeting" /\ serving = "on" /\ given' = given
      \/ /\ conn[c].at = "greeting" /\ conn'[c].at \in {"greeting", "open"} /\ given' = given
         /\ conn'[c].ip = conn[c].ip
      \/ /\ conn[c].at \in {"greeting", "open"} /\ conn'[c].at = "gone"
         /\ conn'[c].ip = conn[c].ip /\ conn'[c].h2 = conn[c].h2
         /\ given \subseteq given'
         /\ \A q \in Running(c) : conn[c].h2 /\ q \in given'
  <2>1. ASSUME NEW ip \in Addresses, SnoopAccept(c, ip) PROVE <1>5!1
    BY <2>1 DEF FullTypeOK, SnoopAccept, Unaccepted
  <2>2. ASSUME NEW h \in Hellos, Greet(c, h) PROVE <1>5!2
    BY <1>2, <2>2 DEF FullTypeOK, Shape, Greet
  <2>3. ASSUME CaptureFingerprint(c) PROVE <1>5!2
    <3>1. PICK h2 \in BOOLEAN :
            conn' = [conn EXCEPT ![c].at = "open", ![c].capturing = FALSE,
                                 ![c].fp = Fingerprint(c), ![c].h2 = h2]
      BY <2>3 DEF CaptureFingerprint
    <3>2. conn'[c].at = "open" /\ conn'[c].ip = conn[c].ip
      BY <1>2, <3>1 DEF FullTypeOK, Shape
    <3> QED
      BY <2>3, <3>2 DEF CaptureFingerprint
  <2>4. ASSUME Leave(c) PROVE <1>5!3
    BY <1>2, <2>4 DEF FullTypeOK, Shape, Leave
  <2>5. ASSUME Shutdown(c) PROVE <1>5!3
    BY <1>2, <2>5 DEF FullTypeOK, Shape, Shutdown, CloseIdle, Streams
  <2> QED
    BY <2>1, <2>2, <2>3, <2>4, <2>5
<1>6. FullTypeOK'
  BY <1>1, <1>4 DEF FullTypeOK, GateTypeOK
<1>7. given \subseteq given'
  BY <1>5
<1>8. BusyOpen'
  <2> SUFFICES ASSUME NEW q \in Callers
               PROVE  /\ request'[q] # "none" => conn'[Of(q)].at \in {"open", "gone"}
                      /\ request'[q] \in Handling /\ conn'[Of(q)].at = "gone"
                           => conn'[Of(q)].h2 /\ q \in given'
    BY DEF BusyOpen
  <2>1. CASE Of(q) # c
    BY <1>1, <1>4, <1>7, <2>1 DEF BusyOpen
  <2>2. CASE Of(q) = c
    BY <1>1, <1>5, <2>2 DEF BusyOpen, Running, Handling
  <2> QED
    BY <2>1, <2>2
<1>9. GateFollows'
  BY <1>1 DEF GateFollows
<1>10. BarredOut'
  BY <1>1, <1>4, <1>5 DEF BarredOut, BusyOpen
<1>11. ReturnedClosed'
  BY <1>1, <1>4, <1>5 DEF ReturnedClosed
<1> QED
  BY <1>6, <1>8, <1>9, <1>10, <1>11

\* A step of a request: one that is barred goes no further than geoBlocked.
LEMMA RequestKeeps ==
  ASSUME FullInv, NEW q \in Callers,
         AskRequest(q) \/ GiveUp(q) \/ GeoCheck(q) \/ Admit(q) \/ Record(q) \/ AnswerRequest(q)
  PROVE  FullInv'
<1> USE DEF FullInv
<1>1. UNCHANGED <<conn, blocked, serving>> /\ given \subseteq given'
  BY DEF AskRequest, GiveUp, GeoCheck, Admit, Record, AnswerRequest
<1>2. ReturnedClosed'
  BY <1>1 DEF ReturnedClosed
<1>3. FullTypeOK'
  <2>1. \/ UNCHANGED gateVars
        \/ (\E m \in Caps : Proceed(q, m)) \/ Degrade(q) \/ Refuse(q) \/ GiveBack(q)
    BY DEF AskRequest, GiveUp, GeoCheck, Admit, Record, AnswerRequest
  <2>2. GateTypeOK'
    BY <2>1 DEF FullTypeOK, GateTypeOK, GateStates, Proceed, Degrade, Refuse, GiveBack, gateVars
  <2>3. request' \in [Callers -> Handling \cup {"none", "answered"}]
    BY DEF FullTypeOK, Handling, AskRequest, GiveUp, GeoCheck, Admit, Record, AnswerRequest
  <2> QED
    BY <1>1, <2>2, <2>3 DEF FullTypeOK
<1>4. BusyOpen'
  BY <1>1 DEF BusyOpen, FullTypeOK, Handling, AskRequest, GiveUp, GeoCheck, Admit, Record, AnswerRequest
<1>5. GateFollows'
  BY DEF GateFollows, FullTypeOK, GateTypeOK, Handling, AskRequest, GiveUp, GeoCheck, Admit, Record,
         AnswerRequest, Proceed, Degrade, Refuse, GiveBack, gateVars
<1>6. BarredOut'
  <2>1. CASE AskRequest(q)
    BY <1>1, <2>1 DEF BarredOut, GateFollows, FullTypeOK, AskRequest, gateVars
  <2>2. CASE GeoCheck(q)
    BY <1>1, <2>2 DEF BarredOut, FullTypeOK, GeoCheck, gateVars
  <2>3. CASE GiveUp(q)
    BY <1>1, <2>3 DEF BarredOut, GiveUp, gateVars
  <2>4. CASE Admit(q) \/ Record(q) \/ AnswerRequest(q)
    <3>1. q \notin barred
      BY <2>4 DEF BarredOut, Admit, Record, AnswerRequest
    <3>2. barred' = barred /\ \A p \in Callers \ {q} : request'[p] = request[p] /\ gate'[p] = gate[p]
      BY <2>4 DEF FullTypeOK, GateTypeOK, Admit, Record, AnswerRequest,
                  Proceed, Degrade, Refuse, GiveBack, gateVars
    <3> QED
      BY <1>1, <3>1, <3>2 DEF BarredOut
  <2> QED
    BY <2>1, <2>2, <2>3, <2>4
<1> QED
  BY <1>2, <1>3, <1>4, <1>5, <1>6

\* Serve's own steps; Shutdown returns nil only with every connection closed.
LEMMA ServeKeeps ==
  ASSUME FullInv, SetBlocklist \/ CancelFull \/ Return \/ UNCHANGED fullVars
  PROVE  FullInv'
<1>1. UNCHANGED <<gate, cap, conn, request, given>>
  BY DEF SetBlocklist, CancelFull, Return, fullVars, gateVars
<1>2. FullTypeOK' /\ ReturnedClosed'
  BY <1>1 DEF FullInv, FullTypeOK, GateTypeOK, ReturnedClosed, SetBlocklist, CancelFull, Return, fullVars
<1>3. BarredOut'
  BY <1>1 DEF FullInv, BarredOut, SetBlocklist, CancelFull, Return, fullVars
<1> QED
  BY <1>1, <1>2, <1>3 DEF FullInv, BusyOpen, GateFollows

\* The inductive invariant holds.
LEMMA FullInvariance == FullSpec => []FullInv
<1>1. FullInv /\ [FullNext]_fullVars => FullInv'
  BY ConnKeeps, RequestKeeps, ServeKeeps DEF FullNext
<1> QED
  BY <1>1, FullStarts, PTL DEF FullSpec

\* recordingHandler and Serve: a request made under a block that has held
\* since takes no slot, whatever its connection was let do before; and when
\* Shutdown returns nil, the handlers still running and the slots still held
\* are those of HTTP/2 requests whose own clients gave them up.
THEOREM RequestsAreAccounted == FullSpec => []RequestsAreFollowed
<1>1. FullInv => BlockedAreRefused
  BY DEF FullInv, BarredOut, BlockedAreRefused, Holders
<1>2. FullInv => CleanReturn
  <2> SUFFICES ASSUME FullInv, serving = "returned",
                      NEW q \in Callers, q \in Holders \/ request[q] \in Handling
               PROVE  conn[Of(q)].h2 /\ q \in given
    BY DEF CleanReturn, Holders, Running, FullInv, FullTypeOK
  <2>1. request[q] \in Handling
    BY DEF FullInv, GateFollows, FullTypeOK, Holders
  <2> QED
    BY <2>1 DEF FullInv, BusyOpen, ReturnedClosed, FullTypeOK, Handling
<1> QED
  BY <1>1, <1>2, FullInvariance, PTL DEF RequestsAreFollowed
=============================================================================
