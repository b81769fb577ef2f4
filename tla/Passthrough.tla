----------------------------- MODULE Passthrough -----------------------------
(***************************************************************************)
(* The passthrough proxy, internal/proxy: Serve's accept loop, one handler *)
(* goroutine per connection (handleConn, pipeToBackend, pipeConns), and    *)
(* the drain a shutdown runs beside them.  The limiter is the gate it is   *)
(* proved to be (Admission).                                               *)
(*                                                                         *)
(* What is idle is the kernel's answer (see IdleRule), any answer here;    *)
(* bytes, logging and the client's address are left out.                   *)
(***************************************************************************)
EXTENDS Admission

CONSTANT None \* no connection

ASSUME NoneAssumption == None \notin Callers

VARIABLES
  stage,     \* stage[c]: where connection c's handler is
  client,    \* client[c]: the client socket is open
  backend,   \* backend[c]: "none", "open" or "closed"
  copies,    \* copies[c]: the directions of the splice still being copied
  marked,    \* marked[c]: tracked.closed
  attached,  \* attached[c]: tracked.backend is set
  live,      \* connSet.conns
  serve,     \* where Serve, and the drain it ends in, is
  ctxDone,   \* the server's ctx is done
  stopping,  \* the context of the waits a closed socket does not end is done
  closedIdle,\* drain's closedIdle
  todo,      \* connections the current round of the drain has not reached
  target     \* the connection tracked.close is closing

handlerVars == <<stage, client, backend, copies, attached>>
drainVars == <<serve, ctxDone, stopping, closedIdle, todo, target>>
vars == <<gateVars, handlerVars, marked, live, drainVars>>

\* A handler runs through these in order, leaving some out.
Stages == {"backlog", "geo", "admit", "sniff", "dial", "attach", "splice",
           "release", "close", "done"}

\* Stages between an admission and the release deferred after it.
Admitted == {"sniff", "dial", "attach", "splice", "release"}

TypeOK ==
  /\ GateTypeOK
  /\ stage \in [Callers -> Stages]
  /\ client \in [Callers -> BOOLEAN]
  /\ backend \in [Callers -> {"none", "open", "closed"}]
  /\ copies \in [Callers -> SUBSET {"up", "down"}]
  /\ marked \in [Callers -> BOOLEAN] /\ attached \in [Callers -> BOOLEAN]
  /\ live \subseteq Callers
  /\ serve \in {"accept", "round", "select", "cut", "grace", "drained", "stuck", "failed"}
  /\ ctxDone \in BOOLEAN /\ stopping \in BOOLEAN
  /\ closedIdle \subseteq Callers /\ todo \subseteq Callers
  /\ target \in Callers \union {None}
  \* Until its handler is done, and only until then, a connection is live.
  /\ live = {c \in Callers : stage[c] \notin {"backlog", "done"}}

Init ==
  /\ GateInit
  /\ stage = [c \in Callers |-> "backlog"]
  /\ client = [c \in Callers |-> TRUE]
  /\ backend = [c \in Callers |-> "none"]
  /\ copies = [c \in Callers |-> {}]
  /\ marked = [c \in Callers |-> FALSE]
  /\ attached = [c \in Callers |-> FALSE]
  /\ live = {}
  /\ serve = "accept" /\ ctxDone = FALSE /\ stopping = FALSE
  /\ closedIdle = {} /\ todo = {} /\ target = None

-----------------------------------------------------------------------------
(* The accept loop.                                                        *)

Accept(c) ==
  /\ serve = "accept" /\ stage[c] = "backlog"
  /\ stage' = [stage EXCEPT ![c] = "geo"]
  /\ live' = live \union {c}
  /\ UNCHANGED <<gateVars, client, backend, copies, attached, marked, drainVars>>

\* Accept fails for another reason than the listener's being closed: Serve
\* returns at once, and its deferred stop ends the waits.
AcceptFails ==
  /\ serve = "accept"
  /\ serve' = "failed"
  /\ stopping' = TRUE
  /\ UNCHANGED <<gateVars, handlerVars, marked, live, ctxDone, closedIdle, todo, target>>

Cancel ==
  /\ ~ctxDone
  /\ ctxDone' = TRUE
  /\ UNCHANGED <<gateVars, handlerVars, marked, live, serve, stopping, closedIdle, todo, target>>

\* The listener has been closed behind ctx, and Accept says so.
StartDrain ==
  /\ serve = "accept" /\ ctxDone
  /\ serve' = "round"
  /\ todo' = live
  /\ UNCHANGED <<gateVars, handlerVars, marked, live, ctxDone, stopping, closedIdle, target>>

-----------------------------------------------------------------------------
(* A connection's handler.                                                 *)

Goto(c, s) == stage' = [stage EXCEPT ![c] = s]

\* An address that does not parse, or a blocked country or network.
GeoRefuse(c) ==
  /\ stage[c] = "geo"
  /\ Goto(c, "close")
  /\ UNCHANGED <<gateVars, client, backend, copies, attached, marked, live, drainVars>>

GeoPass(c) ==
  /\ stage[c] = "geo"
  /\ Goto(c, "admit")
  /\ UNCHANGED <<gateVars, client, backend, copies, attached, marked, live, drainVars>>

\* Over the limit, or stopping ended the wait for a slot.
AdmitRefuse(c) ==
  /\ stage[c] = "admit"
  /\ Refuse(c)
  /\ Goto(c, "close")
  /\ UNCHANGED <<client, backend, copies, attached, marked, live, drainVars>>

AdmitProceed(c, m) ==
  /\ stage[c] = "admit"
  /\ Proceed(c, m)
  /\ Goto(c, "sniff")
  /\ UNCHANGED <<client, backend, copies, attached, marked, live, drainVars>>

\* Over the limit under fail_open: spliced unread.
AdmitDegrade(c) ==
  /\ stage[c] = "admit"
  /\ Degrade(c)
  /\ Goto(c, "dial")
  /\ UNCHANGED <<client, backend, copies, attached, marked, live, drainVars>>

\* sniffClientHello has a hello, gives up, or meets a closed socket; the
\* request is recorded whichever it was.
Sniff(c) ==
  /\ stage[c] = "sniff"
  /\ Goto(c, "dial")
  /\ UNCHANGED <<gateVars, client, backend, copies, attached, marked, live, drainVars>>

DialFails(c) ==
  /\ stage[c] = "dial"
  /\ Goto(c, "release")
  /\ UNCHANGED <<gateVars, client, backend, copies, attached, marked, live, drainVars>>

Dialled(c) ==
  /\ stage[c] = "dial"
  /\ backend' = [backend EXCEPT ![c] = "open"]
  /\ Goto(c, "attach")
  /\ UNCHANGED <<gateVars, client, copies, attached, marked, live, drainVars>>

\* Mutant of Attach: the drain's mark is not looked at.
AttachUnchecked(c) ==
  /\ stage[c] = "attach"
  /\ attached' = [attached EXCEPT ![c] = TRUE]
  /\ copies' = [copies EXCEPT ![c] = {"up", "down"}]
  /\ Goto(c, "splice")
  /\ UNCHANGED <<gateVars, client, backend, marked, live, drainVars>>

\* tracked.attach, and pipeConns starts both copies if it may.
Attach(c) ==
  /\ stage[c] = "attach"
  /\ \/ /\ marked[c]
        /\ backend' = [backend EXCEPT ![c] = "closed"]
        /\ Goto(c, "release")
        /\ UNCHANGED <<copies, attached>>
     \/ /\ ~marked[c]
        /\ attached' = [attached EXCEPT ![c] = TRUE]
        /\ copies' = [copies EXCEPT ![c] = {"up", "down"}]
        /\ Goto(c, "splice")
        /\ UNCHANGED backend
  /\ UNCHANGED <<gateVars, client, marked, live, drainVars>>

\* The socket a direction reads from.
ReadsClosed(c, d) == IF d = "up" THEN ~client[c] ELSE backend[c] = "closed"

\* One copy ends: its reader was closed by either end, its writer failed, or
\* it panicked and recoverConn stopped that.  Only a socket closed on this
\* side ends it for sure.
CopyEnds(c, d) ==
  /\ stage[c] = "splice" /\ d \in copies[c]
  /\ copies' = [copies EXCEPT ![c] = @ \ {d}]
  /\ UNCHANGED <<gateVars, stage, client, backend, attached, marked, live, drainVars>>

\* Both copies have ended: pipeToBackend's deferred Close.
SpliceEnds(c) ==
  /\ stage[c] = "splice" /\ copies[c] = {}
  /\ backend' = [backend EXCEPT ![c] = "closed"]
  /\ Goto(c, "release")
  /\ UNCHANGED <<gateVars, client, copies, attached, marked, live, drainVars>>

\* A panic unwinds the handler through its deferred calls.
Panic(c) ==
  /\ stage[c] \in {"geo", "sniff", "dial"}
  /\ Goto(c, IF stage[c] = "geo" THEN "close" ELSE "release")
  /\ UNCHANGED <<gateVars, client, backend, copies, attached, marked, live, drainVars>>

\* The deferred release, then the deferred conn.Close.
ReleaseSlot(c) ==
  /\ stage[c] = "release"
  /\ GiveBack(c)
  /\ Goto(c, "close")
  /\ UNCHANGED <<client, backend, copies, attached, marked, live, drainVars>>

\* conn.Close, live.remove and wg.Done.
Finish(c) ==
  /\ stage[c] = "close"
  /\ client' = [client EXCEPT ![c] = FALSE]
  /\ live' = live \ {c}
  /\ Goto(c, "done")
  /\ UNCHANGED <<gateVars, backend, copies, attached, marked, drainVars>>

-----------------------------------------------------------------------------
(* The drain.                                                              *)

\* tracked.close marks the connection under its lock; the sockets follow.
Mark(c) == marked' = [marked EXCEPT ![c] = TRUE] /\ target' = c

\* The round's next connection is idle, and not closed as such before.
LookIdle(c) ==
  /\ serve = "round" /\ target = None /\ c \in todo
  /\ c \notin closedIdle /\ client[c]
  /\ closedIdle' = closedIdle \union {c}
  /\ todo' = todo \ {c}
  /\ Mark(c)
  /\ UNCHANGED <<gateVars, handlerVars, live, serve, ctxDone, stopping>>

\* It is not, or the kernel does not say.
LookBusy(c) ==
  /\ serve = "round" /\ target = None /\ c \in todo
  /\ todo' = todo \ {c}
  /\ UNCHANGED <<gateVars, handlerVars, marked, live, serve, ctxDone, stopping, closedIdle, target>>

\* The rest of tracked.close.  The backend is the one attached when the mark
\* was set: later there is none to attach.
CloseSockets ==
  /\ target # None
  /\ client' = [client EXCEPT ![target] = FALSE]
  /\ backend' = [backend EXCEPT ![target] = IF attached[target] THEN "closed" ELSE @]
  /\ target' = None
  /\ UNCHANGED <<gateVars, stage, copies, attached, marked, live, serve, ctxDone,
                 stopping, closedIdle, todo>>

RoundEnds ==
  /\ serve = "round" /\ target = None /\ todo = {}
  /\ serve' = "select"
  /\ UNCHANGED <<gateVars, handlerVars, marked, live, ctxDone, stopping, closedIdle, todo, target>>

\* done: wg.Wait has returned, every handler being done.
DrainDone ==
  /\ serve = "select" /\ live = {}
  /\ serve' = "drained"
  /\ stopping' = TRUE
  /\ UNCHANGED <<gateVars, handlerVars, marked, live, ctxDone, closedIdle, todo, target>>

\* The poll ticker: look again.
Poll ==
  /\ serve = "select"
  /\ serve' = "round"
  /\ todo' = live
  /\ UNCHANGED <<gateVars, handlerVars, marked, live, ctxDone, stopping, closedIdle, target>>

Deadline ==
  /\ serve = "select"
  /\ serve' = "cut"
  /\ todo' = live
  /\ UNCHANGED <<gateVars, handlerVars, marked, live, ctxDone, stopping, closedIdle, target>>

\* Mutant of CutConn: connections closed as idle are left out, not skipped.
CutConnStalls(c) ==
  /\ serve = "cut" /\ target = None /\ c \in todo
  /\ c \notin closedIdle
  /\ todo' = todo \ {c}
  /\ Mark(c)
  /\ UNCHANGED <<gateVars, handlerVars, live, serve, ctxDone, stopping, closedIdle>>

CutConn(c) ==
  /\ serve = "cut" /\ target = None /\ c \in todo
  /\ todo' = todo \ {c}
  /\ Mark(c)
  /\ UNCHANGED <<gateVars, handlerVars, live, serve, ctxDone, stopping, closedIdle>>

\* force: stopping is cancelled once everything is closed.
CutAll ==
  /\ serve = "cut" /\ target = None /\ todo = {}
  /\ serve' = "grace"
  /\ stopping' = TRUE
  /\ UNCHANGED <<gateVars, handlerVars, marked, live, ctxDone, closedIdle, todo, target>>

\* After force, everything ended, or drainGrace did.
GraceDone ==
  /\ serve = "grace" /\ live = {}
  /\ serve' = "drained"
  /\ UNCHANGED <<gateVars, handlerVars, marked, live, ctxDone, stopping, closedIdle, todo, target>>

GraceOver ==
  /\ serve = "grace"
  /\ serve' = "stuck"
  /\ UNCHANGED <<gateVars, handlerVars, marked, live, ctxDone, stopping, closedIdle, todo, target>>

-----------------------------------------------------------------------------
\* Steps a handler takes on its own.  A panic is not one that has to come.
HandlerStep(c) ==
  \/ GeoRefuse(c) \/ GeoPass(c)
  \/ Attach(c) \/ SpliceEnds(c) \/ ReleaseSlot(c) \/ Finish(c)

AdmitStep(c) ==
  AdmitRefuse(c) \/ AdmitDegrade(c) \/ \E m \in Caps : AdmitProceed(c, m)

DialStep(c) == DialFails(c) \/ Dialled(c)

DrainStep ==
  \/ StartDrain \/ RoundEnds \/ CloseSockets \/ DrainDone \/ CutAll \/ GraceDone
  \/ \E c \in Callers : LookIdle(c) \/ LookBusy(c) \/ CutConn(c)

Next ==
  \/ \E c \in Callers :
       \/ Accept(c) \/ HandlerStep(c) \/ AdmitStep(c) \/ Sniff(c) \/ DialStep(c) \/ Panic(c)
       \/ \E d \in {"up", "down"} : CopyEnds(c, d)
  \/ AcceptFails \/ Cancel \/ DrainStep
  \/ Poll \/ Deadline \/ GraceOver

Spec == Init /\ [][Next]_vars

\* What the runtime and the kernel guarantee and no more: goroutines run; a
\* read of a closed socket returns; a wait under a cancelled context ends.
\* Nothing has to panic, a client may say nothing, a peer may never close, a slot may never come
\* free, a poll may come before every other case but the deadline's.
FairSpec ==
  /\ Spec
  /\ WF_vars(DrainStep) /\ SF_vars(Deadline)
  /\ \A c \in Callers :
       /\ WF_vars(HandlerStep(c))
       /\ WF_vars(stopping /\ AdmitRefuse(c))
       /\ WF_vars(~client[c] /\ Sniff(c))
       /\ WF_vars(stopping /\ DialStep(c))
       /\ \A d \in {"up", "down"} : WF_vars(ReadsClosed(c, d) /\ CopyEnds(c, d))

-----------------------------------------------------------------------------
(* Properties.                                                             *)

\* A connection holds a limiter slot exactly from its admission to its
\* deferred release, whichever way its handler ends, a panic included
\* (server.go:210-213).
SlotsFollowHandlers ==
  Holders = {c \in Callers : stage[c] \in Admitted}

\* Once the drain has closed everything, no splice is left that a socket of
\* this process holds open: also not one whose dial finished meanwhile, or
\* that waited for a slot (drain.go:101-104, "must not start a splice nobody
\* will end").
NoSpliceSurvives ==
  serve \in {"grace", "drained", "stuck"} =>
    \A c \in Callers : stage[c] = "splice" => ~client[c] /\ backend[c] = "closed"

\* A clean shutdown ends, whatever clients and backends do.
Returns == ctxDone ~> serve \in {"drained", "stuck", "failed"}
=============================================================================
