------------------------------ MODULE MCTraffic ------------------------------
(***************************************************************************)
(* The collector in front of a site: the passthrough proxy and its drain,  *)
(* the kernel's view of one connection, the full mode, and the limiter's   *)
(* rate and queue.  The proxies meet the limiter through Admission, which  *)
(* Limiter implements; so a behaviour runs one part, and the others stand  *)
(* still.                                                                  *)
(***************************************************************************)
EXTENDS Passthrough, IdleRule, FullProxy

\* A cap of one, so that a second connection has to wait, degrade or go.
OneSlot == {1}

\* Two requests of one connection; the passthrough's two connections.
CallersDef == {<<"c1", 1>>, <<"c1", 2>>}

\* A rate limit in front of the queue, and one in front of a refusal.
RateConfigs == {
  [max |-> 1, rps |-> 1, policy |-> "throttle", queue |-> 2],
  [max |-> 2, rps |-> 1, policy |-> "fail_closed", queue |-> 0]}

VARIABLES
  part, \* which part runs
  \* the variables of Limiter
  cfg, current, waiting, prev, curr, started, age,
  pc, snap, seen, lag, inQueue, mode, rested

Limit == INSTANCE Limiter WITH Configs <- RateConfigs, WindowSize <- 2, MaxLag <- 1

proxyVars == <<handlerVars, marked, live, drainVars>>
serveVars == <<conn, request, blocked, records, serving, given, barred>>
limitVars == <<cfg, current, waiting, prev, curr, started, age,
               pc, snap, seen, lag, inQueue, mode, rested>>

Idling == [cfg |-> CHOOSE k \in RateConfigs : k.queue = 2, age |-> 0]

TrafficInit ==
  /\ part \in {"passthrough", "kernel", "full", "limiter"}
  /\ Init /\ IdleInit /\ FullInit
  /\ Limit!Init /\ (part # "limiter" => cfg = Idling.cfg /\ age = Idling.age)

TrafficNext ==
  \/ /\ part = "passthrough" /\ Next
     /\ UNCHANGED <<part, idleVars, serveVars, limitVars>>
  \/ /\ part = "kernel" /\ IdleNext
     /\ UNCHANGED <<part, gateVars, proxyVars, serveVars, limitVars>>
  \/ /\ part = "full" /\ FullNext
     /\ UNCHANGED <<part, proxyVars, idleVars, limitVars>>
  \/ /\ part = "limiter" /\ Limit!Next
     /\ UNCHANGED <<part, gateVars, proxyVars, idleVars, serveVars>>

TrafficSpec ==
  TrafficInit /\ [][TrafficNext]_<<part, gateVars, proxyVars, idleVars, serveVars, limitVars>>

\* What Passthrough and Limiter assume of goroutines, sockets and the clock,
\* of the one that runs.
TrafficFairSpec ==
  /\ TrafficSpec
  /\ WF_vars(part = "passthrough" /\ DrainStep)
  /\ SF_vars(part = "passthrough" /\ Deadline)
  /\ \A c \in Callers :
       /\ WF_vars(part = "passthrough" /\ HandlerStep(c))
       /\ WF_vars(part = "passthrough" /\ stopping /\ AdmitRefuse(c))
       /\ WF_vars(part = "passthrough" /\ ~client[c] /\ Sniff(c))
       /\ WF_vars(part = "passthrough" /\ stopping /\ DialStep(c))
       /\ \A d \in {"up", "down"} :
            WF_vars(part = "passthrough" /\ ReadsClosed(c, d) /\ CopyEnds(c, d))
       /\ WF_limitVars(part = "limiter" /\ Limit!CallerStep(c))
  /\ WF_limitVars(part = "limiter" /\ Limit!Tick)

\* Limiter's QueueDrains, under its fairness: a queue drains once traffic
\* stops, since a look is not an arrival (limiter.go:222-234).
QueueDrains == Limit!QueueDrains
=============================================================================
