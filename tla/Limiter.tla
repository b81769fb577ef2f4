------------------------------- MODULE Limiter -------------------------------
(***************************************************************************)
(* internal/limiter/limiter.go: the collector's own load limiter.          *)
(*                                                                         *)
(* A caller is one call of Limiter.Admit followed by its release.  Every   *)
(* atomic operation of the code (a load or add of current or waiting, the  *)
(* compare-and-swap, one critical section of globalRateCounter) is one     *)
(* action, so callers and SetConfig interleave as the goroutines do.       *)
(*                                                                         *)
(* Time is kept relative, so that behaviours are finite-state: age is how  *)
(* far the clock is past windowStart, and lag[c] how far it has moved      *)
(* since caller c read time.Now.  Durations are in ticks.                  *)
(***************************************************************************)
EXTENDS Integers, FiniteSets

CONSTANTS
  Callers,    \* the calls of Admit
  Configs,    \* the configurations SetConfig may publish
  WindowSize, \* globalRateCounter.windowSize, in ticks
  MaxLag      \* the longest a caller is descheduled between time.Now and use

Policies == {"fail_open", "fail_closed", "throttle"}

\* Config; zero or less means "no limit" for max, rps and "no queue" for queue.
ConfigType == [max : Int, rps : Int, policy : Policies, queue : Int]

ASSUME CallersAssumption == IsFiniteSet(Callers)
ASSUME ConfigsAssumption == Configs \subseteq ConfigType /\ Configs # {}
ASSUME WindowAssumption == WindowSize \in Nat \ {0}
ASSUME LagAssumption == MaxLag \in Nat /\ MaxLag <= WindowSize

VARIABLES
  cfg,       \* Limiter.cfg, the published configuration
  current,   \* Limiter.current
  waiting,   \* Limiter.waiting
  prev,      \* globalRateCounter.prevCount
  curr,      \* globalRateCounter.currCount
  started,   \* ~windowStart.IsZero()
  age,       \* now - windowStart; before that, now - some multiple of WindowSize
  pc,        \* pc[c]: the next atomic step of caller c
  snap,      \* snap[c]: the configuration c loaded when it entered Admit
  seen,      \* seen[c]: the value of current c loaded before its CAS
  lag,       \* lag[c]: now - the time.Now c read in overRate
  inQueue,   \* inQueue[c]: c was let into the throttle queue and has not left
  mode,      \* mode[c]: the decision made for c
  rested     \* rested[c]: c's poll ticker has fired since c last looked

rateVars == <<prev, curr, started, age>>
callerVars == <<pc, snap, seen, lag, inQueue, mode, rested>>
vars == <<cfg, current, waiting, rateVars, callerVars>>

Steps == {"new", "stamp", "record", "look", "load", "cas", "over", "join",
          "poll", "leave", "serving", "done"}

TypeOK ==
  /\ cfg \in Configs
  /\ current \in Nat
  /\ waiting \in Nat
  /\ prev \in Nat /\ curr \in Nat
  /\ started \in BOOLEAN
  /\ age \in Int
  /\ pc \in [Callers -> Steps]
  /\ snap \in [Callers -> Configs]
  /\ seen \in [Callers -> Nat]
  /\ lag \in [Callers -> 0..MaxLag]
  /\ inQueue \in [Callers -> BOOLEAN]
  /\ mode \in [Callers -> {"none", "proceed", "degrade", "reject"}]
  /\ rested \in [Callers -> BOOLEAN]

Init ==
  /\ cfg \in Configs
  /\ current = 0
  /\ waiting = 0
  /\ prev = 0 /\ curr = 0
  /\ started = FALSE
  /\ age \in 0..(WindowSize - 1)
  /\ pc = [c \in Callers |-> "new"]
  /\ snap = [c \in Callers |-> cfg]
  /\ seen = [c \in Callers |-> 0]
  /\ lag = [c \in Callers |-> 0]
  /\ inQueue = [c \in Callers |-> FALSE]
  /\ mode = [c \in Callers |-> "none"]
  /\ rested = [c \in Callers |-> FALSE]

-----------------------------------------------------------------------------
(* The sliding window.                                                     *)

\* rotate: the two counters as of a moment e ticks after windowStart.  The
\* window start is always a multiple of WindowSize, so Truncate is e % W.
Rotate(p, q, e) ==
  IF e >= 2 * WindowSize THEN [prev |-> 0, curr |-> 0, e |-> e % WindowSize]
  ELSE IF e >= WindowSize THEN [prev |-> q, curr |-> 0, e |-> e - WindowSize]
  ELSE [prev |-> p, curr |-> q, e |-> e]

\* How far past windowStart caller c's own reading of the clock is.  It may
\* be negative: c read the clock, and another caller rotated the window.
Elapsed(c) == age - lag[c]

\* WindowSize times the clamped weight of the previous window.
Weight(e) ==
  IF e < 0 THEN WindowSize ELSE IF e > WindowSize THEN 0 ELSE WindowSize - e

\* rate(now) > MaxRequestsPerSecond, with both sides times WindowSize.
RateExceeds(c, limit) ==
  /\ started
  /\ LET r == Rotate(prev, curr, Elapsed(c))
     IN  r.prev * Weight(r.e) + r.curr * WindowSize > limit * WindowSize

\* globalRateCounter.record at c's time.
RecordArrival(c) ==
  LET e == IF started THEN Elapsed(c) ELSE Elapsed(c) % WindowSize
      r == Rotate(prev, curr, e)
  IN  /\ prev' = r.prev
      /\ curr' = r.curr + 1
      /\ age' = r.e + lag[c]
      /\ started' = TRUE

-----------------------------------------------------------------------------
(* Admit.                                                                  *)

Goto(c, step) == pc' = [pc EXCEPT ![c] = step]
Decide(c, d) == mode' = [mode EXCEPT ![c] = d]

\* Admit loads the configuration once, for the whole decision.
Admit(c) ==
  /\ pc[c] = "new"
  /\ snap' = [snap EXCEPT ![c] = cfg]
  /\ Goto(c, "stamp")
  /\ UNCHANGED <<cfg, current, waiting, rateVars, seen, lag, inQueue, mode, rested>>

\* Mutant of Stamp: a look counts as an arrival, as the first version did.
StampAlwaysArriving(c) ==
  /\ pc[c] = "stamp"
  /\ Goto(c, IF snap[c].rps <= 0 THEN "load" ELSE "record")
  /\ UNCHANGED <<cfg, current, waiting, rateVars, snap, seen, lag, inQueue, mode, rested>>

\* overRate: no rate limit, or read the clock.  A queued caller looks
\* without recording (arriving = false).
Stamp(c) ==
  /\ pc[c] = "stamp"
  /\ Goto(c, IF snap[c].rps <= 0 THEN "load"
             ELSE IF inQueue[c] THEN "look" ELSE "record")
  /\ UNCHANGED <<cfg, current, waiting, rateVars, snap, seen, lag, inQueue, mode, rested>>

Record(c) ==
  /\ pc[c] = "record"
  /\ RecordArrival(c)
  /\ Goto(c, "look")
  /\ UNCHANGED <<cfg, current, waiting, snap, seen, lag, inQueue, mode, rested>>

Look(c) ==
  /\ pc[c] = "look"
  /\ lag' = [lag EXCEPT ![c] = 0]
  /\ Goto(c, IF RateExceeds(c, snap[c].rps) THEN "over" ELSE "load")
  /\ UNCHANGED <<cfg, current, waiting, rateVars, snap, seen, inQueue, mode, rested>>

\* A slot is c's: out of Admit, or first out of throttleWait's deferred add.
Granted(c) ==
  /\ current' = current + 1
  /\ Decide(c, "proceed")
  /\ Goto(c, IF inQueue[c] THEN "leave" ELSE "serving")

\* Mutant of Load: the configuration is loaded again for the cap.
LoadFreshConfig(c) ==
  /\ pc[c] = "load"
  /\ \/ /\ cfg.max <= 0
        /\ Granted(c)
        /\ UNCHANGED seen
     \/ /\ cfg.max > 0
        /\ seen' = [seen EXCEPT ![c] = current]
        /\ Goto(c, IF current >= cfg.max THEN "over" ELSE "cas")
        /\ UNCHANGED <<current, mode>>
  /\ UNCHANGED <<cfg, waiting, rateVars, snap, lag, inQueue, rested>>

\* tryAcquire up to the compare-and-swap.
Load(c) ==
  /\ pc[c] = "load"
  /\ \/ /\ snap[c].max <= 0
        /\ Granted(c)
        /\ UNCHANGED seen
     \/ /\ snap[c].max > 0 /\ current >= snap[c].max
        /\ Goto(c, "over")
        /\ UNCHANGED <<current, mode, seen>>
     \/ /\ snap[c].max > 0 /\ current < snap[c].max
        /\ seen' = [seen EXCEPT ![c] = current]
        /\ Goto(c, "cas")
        /\ UNCHANGED <<current, mode>>
  /\ UNCHANGED <<cfg, waiting, rateVars, snap, lag, inQueue, rested>>

\* CompareAndSwap(cur, cur+1), or round the loop again.
Cas(c) ==
  /\ pc[c] = "cas"
  /\ \/ /\ current = seen[c]
        /\ Granted(c)
     \/ /\ current # seen[c]
        /\ Goto(c, "load")
        /\ UNCHANGED <<current, mode>>
  /\ seen' = [seen EXCEPT ![c] = 0]
  /\ UNCHANGED <<cfg, waiting, rateVars, snap, lag, inQueue, rested>>

\* Mutant of Over: a degraded caller is not counted, and is released.
OverUncounted(c) ==
  /\ pc[c] = "over"
  /\ ~inQueue[c]
  /\ snap[c].policy = "fail_open"
  /\ Decide(c, "degrade")
  /\ Goto(c, "serving")
  /\ UNCHANGED <<cfg, current, waiting, rateVars, snap, seen, lag, inQueue, rested>>

\* tryProceed said no.  The first time the policy decides; a queued caller
\* goes (back) to its poll ticker.
Over(c) ==
  /\ pc[c] = "over"
  /\ \/ /\ inQueue[c]
        /\ rested' = [rested EXCEPT ![c] = FALSE]
        /\ Goto(c, "poll")
        /\ UNCHANGED <<current, mode>>
     \/ /\ ~inQueue[c]
        /\ snap[c].policy = "fail_open"
        /\ current' = current + 1
        /\ Decide(c, "degrade")
        /\ Goto(c, "serving")
     \/ /\ ~inQueue[c]
        /\ \/ snap[c].policy = "fail_closed"
           \/ snap[c].policy = "throttle" /\ snap[c].queue <= 0
        /\ Decide(c, "reject")
        /\ Goto(c, "done")
        /\ UNCHANGED current
     \/ /\ ~inQueue[c]
        /\ snap[c].policy = "throttle" /\ snap[c].queue > 0
        /\ Goto(c, "join")
        /\ UNCHANGED <<current, mode>>
  /\ UNCHANGED <<cfg, waiting, rateVars, snap, seen, lag, inQueue, rested>>

\* throttleWait: count first, then look at the count the add returned.
Join(c) ==
  /\ pc[c] = "join"
  /\ waiting' = waiting + 1
  /\ \/ /\ waiting + 1 > snap[c].queue
        /\ Decide(c, "reject")
        /\ Goto(c, "leave")
        /\ UNCHANGED inQueue
     \/ /\ waiting + 1 <= snap[c].queue
        /\ inQueue' = [inQueue EXCEPT ![c] = TRUE]
        /\ Goto(c, "stamp")
        /\ UNCHANGED mode
  /\ UNCHANGED <<cfg, current, rateVars, snap, seen, lag, rested>>

\* The poll ticker fired: look again, under the same snapshot.
Poll(c) ==
  /\ pc[c] = "poll"
  /\ rested[c]
  /\ rested' = [rested EXCEPT ![c] = FALSE]
  /\ Goto(c, "stamp")
  /\ UNCHANGED <<cfg, current, waiting, rateVars, snap, seen, lag, inQueue, mode>>

\* ctx.Done: the client went away, or the shutdown's deadline passed.
CtxDone(c) ==
  /\ pc[c] = "poll"
  /\ Decide(c, "reject")
  /\ Goto(c, "leave")
  /\ UNCHANGED <<cfg, current, waiting, rateVars, snap, seen, lag, inQueue, rested>>

\* throttleWait's deferred waiting.Add(-1).
Leave(c) ==
  /\ pc[c] = "leave"
  /\ waiting' = waiting - 1
  /\ inQueue' = [inQueue EXCEPT ![c] = FALSE]
  /\ Goto(c, IF mode[c] = "proceed" THEN "serving" ELSE "done")
  /\ UNCHANGED <<cfg, current, rateVars, snap, seen, lag, mode, rested>>

\* release, deferred by the caller.
Release(c) ==
  /\ pc[c] = "serving"
  /\ current' = current - 1
  /\ Goto(c, "done")
  /\ UNCHANGED <<cfg, waiting, rateVars, snap, seen, lag, inQueue, mode, rested>>

SetConfig(k) ==
  /\ cfg' = k
  /\ UNCHANGED <<current, waiting, rateVars, callerVars>>

\* The callers between reading the clock and using the reading.
Stamped == {c \in Callers : pc[c] \in {"record", "look"}}

\* One tick of the clock; it also fires the poll tickers (a tick that fires
\* during a look is left to the next one).  Past four windows the age wraps
\* within one window: every reading of it rotates both counters to zero.
Tick ==
  /\ \A c \in Stamped : lag[c] < MaxLag
  /\ lag' = [c \in Callers |-> IF c \in Stamped THEN lag[c] + 1 ELSE lag[c]]
  /\ age' = IF age + 1 >= 4 * WindowSize THEN age + 1 - WindowSize ELSE age + 1
  /\ rested' = [c \in Callers |-> rested[c] \/ pc[c] = "poll"]
  /\ UNCHANGED <<cfg, current, waiting, prev, curr, started, pc, snap, seen, inQueue, mode>>

CallerStep(c) ==
  \/ Admit(c) \/ Stamp(c) \/ Record(c) \/ Look(c) \/ Load(c) \/ Cas(c)
  \/ Over(c) \/ Join(c) \/ Poll(c) \/ Leave(c) \/ Release(c)

Next ==
  \/ \E c \in Callers : CallerStep(c) \/ CtxDone(c)
  \/ \E k \in Configs : SetConfig(k)
  \/ Tick

Spec == Init /\ [][Next]_vars

\* Goroutines that can run do run, connections end, and the clock advances.
\* Nothing makes a context end or a configuration change.
FairSpec ==
  /\ Spec
  /\ \A c \in Callers : WF_vars(CallerStep(c))
  /\ WF_vars(Tick)

-----------------------------------------------------------------------------
(* Properties.                                                             *)

\* The callers whose release has not been called yet.
SlotHolders ==
  {c \in Callers : mode[c] \in {"proceed", "degrade"} /\ pc[c] # "done"}

\* The counter the cap is enforced on is exactly the slots that are out:
\* no path through Admit leaks one or gives one back twice, degraded and
\* queued callers included (limiter.go:118-121, "silently leaks a
\* concurrency slot forever").
SlotsAccounted == current = Cardinality(SlotHolders)

\* The callers throttleWait has counted.
Counted == {c \in Callers : inQueue[c] \/ pc[c] = "leave"}

\* waiting is exactly the callers inside throttleWait past its first add,
\* on every way out of it.
QueueAccounted == waiting = Cardinality(Counted)

\* The callers in the queue under a ThrottleQueueSize of at most q.
QueuedUnder(q) == {c \in Callers : inQueue[c] /\ snap[c].queue <= q}

\* Concurrent joiners that all add before any of them looks never fill the
\* queue past ThrottleQueueSize, whatever configurations they joined under
\* (limiter.go:67-70, "the queue itself can never grow unbounded").
QueueBounded ==
  \A k \in Configs :
    0 < k.queue => Cardinality(QueuedUnder(k.queue)) <= k.queue

\* A queue drains once traffic stops: waiters looking for capacity never
\* hold the rate over the limit by themselves (limiter.go:222-234).
QueueDrains ==
  \A c \in Callers : pc[c] = "poll" ~> pc[c] \in {"serving", "done"}

\* Where a caller stands, as the promise sees it.
GateOf(c) ==
  IF c \in SlotHolders THEN mode[c]
  ELSE IF mode[c] = "none" THEN "asking" ELSE "gone"

\* The cap it was let in under.
CapOf(c) == IF mode[c] = "proceed" THEN snap[c].max ELSE 0

\* What the limiter promises: see Admission.
Gate ==
  INSTANCE Admission WITH
    Caps <- {k.max : k \in Configs},
    gate <- [c \in Callers |-> GateOf(c)],
    cap <- [c \in Callers |-> CapOf(c)]

\* Every step of the lock-free code is a step of the promise or changes
\* nothing a caller can see.
ImplementsAdmission == Gate!GateSpec

\* The promise's own invariant, through the refinement.
CapRespected == Gate!CapRespected
=============================================================================
