------------------------------ MODULE RateStore ------------------------------
(***************************************************************************)
(* internal/ratestore/memory.go: the collector's only memory of traffic,   *)
(* two sliding-window counters and a last-seen time per address.           *)
(*                                                                         *)
(* A request is one call s.Store.RecordRequest(ip, ja4, time.Now()): the   *)
(* clock is read before the store's lock is taken, so a request can be     *)
(* stamped, delayed, and recorded after others with later stamps, and      *)
(* after a Snapshot taken in between.  Time is in ticks, at most MaxTime   *)
(* of them.  The fingerprint an entry carries along is left out.           *)
(***************************************************************************)
EXTENDS Integers, FiniteSets

CONSTANTS
  Addrs,      \* client addresses
  Requests,   \* the calls of RecordRequest
  WindowSize, \* MemoryRateStore.windowSize
  IdleTTL,    \* MemoryRateStore.idleTTL
  MaxLag,     \* the longest a request waits between time.Now and the lock
  MaxTime     \* bound on the clock

ASSUME AddrsAssumption == IsFiniteSet(Requests)
ASSUME StoreAssumption ==
  /\ WindowSize \in Nat \ {0} /\ IdleTTL \in Nat
  /\ MaxLag \in Nat /\ MaxTime \in Nat
\* Without these two an address can be swept, or its count rotated away,
\* within the window it was active in.  The defaults are 60 s and 300 s.
ASSUME WindowAssumption == MaxLag <= WindowSize /\ 2 * WindowSize + MaxLag <= IdleTTL

VARIABLES
  clock,   \* the time now
  states,  \* MemoryRateStore.states: address -> ipState
  sweeper, \* the cleanup goroutine has not been stopped
  phase,   \* phase[r]: "idle", "stamped" (clock read, lock not taken), "recorded"
  from,    \* from[r]: the address of request r
  at       \* at[r]: the clock as r read it

requestVars == <<phase, from, at>>
storeVars == <<clock, states, sweeper, requestVars>>

Entries == [prev : Nat, curr : Nat, windowStart : Nat, lastSeen : Nat]

Truncate(t) == (t \div WindowSize) * WindowSize

\* The window a new address starts in: now.Truncate(windowSize).
FirstWindow(t) == Truncate(t)

\* Windows start on multiples of the window size, for every address.
StoreTypeOK ==
  /\ clock \in 0..MaxTime
  /\ DOMAIN states \subseteq Addrs
  /\ \A a \in DOMAIN states :
       /\ states[a] \in Entries
       /\ states[a].windowStart = Truncate(states[a].windowStart)
  /\ sweeper \in BOOLEAN
  /\ phase \in [Requests -> {"idle", "stamped", "recorded"}]
  /\ from \in [Requests -> Addrs]
  /\ at \in [Requests -> 0..MaxTime]

StoreInit ==
  /\ clock = 0
  /\ states = [a \in {} |-> 0]
  /\ sweeper = TRUE
  /\ phase = [r \in Requests |-> "idle"]
  /\ from \in [Requests -> Addrs]
  /\ at = [r \in Requests |-> 0]

-----------------------------------------------------------------------------
(* The window.                                                             *)

\* Mutant of RotatedCounts: an address idle for long keeps its last count.
RotatedNoDecay(p, c, start, t) ==
  IF t - start >= WindowSize
  THEN [prev |-> c, curr |-> 0, windowStart |-> start + WindowSize]
  ELSE [prev |-> p, curr |-> c, windowStart |-> start]

\* rotatedCounts: the counters as of t.  A t before the window's start is no
\* rotation.
RotatedCounts(p, c, start, t) ==
  IF t - start >= 2 * WindowSize
  THEN [prev |-> 0, curr |-> 0, windowStart |-> Truncate(t)]
  ELSE IF t - start >= WindowSize
  THEN [prev |-> c, curr |-> 0, windowStart |-> start + WindowSize]
  ELSE [prev |-> p, curr |-> c, windowStart |-> start]

\* The counters of an entry as Snapshot reports them at t.
CountsAt(e, t) == RotatedCounts(e.prev, e.curr, e.windowStart, t)

-----------------------------------------------------------------------------
(* The operations, each one critical section.                              *)

\* A handler reads the clock.
Stamp(r) ==
  /\ phase[r] = "idle"
  /\ phase' = [phase EXCEPT ![r] = "stamped"]
  /\ at' = [at EXCEPT ![r] = clock]
  /\ UNCHANGED <<clock, states, sweeper, from>>

\* RecordRequest, for a request stamped t.
RecordRequest(a, t) ==
  LET old == IF a \in DOMAIN states THEN states[a]
             ELSE [prev |-> 0, curr |-> 0, windowStart |-> FirstWindow(t), lastSeen |-> t]
      w == CountsAt(old, t)
      new == [prev |-> w.prev, curr |-> w.curr + 1,
              windowStart |-> w.windowStart, lastSeen |-> t]
  IN  states' = [b \in DOMAIN states \union {a} |-> IF b = a THEN new ELSE states[b]]

Record(r) ==
  /\ phase[r] = "stamped"
  /\ RecordRequest(from[r], at[r])
  /\ phase' = [phase EXCEPT ![r] = "recorded"]
  /\ UNCHANGED <<clock, sweeper, from, at>>

\* Snapshot(since, now): the addresses last seen at or after since.
Snapshot(since) == {a \in DOMAIN states : states[a].lastSeen >= since}

\* The addresses removeExpired(t) drops.
Expired(t) == {a \in DOMAIN states : states[a].lastSeen < t - IdleTTL}

\* cleanupLoop's tick, with the time the ticker carried.
Sweep(t) ==
  /\ sweeper
  /\ t \in (clock - MaxLag)..clock
  /\ states' = [a \in DOMAIN states \ Expired(t) |-> states[a]]
  /\ UNCHANGED <<clock, sweeper, requestVars>>

\* Close stops the cleanup goroutine.
Close ==
  /\ sweeper
  /\ sweeper' = FALSE
  /\ UNCHANGED <<clock, states, requestVars>>

Tick ==
  /\ clock < MaxTime
  /\ \A r \in Requests : phase[r] = "stamped" => clock - at[r] < MaxLag
  /\ clock' = clock + 1
  /\ UNCHANGED <<states, sweeper, requestVars>>

StoreNext ==
  \/ \E r \in Requests : Stamp(r) \/ Record(r)
  \/ \E t \in 0..MaxTime : Sweep(t)
  \/ Close
  \/ Tick

StoreSpec == StoreInit /\ [][StoreNext]_storeVars

-----------------------------------------------------------------------------
(* Properties.                                                             *)

\* The recorded requests of a that are stamped at t or later.
RecordedSince(a, t) ==
  {r \in Requests : phase[r] = "recorded" /\ from[r] = a /\ at[r] >= t}

\* The two counters a flush would report now bracket the truth, although
\* requests are recorded out of stamp order and addresses are swept: every
\* request of the last two windows is in them, and none that is older than
\* those by more than a request can be late (memory.go:99-102, an idle
\* address must not "keep reporting its last burst's full current-window
\* count forever").
WindowBrackets ==
  \A a \in DOMAIN states :
    LET w == CountsAt(states[a], clock)
        oldest == w.windowStart - WindowSize
    IN  /\ Cardinality(RecordedSince(a, oldest)) <= w.prev + w.curr
        /\ w.prev + w.curr <= Cardinality(RecordedSince(a, oldest - MaxLag))

\* The sweep forgets an address only when its newest request is older than
\* the TTL, give or take how late a request can be: lastSeen is the stamp
\* recorded last, which need not be the newest.
ActiveIsKept ==
  \A r \in Requests :
    /\ phase[r] = "recorded"
    /\ clock - at[r] <= IdleTTL - MaxLag
    => from[r] \in DOMAIN states
=============================================================================
