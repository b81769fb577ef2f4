-------------------------------- MODULE Gate ---------------------------------
(***************************************************************************)
(* The developer password (internal/devgate): a queue of four, one         *)
(* comparison at a time, and a budget of failures that every form of the   *)
(* panel shares.  A comparison that is right hands out an authorization    *)
(* for the action it was typed for, good for half a minute.                *)
(*                                                                         *)
(* Everything lives in the panel's memory.  Only the holder of the slot    *)
(* touches the failures, so a comparison and what it records are one step. *)
(***************************************************************************)
EXTENDS Naturals, Sequences, FiniteSets

CONSTANTS
  Requests,
  GateWindow,   \* throttleWindow, in ticks
  MaxWrong,     \* maxFailures
  MaxQueued,    \* maxQueued
  GrantLifetime \* in ticks

ASSUME GateAssumption ==
  /\ GateWindow \in Nat \ {0} /\ MaxWrong \in Nat \ {0} /\ MaxQueued \in Nat \ {0}
  /\ GrantLifetime \in Nat \ {0} /\ IsFiniteSet(Requests)

VARIABLES
  failures, \* the ticks for which each failure still counts
  queued,   \* who holds a place in the queue
  slot,     \* who is being compared; at most one
  wrong     \* history: wrong passwords compared since the last right one, as failures

gate == <<failures, queued, slot, wrong>>

GateTypeOK ==
  /\ failures \in Seq(1..GateWindow) /\ wrong \in Seq(1..GateWindow)
  /\ queued \subseteq Requests /\ slot \subseteq queued
  /\ Cardinality(slot) <= 1 /\ Cardinality(queued) <= MaxQueued

GateInit == failures = <<>> /\ queued = {} /\ slot = {} /\ wrong = <<>>

throttled == Len(failures) >= MaxWrong

\* The first half of decide: turned away at once, or given a place.
JoinQueue(r) ==
  /\ r \notin queued /\ ~throttled /\ Cardinality(queued) < MaxQueued
  /\ queued' = queued \union {r}
  /\ UNCHANGED <<failures, slot, wrong>>

TurnedAway(r) ==
  /\ r \notin queued /\ (throttled \/ Cardinality(queued) = MaxQueued)
  /\ UNCHANGED gate

\* The budget is asked about again by whoever has the slot.
TakeSlot(r) ==
  /\ r \in queued /\ slot = {} /\ ~throttled /\ slot' = {r}
  /\ UNCHANGED <<failures, queued, wrong>>

\* The budget ran out while it waited, or the request ended.
LeaveQueue(r) ==
  /\ r \in queued \ slot /\ queued' = queued \ {r}
  /\ UNCHANGED <<failures, slot, wrong>>

Release(r) == queued' = queued \ {r} /\ slot' = slot \ {r}

recordFailure(r) ==
  /\ r \in slot /\ Release(r)
  /\ failures' = Append(failures, GateWindow)

clearFailures(r) ==
  /\ r \in slot /\ Release(r)
  /\ failures' = <<>>

\* What was typed, and what the gate does about it.
WrongPassword(r) == recordFailure(r) /\ wrong' = Append(wrong, GateWindow)
RightPassword(r) == clearFailures(r) /\ wrong' = <<>>

\* The failures are in the order of their time: the first are the ones that
\* stop counting.
Age(s) ==
  LET gone == CHOOSE n \in 0..Len(s) : \A i \in DOMAIN s : s[i] > 1 <=> i > n
  IN [i \in 1..(Len(s) - gone) |-> s[i + gone] - 1]

GateTick == failures' = Age(failures) /\ wrong' = Age(wrong) /\ UNCHANGED <<queued, slot>>

\* The panel restarts, and the gate with it: it remembers nothing of before.
GateRestart == failures' = <<>> /\ queued' = {} /\ slot' = {} /\ wrong' = <<>>

-----------------------------------------------------------------------------
(* Properties.                                                             *)

\* However many forms are sent at once, no more wrong passwords are compared in
\* a window than the budget holds, from one right password or restart of the
\* panel to the next (devgate.go, decide: the budget is asked about again once
\* the slot is held).
GuessBudget == Len(wrong) <= MaxWrong
==============================================================================
