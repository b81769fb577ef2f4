------------------------------ MODULE Admission ------------------------------
(***************************************************************************)
(* What internal/limiter promises its callers, without saying how: every   *)
(* caller of Limiter.Admit is given one decision, a caller that proceeds   *)
(* or is degraded holds one slot until it calls release, and a caller      *)
(* proceeds only while fewer slots are held than the cap it was admitted   *)
(* under.  Limiter implements this module (see Limiter!Gate), and          *)
(* Passthrough composes it with the proxy's connection handlers.           *)
(***************************************************************************)
EXTENDS Integers, FiniteSets

CONSTANTS
  Callers, \* the connections (passthrough) or requests (full mode)
  Caps     \* values of Config.MaxConcurrentConnections; <= 0 is "no limit"

VARIABLES
  gate, \* gate[c]: where caller c stands with the limiter
  cap   \* cap[c]: the cap c proceeded under, 0 until it has

gateVars == <<gate, cap>>

\* Decision, plus the two states around it.
GateStates == {"asking", "proceed", "degrade", "gone"}

GateTypeOK ==
  /\ gate \in [Callers -> GateStates]
  /\ cap \in [Callers -> Caps \union {0}]

\* The callers holding a slot: those whose release has not been called.
Holders == {c \in Callers : gate[c] \in {"proceed", "degrade"}}

GateInit ==
  /\ gate = [c \in Callers |-> "asking"]
  /\ cap = [c \in Callers |-> 0]

\* DecisionProceed: a slot is taken, and only while one is free under m.
Proceed(c, m) ==
  /\ gate[c] = "asking"
  /\ m <= 0 \/ Cardinality(Holders) < m
  /\ gate' = [gate EXCEPT ![c] = "proceed"]
  /\ cap' = [cap EXCEPT ![c] = m]

\* DecisionDegrade: the slot is counted, never refused.
Degrade(c) ==
  /\ gate[c] = "asking"
  /\ gate' = [gate EXCEPT ![c] = "degrade"]
  /\ UNCHANGED cap

\* DecisionReject: no slot, and no release function.
Refuse(c) ==
  /\ gate[c] = "asking"
  /\ gate' = [gate EXCEPT ![c] = "gone"]
  /\ UNCHANGED cap

\* The release function Admit returned, called when the work is over.
GiveBack(c) ==
  /\ c \in Holders
  /\ gate' = [gate EXCEPT ![c] = "gone"]
  /\ UNCHANGED cap

GateNext ==
  \E c \in Callers :
    \/ \E m \in Caps : Proceed(c, m)
    \/ Degrade(c)
    \/ Refuse(c)
    \/ GiveBack(c)

GateSpec == GateInit /\ [][GateNext]_gateVars

\* Holders that were let in under a cap of at most m.
ProceedingUnder(m) ==
  {c \in Callers : gate[c] = "proceed" /\ 0 < cap[c] /\ cap[c] <= m}

\* However the configuration changes while callers hold slots, no more
\* callers hold a slot taken under a cap of m or less than m allows
\* (Limiter.tryAcquire, internal/limiter/limiter.go:209).
CapRespected ==
  \A m \in Caps : 0 < m => Cardinality(ProceedingUnder(m)) <= m
=============================================================================
