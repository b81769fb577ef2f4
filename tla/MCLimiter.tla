------------------------------ MODULE MCLimiter ------------------------------
(***************************************************************************)
(* Instances of Limiter for TLC.                                           *)
(***************************************************************************)
EXTENDS Limiter, TLC

\* A wide cap and a rate of one, that degrades what it cannot take; no cap;
\* and a narrow one with a queue that two waiters fill and one that they
\* overfill.
CapConfigs == {
  [max |-> 2, rps |-> 1, policy |-> "fail_open", queue |-> 0],
  [max |-> 1, rps |-> 0, policy |-> "throttle", queue |-> 2],
  [max |-> 0, rps |-> 0, policy |-> "fail_closed", queue |-> 0],
  [max |-> 1, rps |-> 0, policy |-> "throttle", queue |-> 1]}

CallerSymmetry == Permutations(Callers)
=============================================================================
