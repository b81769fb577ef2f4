------------------------------ MODULE MCUpkeep ------------------------------
(***************************************************************************)
(* Two queues the panel leaves requests in: backups, which a timer's       *)
(* upgrader answers, and refreshes of the address ranges, which a running  *)
(* service answers.  They share no state of these models, so a behaviour   *)
(* runs one of them and the other stands still.                            *)
(***************************************************************************)
EXTENDS Backup, Ranges

SourceChoicesDef == {[first |-> "s1", rest |-> <<"s2">>]}

VARIABLE part \* which of the two runs

UpkeepInit ==
  /\ part \in {"backup", "ranges"}
  /\ Init /\ RangesInit

UpkeepNext ==
  \/ part = "backup" /\ Next /\ UNCHANGED <<part, rangeVars>>
  \/ part = "ranges" /\ RangesNext /\ UNCHANGED <<part, vars>>

UpkeepSpec == UpkeepInit /\ [][UpkeepNext]_<<part, vars, rangeVars>>

\* What Backup and Ranges assume of the timer, the clock and the services,
\* of the one that runs.
UpkeepFairSpec ==
  /\ UpkeepSpec
  /\ WF_vars(part = "backup" /\ Tick)
  /\ \A u \in Upgraders : WF_vars(part = "backup" /\ Pass(u))
  /\ WF_rangeVars(part = "ranges" /\ RefreshTick)
  /\ WF_rangeVars(part = "ranges" /\ \E p \in Fetchers : Refresh(p) \/ (FetchAt(p, "start") /\ Timer(p)))
  /\ SF_rangeVars(part = "ranges" /\ \E p \in Fetchers : Release(p) \/ ClaimRefresh(p))

\* Every request of either queue ends, whoever dies holding it
\* (queue.go:344-349, onrequest.go:66), and a refresh that is said to have
\* succeeded fetched a file.
RequestsEnd == Answered /\ RefreshAnswered
=============================================================================
