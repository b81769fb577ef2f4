------------------------------ MODULE MCService ------------------------------
(***************************************************************************)
(* What every service of the suite does besides its work: it watches for a *)
(* restart pressed in the panel, copies its log to the panel's table, and  *)
(* keeps its log files.  The three share no state of these models, so a    *)
(* behaviour runs one of them and the others stand still.                  *)
(***************************************************************************)
EXTENDS RestartRequest, LogSink, LogTree

VARIABLE part \* which part runs

ServiceInit ==
  /\ part \in {"restart", "sink", "tree"}
  /\ Init /\ SinkInit /\ TreeInit

ServiceNext ==
  \/ part = "restart" /\ Next /\ UNCHANGED <<part, sinkVars, treeVars>>
  \/ part = "sink" /\ SinkNext /\ UNCHANGED <<part, vars, treeVars>>
  \/ part = "tree" /\ TreeNext /\ UNCHANGED <<part, vars, sinkVars>>

\* What RestartRequest assumes of tickers, answers, the supervisor and time,
\* when it is the one that runs.
ServiceFairSpec ==
  /\ ServiceInit /\ [][ServiceNext]_<<part, vars, sinkVars, treeVars>>
  /\ WF_vars(part = "restart" /\ Tick)
  /\ WF_vars(part = "restart" /\ BeatSend)
  /\ SF_vars(part = "restart" /\ BeatDone)
  /\ WF_vars(part = "restart" /\ AskPrivilege)
  /\ WF_vars(part = "restart" /\ Exit)
  /\ WF_vars(part = "restart" /\ Exited)
  /\ WF_vars(part = "restart" /\ Start)

ASSUME Assumptions == LogSinkAssumption
=============================================================================
