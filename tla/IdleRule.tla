------------------------------ MODULE IdleRule -------------------------------
(***************************************************************************)
(* Which connections a shutdown may close at once: internal/proxy's        *)
(* view.idle, asked of what the kernel remembers of one client socket      *)
(* (drain_linux.go).  The proxy never decrypts, so the kernel's two timers *)
(* and byte counts stand in for "is a request waiting for its answer";     *)
(* the requests themselves are here only for the properties to speak of.   *)
(* Time is in the kernel's milliseconds.                                   *)
(***************************************************************************)
EXTENDS Integers

CONSTANTS
  Quiet,   \* DrainIdle
  MaxOpen, \* bound on the requests outstanding at once
  MaxTime  \* bound on the clock

ASSUME IdleAssumption == Quiet \in Nat \ {0} /\ MaxOpen \in Nat \ {0} /\ MaxTime \in Nat

VARIABLES
  clock,
  lastOut, lastIn, \* when data last went to the client, and came from it
  sent, received,  \* whether any has
  inFlight,        \* data to the client not yet acknowledged
  \* History, for the properties.
  open,            \* requests not answered in full
  behind,          \* one of them was left waiting when another was answered
  tied,            \* one of them came in the millisecond of an answer
  begun            \* data has gone out that completed no answer

kernelVars == <<lastOut, lastIn, sent, received, inFlight>>
historyVars == <<open, behind, tied, begun>>
idleVars == <<clock, kernelVars, historyVars>>

IdleTypeOK ==
  /\ clock \in 0..MaxTime
  /\ lastOut \in 0..clock /\ lastIn \in 0..clock
  /\ sent \in BOOLEAN /\ received \in BOOLEAN /\ inFlight \in BOOLEAN
  /\ open \in 0..MaxOpen
  /\ behind \in BOOLEAN /\ tied \in BOOLEAN /\ begun \in BOOLEAN

IdleInit ==
  /\ clock = 0 /\ lastOut = 0 /\ lastIn = 0
  /\ sent = FALSE /\ received = FALSE /\ inFlight = FALSE
  /\ open = 0 /\ behind = FALSE /\ tied = FALSE /\ begun = FALSE

-----------------------------------------------------------------------------
ToClient == clock - lastOut
FromClient == clock - lastIn

\* Mutant of Idle: the first version, the timers and nothing else.
IdleByTimers ==
  /\ ~inFlight
  /\ ToClient <= FromClient
  /\ ToClient >= Quiet

\* view.idle: never spoke, or the last data, which has arrived, went to the
\* client (a tie counts), and either was long enough ago.
Idle ==
  /\ ~inFlight
  /\ \/ ~sent /\ ~received /\ ToClient >= Quiet /\ FromClient >= Quiet
     \/ sent /\ ToClient <= FromClient /\ ToClient >= Quiet

-----------------------------------------------------------------------------
\* A request arrives.
Ask ==
  /\ open < MaxOpen
  /\ lastIn' = clock /\ received' = TRUE
  /\ open' = open + 1
  /\ tied' = (tied \/ (sent /\ lastOut = clock))
  /\ UNCHANGED <<clock, lastOut, sent, inFlight, behind, begun>>

\* The client sends what asks for nothing: the end of the TLS handshake, an
\* HTTP/2 WINDOW_UPDATE or PING.
Chat ==
  /\ lastIn' = clock /\ received' = TRUE
  /\ UNCHANGED <<clock, lastOut, sent, inFlight, historyVars>>

\* Data of the backend's goes out and completes the answer to a request.
Answer ==
  /\ open > 0
  /\ lastOut' = clock /\ sent' = TRUE /\ inFlight' = TRUE
  /\ open' = open - 1
  /\ behind' = (open > 1)
  /\ tied' = (tied /\ open > 1)
  /\ begun' = (begun /\ open > 1)
  /\ UNCHANGED <<clock, lastIn, received>>

\* Data of the backend's goes out that completes no answer: the first part
\* of one, an interim response, a session ticket, a PING of its own.
Begin ==
  /\ lastOut' = clock /\ sent' = TRUE /\ inFlight' = TRUE
  /\ begun' = (open > 0)
  /\ UNCHANGED <<clock, lastIn, received, open, behind, tied>>

Acknowledged ==
  /\ inFlight
  /\ inFlight' = FALSE
  /\ UNCHANGED <<clock, lastOut, lastIn, sent, received, historyVars>>

Tick ==
  /\ clock < MaxTime
  /\ clock' = clock + 1
  /\ UNCHANGED <<kernelVars, historyVars>>

IdleNext == Ask \/ Chat \/ Answer \/ Begin \/ Acknowledged \/ Tick

IdleSpec == IdleInit /\ [][IdleNext]_idleVars

-----------------------------------------------------------------------------
(* Properties.                                                             *)

\* A shutdown that closes idle connections cuts a request that waits for its
\* answer in three shapes only: another one was answered after it, it shares
\* an answer's millisecond, or its own answer has begun and paused.
IdleCutsOnly == Idle /\ open > 0 => behind \/ tied \/ begun
=============================================================================
