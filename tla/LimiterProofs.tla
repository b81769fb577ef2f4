---------------------------- MODULE LimiterProofs ----------------------------
(***************************************************************************)
(* What Limiter guarantees for every set of callers and configurations.    *)
(*                                                                         *)
(* The two counters are correct only because of where a caller can be when *)
(* it has been decided and when it is queued: Control says that, and Inv   *)
(* adds it to the accounting, which makes both inductive.  The cap and the *)
(* queue's bound then follow at the one step that could break each.        *)
(***************************************************************************)
EXTENDS Limiter, FiniteSetTheorems, TLAPS

Undecided == {"new", "stamp", "record", "look", "load", "cas", "over", "join", "poll"}

\* Where a caller is, against what was decided and counted for it.
Control ==
  \A c \in Callers :
    /\ mode[c] = "none" <=> pc[c] \in Undecided
    /\ pc[c] = "serving" => mode[c] # "reject"
    /\ pc[c] = "leave" => mode[c] # "degrade"
    /\ inQueue[c] => pc[c] \in {"stamp", "look", "load", "cas", "over", "poll", "leave"}
    /\ pc[c] = "poll" => inQueue[c]
    /\ pc[c] = "cas" => seen[c] < snap[c].max

Inv == TypeOK /\ Control /\ SlotsAccounted /\ QueueAccounted

USE CallersAssumption, ConfigsAssumption, WindowAssumption, LagAssumption

-----------------------------------------------------------------------------
(* Finite sets of callers.                                                 *)

\* A counter that counts a set still does when both gain one caller.
LEMMA CountUp ==
  ASSUME NEW S \in SUBSET Callers, NEW T \in SUBSET Callers,
         NEW c \in Callers, c \notin S, T = S \union {c}
  PROVE  /\ Cardinality(S) \in Nat
         /\ Cardinality(T) = Cardinality(S) + 1
  <1>1. IsFiniteSet(S)
    BY FS_Subset
  <1> QED
    BY <1>1, FS_AddElement, FS_CardinalityType

\* ... and when both lose one.
LEMMA CountDown ==
  ASSUME NEW S \in SUBSET Callers, NEW T \in SUBSET Callers,
         NEW c \in S, T = S \ {c}
  PROVE  /\ Cardinality(S) \in Nat
         /\ Cardinality(T) \in Nat
         /\ Cardinality(T) = Cardinality(S) - 1
  <1>1. IsFiniteSet(S) /\ IsFiniteSet(T)
    BY FS_Subset
  <1> QED
    BY <1>1, FS_RemoveElement, FS_CardinalityType

\* A set inside another is no larger.
LEMMA CountSubset ==
  ASSUME NEW S \in SUBSET Callers, NEW T \in SUBSET S
  PROVE  /\ Cardinality(S) \in Nat
         /\ Cardinality(T) \in Nat
         /\ Cardinality(T) <= Cardinality(S)
  <1>1. IsFiniteSet(S) /\ IsFiniteSet(T)
    BY FS_Subset
  <1> QED
    BY <1>1, FS_Subset, FS_CardinalityType

-----------------------------------------------------------------------------
(* Type correctness and control.                                           *)

\* Configurations have the fields Config has.
LEMMA ConfigFields ==
  ASSUME NEW k \in Configs
  PROVE  k.max \in Int /\ k.rps \in Int /\ k.queue \in Int /\ k.policy \in Policies
  BY DEF ConfigType

\* rotate returns counters and a place in the window.
LEMMA RotateType ==
  ASSUME NEW p \in Nat, NEW q \in Nat, NEW e \in Int
  PROVE  /\ Rotate(p, q, e).prev \in Nat
         /\ Rotate(p, q, e).curr \in Nat
         /\ Rotate(p, q, e).e \in Int
  BY DEF Rotate

\* Recording an arrival keeps the window counters natural.
LEMMA RecordType ==
  ASSUME TypeOK, NEW c \in Callers, RecordArrival(c)
  PROVE  prev' \in Nat /\ curr' \in Nat /\ age' \in Int /\ started' \in BOOLEAN
  <1> DEFINE e == IF started THEN Elapsed(c) ELSE Elapsed(c) % WindowSize
             r == Rotate(prev, curr, e)
  <1>1. lag[c] \in Int /\ Elapsed(c) \in Int
    BY DEF TypeOK, Elapsed
  <1>2. Elapsed(c) % WindowSize \in Int
    BY <1>1
  <1>3. e \in Int
    BY <1>1, <1>2
  <1>4. r.prev \in Nat /\ r.curr \in Nat /\ r.e \in Int
    BY <1>3, RotateType DEF TypeOK
  <1>5. prev' = r.prev /\ curr' = r.curr + 1 /\ age' = r.e + lag[c] /\ started' = TRUE
    BY DEF RecordArrival
  <1> QED
    BY <1>1, <1>4, <1>5

\* Every step keeps the types but for the two counters, and keeps Control.
LEMMA StepKeepsControl ==
  ASSUME TypeOK, Control, [Next]_vars
  PROVE  /\ Control'
         /\ TypeOK' \/ ~(current' \in Nat /\ waiting' \in Nat)
  <1> USE DEF TypeOK, Control, Undecided, Steps, Goto, Decide, Granted,
              callerVars, rateVars
  <1>1. ASSUME NEW c \in Callers, Admit(c)
        PROVE  Control' /\ (TypeOK' \/ ~(current' \in Nat /\ waiting' \in Nat))
    BY <1>1 DEF Admit
  <1>2. ASSUME NEW c \in Callers, Stamp(c)
        PROVE  Control' /\ (TypeOK' \/ ~(current' \in Nat /\ waiting' \in Nat))
    BY <1>2 DEF Stamp
  <1>3. ASSUME NEW c \in Callers, Record(c)
        PROVE  Control' /\ (TypeOK' \/ ~(current' \in Nat /\ waiting' \in Nat))
    BY <1>3, RecordType DEF Record
  <1>4. ASSUME NEW c \in Callers, Look(c)
        PROVE  Control' /\ (TypeOK' \/ ~(current' \in Nat /\ waiting' \in Nat))
    BY <1>4 DEF Look
  <1>5. ASSUME NEW c \in Callers, Load(c)
        PROVE  Control' /\ (TypeOK' \/ ~(current' \in Nat /\ waiting' \in Nat))
    BY <1>5, ConfigFields DEF Load
  <1>6. ASSUME NEW c \in Callers, Cas(c)
        PROVE  Control' /\ (TypeOK' \/ ~(current' \in Nat /\ waiting' \in Nat))
    BY <1>6 DEF Cas
  <1>7. ASSUME NEW c \in Callers, Over(c)
        PROVE  Control' /\ (TypeOK' \/ ~(current' \in Nat /\ waiting' \in Nat))
    BY <1>7 DEF Over
  <1>8. ASSUME NEW c \in Callers, Join(c)
        PROVE  Control' /\ (TypeOK' \/ ~(current' \in Nat /\ waiting' \in Nat))
    <2>1. CASE UNCHANGED inQueue
      BY <1>8, <2>1 DEF Join
    <2>2. CASE UNCHANGED mode /\ inQueue' = [inQueue EXCEPT ![c] = TRUE]
      <3>1. ~inQueue[c] /\ mode[c] = "none"
        BY <1>8 DEF Join
      <3>2. pc' = [pc EXCEPT ![c] = "stamp"]
        BY <1>8, <2>2, <3>1 DEF Join
      <3> QED
        BY <1>8, <2>2, <3>1, <3>2 DEF Join
    <2> QED
      BY <1>8, <2>1, <2>2 DEF Join
  <1>9. ASSUME NEW c \in Callers, Poll(c)
        PROVE  Control' /\ (TypeOK' \/ ~(current' \in Nat /\ waiting' \in Nat))
    BY <1>9 DEF Poll
  <1>10. ASSUME NEW c \in Callers, CtxDone(c)
        PROVE  Control' /\ (TypeOK' \/ ~(current' \in Nat /\ waiting' \in Nat))
    BY <1>10 DEF CtxDone
  <1>11. ASSUME NEW c \in Callers, Leave(c)
        PROVE  Control' /\ (TypeOK' \/ ~(current' \in Nat /\ waiting' \in Nat))
    BY <1>11 DEF Leave
  <1>12. ASSUME NEW c \in Callers, Release(c)
        PROVE  Control' /\ (TypeOK' \/ ~(current' \in Nat /\ waiting' \in Nat))
    BY <1>12 DEF Release
  <1>13. ASSUME NEW k \in Configs, SetConfig(k)
        PROVE  Control' /\ (TypeOK' \/ ~(current' \in Nat /\ waiting' \in Nat))
    BY <1>13 DEF SetConfig
  <1>14. ASSUME Tick
        PROVE  Control' /\ (TypeOK' \/ ~(current' \in Nat /\ waiting' \in Nat))
    BY <1>14 DEF Tick, Stamped
  <1>15. CASE UNCHANGED vars
    BY <1>15 DEF vars
  <1> QED
    BY <1>1, <1>2, <1>3, <1>4, <1>5, <1>6, <1>7, <1>8, <1>9, <1>10, <1>11,
       <1>12, <1>13, <1>14, <1>15 DEF Next, CallerStep

-----------------------------------------------------------------------------
(* The two counters.                                                       *)

\* Only a grant, a degradation and a release touch current, each with the
\* set of slot holders.
LEMMA StepKeepsSlots ==
  ASSUME Inv, [Next]_vars
  PROVE  SlotsAccounted' /\ current' \in Nat
  <1> USE DEF Inv, TypeOK, Control, Undecided, Steps, Goto, Decide,
              callerVars, rateVars, SlotHolders
  <1> DEFINE Goal == SlotsAccounted' /\ current' \in Nat
  <1>0. ASSUME UNCHANGED current, SlotHolders' = SlotHolders  PROVE Goal
    BY <1>0 DEF SlotsAccounted
  <1>a. ASSUME NEW c \in Callers, c \notin SlotHolders,
               SlotHolders' = SlotHolders \union {c}, current' = current + 1
        PROVE  Goal
    BY <1>a, CountUp DEF SlotsAccounted
  <1>1. ASSUME NEW c \in Callers, Load(c) \/ Cas(c), Granted(c)  PROVE Goal
    <2>1. SlotHolders' = SlotHolders \union {c} /\ c \notin SlotHolders
      BY <1>1 DEF Granted, Load, Cas
    <2> QED
      BY <1>1, <1>a, <2>1 DEF Granted
  <1>2. ASSUME NEW c \in Callers, Load(c) \/ Cas(c), UNCHANGED current  PROVE Goal
    <2>1. UNCHANGED mode /\ pc[c] \in {"load", "cas"}
      BY <1>2 DEF Granted, Load, Cas
    <2>2. SlotHolders' = SlotHolders
      BY <1>2, <2>1 DEF Granted, Load, Cas
    <2> QED
      BY <1>2, <1>0, <2>2
  <1>3. ASSUME NEW c \in Callers, Over(c)  PROVE Goal
    <2>1. CASE UNCHANGED current
      <3>1. SlotHolders' = SlotHolders
        BY <1>3, <2>1 DEF Over
      <3> QED
        BY <1>0, <2>1, <3>1
    <2>2. CASE current' = current + 1
      <3>1. mode' = [mode EXCEPT ![c] = "degrade"] /\ pc' = [pc EXCEPT ![c] = "serving"]
        BY <1>3, <2>2 DEF Over
      <3>2. SlotHolders' = SlotHolders \union {c} /\ c \notin SlotHolders
        BY <1>3, <3>1 DEF Over
      <3> QED
        BY <1>a, <2>2, <3>2
    <2> QED
      BY <1>3, <2>1, <2>2 DEF Over
  <1>4. ASSUME NEW c \in Callers, Release(c)  PROVE Goal
    <2>1. c \in SlotHolders /\ SlotHolders' = SlotHolders \ {c} /\ current' = current - 1
      BY <1>4 DEF Release
    <2>2. SlotHolders \in SUBSET Callers /\ SlotHolders' \in SUBSET Callers
      OBVIOUS
    <2> HIDE DEF SlotHolders, TypeOK, Control
    <2>3. /\ Cardinality(SlotHolders)' = Cardinality(SlotHolders) - 1
          /\ Cardinality(SlotHolders)' \in Nat
      BY <2>1, <2>2, CountDown
    <2> QED
      BY <2>1, <2>3 DEF SlotsAccounted
  <1>5. ASSUME NEW c \in Callers, Admit(c) \/ Stamp(c) \/ Record(c) \/ Look(c) \/ Poll(c)
        PROVE  Goal
    <2>1. UNCHANGED <<mode, current>> /\ pc[c] # "done" /\ pc'[c] # "done"
          /\ \A d \in Callers : d # c => pc'[d] = pc[d]
      BY <1>5 DEF Admit, Stamp, Record, Look, Poll
    <2>2. SlotHolders' = SlotHolders
      BY <2>1
    <2> QED
      BY <1>0, <2>1, <2>2
  <1>6. ASSUME NEW c \in Callers, Join(c) \/ CtxDone(c)  PROVE Goal
    <2>1. SlotHolders' = SlotHolders /\ UNCHANGED current
      BY <1>6 DEF Join, CtxDone
    <2> QED
      BY <1>0, <2>1
  <1>7. ASSUME NEW c \in Callers, Leave(c)  PROVE Goal
    <2>1. SlotHolders' = SlotHolders /\ UNCHANGED current
      BY <1>7 DEF Leave
    <2> QED
      BY <1>0, <2>1
  <1>8. ASSUME (\E k \in Configs : SetConfig(k)) \/ Tick \/ UNCHANGED vars  PROVE Goal
    <2>1. SlotHolders' = SlotHolders /\ UNCHANGED current
      BY <1>8 DEF SetConfig, Tick, vars
    <2> QED
      BY <1>0, <2>1
  <1>9. ASSUME NEW c \in Callers, Load(c) \/ Cas(c)
        PROVE  Granted(c) \/ UNCHANGED current
    BY <1>9 DEF Load, Cas
  <1> QED
    BY <1>1, <1>2, <1>3, <1>4, <1>5, <1>6, <1>7, <1>8, <1>9 DEF Next, CallerStep

\* Only Join and Leave touch waiting, each with the set of counted callers.
LEMMA StepKeepsQueue ==
  ASSUME Inv, [Next]_vars
  PROVE  QueueAccounted' /\ waiting' \in Nat
  <1> USE DEF Inv, TypeOK, Control, Undecided, Steps, Goto, Decide,
              callerVars, rateVars, Counted
  <1> DEFINE Goal == QueueAccounted' /\ waiting' \in Nat
  <1>0. ASSUME UNCHANGED waiting, Counted' = Counted  PROVE Goal
    BY <1>0 DEF QueueAccounted
  <1>1. ASSUME NEW c \in Callers, Join(c)  PROVE Goal
    <2>1. c \notin Counted /\ waiting' = waiting + 1
      BY <1>1 DEF Join
    <2>2. Counted' = Counted \union {c}
      <3>1. CASE UNCHANGED inQueue /\ pc' = [pc EXCEPT ![c] = "leave"]
        BY <1>1, <3>1
      <3>2. CASE pc' = [pc EXCEPT ![c] = "stamp"] /\ inQueue' = [inQueue EXCEPT ![c] = TRUE]
        BY <1>1, <2>1, <3>2
      <3> QED
        BY <1>1, <3>1, <3>2 DEF Join
    <2> QED
      BY <2>1, <2>2, CountUp DEF QueueAccounted
  <1>2. ASSUME NEW c \in Callers, Leave(c)  PROVE Goal
    <2>1. c \in Counted /\ Counted' = Counted \ {c} /\ waiting' = waiting - 1
      BY <1>2 DEF Leave
    <2> QED
      BY <2>1, CountDown DEF QueueAccounted
  <1>3. ASSUME NEW c \in Callers,
               Admit(c) \/ Stamp(c) \/ Record(c) \/ Look(c) \/ Poll(c) \/ Release(c)
        PROVE  Goal
    <2>1. UNCHANGED <<inQueue, waiting>> /\ pc[c] # "leave" /\ pc'[c] # "leave"
          /\ \A d \in Callers : d # c => pc'[d] = pc[d]
      BY <1>3 DEF Admit, Stamp, Record, Look, Poll, Release
    <2>2. Counted' = Counted
      BY <2>1
    <2> QED
      BY <1>0, <2>1, <2>2
  <1>4. ASSUME NEW c \in Callers, Load(c) \/ Cas(c) \/ Over(c) \/ CtxDone(c)
        PROVE  Goal
    <2>1. /\ UNCHANGED <<inQueue, waiting>>
          /\ pc[c] # "leave"
          /\ pc'[c] = "leave" => inQueue[c]
          /\ \A d \in Callers : d # c => pc'[d] = pc[d]
      BY <1>4 DEF Load, Cas, Over, CtxDone, Granted
    <2>2. Counted' = Counted
      BY <2>1
    <2> QED
      BY <1>0, <2>1, <2>2
  <1>5. ASSUME (\E k \in Configs : SetConfig(k)) \/ Tick \/ UNCHANGED vars  PROVE Goal
    <2>1. Counted' = Counted /\ UNCHANGED waiting
      BY <1>5 DEF SetConfig, Tick, vars
    <2> QED
      BY <1>0, <2>1
  <1> QED
    BY <1>1, <1>2, <1>3, <1>4, <1>5 DEF Next, CallerStep

\* The counters start at zero with nobody counted.
LEMMA InitInv == Init => Inv
  <1> SUFFICES ASSUME Init PROVE Inv
    OBVIOUS
  <1>1. SlotHolders = {} /\ Counted = {}
    BY DEF Init, SlotHolders, Counted
  <1>2. TypeOK
    <2>1. age \in Int /\ 0 \in 0..MaxLag /\ "new" \in Steps
      BY DEF Init, Steps
    <2> QED
      BY <2>1 DEF Init, TypeOK
  <1>3. ASSUME NEW c \in Callers
        PROVE  mode[c] = "none" /\ pc[c] = "new" /\ ~inQueue[c]
    BY DEF Init
  <1>4. Control
    BY <1>3 DEF Control, Undecided
  <1> QED
    BY <1>1, <1>2, <1>4, FS_EmptySet DEF Init, Inv, SlotsAccounted, QueueAccounted

\* Every atomic step keeps the three groups of facts together.
LEMMA NextInv == Inv /\ [Next]_vars => Inv'
  BY StepKeepsControl, StepKeepsSlots, StepKeepsQueue DEF Inv

\* The limiter's variables keep their types, and neither counter is ever
\* driven below zero by an unmatched release or leave.
THEOREM TypeCorrect == Spec => []TypeOK
  <1>1. Inv => TypeOK
    BY DEF Inv
  <1> QED
    BY <1>1, InitInv, NextInv, PTL DEF Spec

\* No path through Admit leaks a concurrency slot or returns one twice,
\* for any number of callers and any configurations.
THEOREM SlotsAreAccounted == Spec => []SlotsAccounted
  <1>1. Inv => SlotsAccounted
    BY DEF Inv
  <1> QED
    BY <1>1, InitInv, NextInv, PTL DEF Spec

\* The throttle queue's counter is the callers in it, on every way out.
THEOREM QueueIsAccounted == Spec => []QueueAccounted
  <1>1. Inv => QueueAccounted
    BY DEF Inv
  <1> QED
    BY <1>1, InitInv, NextInv, PTL DEF Spec

-----------------------------------------------------------------------------
(* The queue's bound.                                                      *)

\* Only Join puts a caller in the queue, and it looks at its own add: all
\* the callers counted with it fit the size it was given, so a fortiori do
\* the queued ones under any larger size.
LEMMA StepKeepsBound == Inv /\ QueueBounded /\ [Next]_vars => QueueBounded'
  <1> SUFFICES ASSUME Inv, QueueBounded, [Next]_vars,
                      NEW k \in Configs, 0 < k.queue
               PROVE  Cardinality(QueuedUnder(k.queue))' <= k.queue
    BY DEF QueueBounded
  <1> DEFINE Q == QueuedUnder(k.queue)
  <1> USE DEF Inv, TypeOK, Control, Undecided, Steps, Goto, Decide, Granted,
              callerVars, rateVars
  <1>0. k.queue \in Int
    BY ConfigFields
  <1>1. ASSUME Q' \subseteq Q  PROVE Cardinality(Q)' <= k.queue
    <2>1. Q \in SUBSET Callers /\ Cardinality(Q) <= k.queue
      BY DEF QueuedUnder, QueueBounded
    <2>2. /\ Cardinality(Q) \in Nat /\ Cardinality(Q)' \in Nat
          /\ Cardinality(Q)' <= Cardinality(Q)
      BY <1>1, <2>1, CountSubset
    <2> QED
      BY <1>0, <2>1, <2>2
  <1>2. ASSUME NEW c \in Callers, Join(c), c \in Q'
        PROVE  Cardinality(Q)' <= k.queue
    <2>1. snap'[c].queue <= k.queue /\ UNCHANGED snap /\ pc[c] = "join"
      BY <1>2 DEF QueuedUnder, Join
    <2>2. ~inQueue[c] /\ inQueue'[c]
      BY <1>2, <2>1 DEF QueuedUnder
    <2>3. waiting' <= snap[c].queue
      BY <1>2, <2>2 DEF Join
    <2>4. Cardinality(Counted)' = waiting' /\ waiting' \in Nat
      BY StepKeepsQueue DEF QueueAccounted
    <2>5. Q' \in SUBSET Counted' /\ Counted' \in SUBSET Callers
      BY DEF Counted, QueuedUnder
    <2>6. Cardinality(Q)' <= Cardinality(Counted)' /\ Cardinality(Q)' \in Nat
      BY <2>5, CountSubset
    <2>7. snap[c].queue \in Int
      BY ConfigFields
    <2> QED
      BY <1>0, <2>1, <2>3, <2>4, <2>6, <2>7
  <1>3. ASSUME NEW c \in Callers, Join(c), c \notin Q'  PROVE Q' \subseteq Q
    <2>1. UNCHANGED snap /\ \A d \in Callers : d # c => inQueue'[d] = inQueue[d]
      BY <1>3 DEF Join
    <2> QED
      BY <1>3, <2>1 DEF QueuedUnder
  <1>4. ASSUME NEW c \in Callers, Admit(c)  PROVE Q' \subseteq Q
    <2>1. /\ UNCHANGED inQueue /\ ~inQueue[c]
          /\ \A d \in Callers : d # c => snap'[d] = snap[d]
      BY <1>4 DEF Admit
    <2> QED
      BY <2>1 DEF QueuedUnder
  <1>5. ASSUME NEW c \in Callers, Leave(c)  PROVE Q' \subseteq Q
    <2>1. UNCHANGED snap /\ \A d \in Callers : inQueue'[d] => inQueue[d]
      BY <1>5 DEF Leave
    <2> QED
      BY <2>1 DEF QueuedUnder
  <1>6. ASSUME UNCHANGED <<snap, inQueue>>  PROVE Q' \subseteq Q
    BY <1>6 DEF QueuedUnder
  <1>7. ASSUME NEW c \in Callers, CallerStep(c) \/ CtxDone(c)
        PROVE  Join(c) \/ Admit(c) \/ Leave(c) \/ UNCHANGED <<snap, inQueue>>
    BY <1>7 DEF CallerStep, Stamp, Record, Look, Load, Cas, Over, Poll, CtxDone, Release
  <1>8. ASSUME (\E j \in Configs : SetConfig(j)) \/ Tick \/ UNCHANGED vars
        PROVE  UNCHANGED <<snap, inQueue>>
    BY <1>8 DEF SetConfig, Tick, vars
  <1> HIDE DEF Inv, TypeOK, Control, Goto, Decide, Granted
  <1> QED
    BY <1>1, <1>2, <1>3, <1>4, <1>5, <1>6, <1>7, <1>8 DEF Next

\* The throttle queue never holds more callers than ThrottleQueueSize, with
\* any number of callers joining at once and under any changes of the
\* configuration.
THEOREM QueueIsBounded == Spec => []QueueBounded
  <1>1. Init => QueueBounded
    <2> SUFFICES ASSUME Init, NEW k \in Configs, 0 < k.queue
                 PROVE  Cardinality(QueuedUnder(k.queue)) <= k.queue
      BY DEF QueueBounded
    <2>1. QueuedUnder(k.queue) = {} /\ k.queue \in Int
      BY ConfigFields DEF Init, QueuedUnder
    <2> QED
      BY <2>1, FS_EmptySet
  <1> QED
    BY <1>1, InitInv, NextInv, StepKeepsBound, PTL DEF Spec

-----------------------------------------------------------------------------
(* The promise.                                                            *)

\* The instance of Admission counts as this module does.
LEMMA SameCount == ASSUME NEW S PROVE Gate!Cardinality(S) = Cardinality(S)
  BY DEF Cardinality, Gate!Cardinality

\* The slot holders of the code are those of the promise.
LEMMA SameHolders == ASSUME Inv PROVE Gate!Holders = SlotHolders
  BY DEF Inv, TypeOK, Gate!Holders, GateOf, SlotHolders

\* A step that moves no caller to or from a decision is a stutter.
LEMMA Stutters ==
  ASSUME UNCHANGED mode,
         \A d \in Callers : mode[d] \in {"proceed", "degrade"} =>
            snap'[d] = snap[d] /\ (pc'[d] = "done" <=> pc[d] = "done")
  PROVE  UNCHANGED Gate!gateVars
  <1>1. \A d \in Callers : GateOf(d)' = GateOf(d) /\ CapOf(d)' = CapOf(d)
    BY DEF GateOf, CapOf, SlotHolders
  <1> QED
    BY <1>1 DEF Gate!gateVars

\* A step that changes one caller's standing.
LEMMA OneMoves ==
  ASSUME NEW c \in Callers, UNCHANGED snap,
         \A d \in Callers : d # c => mode'[d] = mode[d] /\ pc'[d] = pc[d]
  PROVE  /\ [d \in Callers |-> GateOf(d)]' =
              [[d \in Callers |-> GateOf(d)] EXCEPT ![c] = GateOf(c)']
         /\ [d \in Callers |-> CapOf(d)]' =
              [[d \in Callers |-> CapOf(d)] EXCEPT ![c] = CapOf(c)']
  <1>1. \A d \in Callers : d # c => GateOf(d)' = GateOf(d) /\ CapOf(d)' = CapOf(d)
    BY DEF GateOf, CapOf, SlotHolders
  <1> HIDE DEF GateOf, CapOf
  <1> QED
    BY <1>1

\* Every step of the code is a step of Admission or a stutter.
LEMMA StepRefines == Inv /\ [Next]_vars => [Gate!GateNext]_Gate!gateVars
  <1> SUFFICES ASSUME Inv, [Next]_vars
               PROVE  Gate!GateNext \/ UNCHANGED Gate!gateVars
    OBVIOUS
  <1> USE DEF Inv, TypeOK, Control, Undecided, Steps, Goto, Decide,
              callerVars, rateVars
  <1>1. ASSUME NEW c \in Callers, Load(c) \/ Cas(c), Granted(c)
        PROVE  Gate!Proceed(c, snap[c].max)
    <2>1. /\ mode[c] = "none" /\ UNCHANGED snap
          /\ mode' = [mode EXCEPT ![c] = "proceed"] /\ pc'[c] \in {"leave", "serving"}
          /\ \A d \in Callers : d # c => mode'[d] = mode[d] /\ pc'[d] = pc[d]
      BY <1>1 DEF Granted, Load, Cas
    <2>2. GateOf(c) = "asking" /\ GateOf(c)' = "proceed" /\ CapOf(c)' = snap[c].max
      BY <2>1 DEF GateOf, CapOf, SlotHolders
    <2>3. snap[c].max <= 0 \/ current < snap[c].max
      BY <1>1 DEF Load, Cas, Granted
    <2>4. Gate!Cardinality(Gate!Holders) = current
      BY SameHolders, SameCount DEF SlotsAccounted
    <2> HIDE DEF Inv, TypeOK, Control, Goto, Decide
    <2>5. snap[c].max <= 0 \/ Gate!Cardinality(Gate!Holders) < snap[c].max
      BY <2>3, <2>4
    <2>6. /\ [d \in Callers |-> GateOf(d)]' =
               [[d \in Callers |-> GateOf(d)] EXCEPT ![c] = "proceed"]
          /\ [d \in Callers |-> CapOf(d)]' =
               [[d \in Callers |-> CapOf(d)] EXCEPT ![c] = snap[c].max]
      BY <2>1, <2>2, OneMoves
    <2>7. [d \in Callers |-> GateOf(d)][c] = "asking"
      BY <2>2
    <2> QED
      BY ONLY <2>5, <2>6, <2>7 DEF Gate!Proceed
  <1>2. ASSUME NEW c \in Callers, Load(c) \/ Cas(c), UNCHANGED mode
        PROVE  UNCHANGED Gate!gateVars
    BY <1>2, Stutters DEF Load, Cas, Granted
  <1>3. ASSUME NEW c \in Callers, Over(c), mode' = [mode EXCEPT ![c] = "degrade"]
        PROVE  Gate!Degrade(c)
    <2>1. /\ mode[c] = "none" /\ UNCHANGED snap
          /\ pc'[c] \in {"serving"}
          /\ \A d \in Callers : d # c => mode'[d] = mode[d] /\ pc'[d] = pc[d]
      BY <1>3 DEF Over
    <2>2. GateOf(c) = "asking" /\ GateOf(c)' = "degrade" /\ CapOf(c)' = CapOf(c)
      BY <1>3, <2>1 DEF GateOf, CapOf, SlotHolders
    <2> HIDE DEF Inv, TypeOK, Control
    <2> QED
      BY <2>1, <2>2, OneMoves DEF Gate!Degrade
  <1>4. ASSUME NEW c \in Callers, Over(c) \/ Join(c) \/ CtxDone(c),
               mode' = [mode EXCEPT ![c] = "reject"]
        PROVE  Gate!Refuse(c)
    <2>1. /\ mode[c] = "none" /\ UNCHANGED snap
          /\ \A d \in Callers : d # c => mode'[d] = mode[d] /\ pc'[d] = pc[d]
      BY <1>4 DEF Over, Join, CtxDone
    <2>2. GateOf(c) = "asking" /\ GateOf(c)' = "gone" /\ CapOf(c)' = CapOf(c)
      BY <1>4, <2>1 DEF GateOf, CapOf, SlotHolders
    <2> HIDE DEF Inv, TypeOK, Control
    <2> QED
      BY <2>1, <2>2, OneMoves DEF Gate!Refuse
  <1>5. ASSUME NEW c \in Callers, Over(c) \/ Join(c), UNCHANGED mode
        PROVE  UNCHANGED Gate!gateVars
    BY <1>5, Stutters DEF Over, Join
  <1>6. ASSUME NEW c \in Callers, Release(c)
        PROVE  Gate!GiveBack(c)
    <2>1. /\ mode[c] \in {"proceed", "degrade"} /\ UNCHANGED <<snap, mode>>
          /\ pc[c] = "serving" /\ pc'[c] = "done"
          /\ \A d \in Callers : d # c => mode'[d] = mode[d] /\ pc'[d] = pc[d]
      BY <1>6 DEF Release
    <2>2. c \in SlotHolders /\ GateOf(c)' = "gone" /\ CapOf(c)' = CapOf(c)
      BY <2>1 DEF GateOf, CapOf, SlotHolders
    <2>3. c \in Gate!Holders
      BY <2>2, SameHolders
    <2> HIDE DEF Inv, TypeOK, Control
    <2> QED
      BY <2>1, <2>2, <2>3, OneMoves DEF Gate!GiveBack
  <1>7. ASSUME NEW c \in Callers,
               Admit(c) \/ Stamp(c) \/ Record(c) \/ Look(c) \/ Poll(c) \/ Leave(c)
        PROVE  UNCHANGED Gate!gateVars
    BY <1>7, Stutters DEF Admit, Stamp, Record, Look, Poll, Leave
  <1>8. ASSUME (\E k \in Configs : SetConfig(k)) \/ Tick \/ UNCHANGED vars
        PROVE  UNCHANGED Gate!gateVars
    BY <1>8, Stutters DEF SetConfig, Tick, vars
  <1>9. ASSUME NEW c \in Callers
        PROVE  /\ Load(c) \/ Cas(c) => Granted(c) \/ UNCHANGED mode
               /\ Over(c) => \/ UNCHANGED mode
                             \/ mode' = [mode EXCEPT ![c] = "degrade"]
                             \/ mode' = [mode EXCEPT ![c] = "reject"]
               /\ Join(c) => UNCHANGED mode \/ mode' = [mode EXCEPT ![c] = "reject"]
               /\ CtxDone(c) => mode' = [mode EXCEPT ![c] = "reject"]
    BY DEF Load, Cas, Over, Join, CtxDone
  <1>10. \A c \in Callers : snap[c].max \in {k.max : k \in Configs}
    OBVIOUS
  <1> HIDE DEF Inv, TypeOK, Control, Goto, Decide
  <1>11. ASSUME NEW c \in Callers, CallerStep(c) \/ CtxDone(c)
         PROVE  Gate!GateNext \/ UNCHANGED Gate!gateVars
    BY <1>1, <1>2, <1>3, <1>4, <1>5, <1>6, <1>7, <1>9, <1>10, <1>11
       DEF CallerStep, Gate!GateNext
  <1> QED
    BY <1>8, <1>11 DEF Next

\* The lock-free limiter, with its snapshots, compare-and-swap loop and
\* throttle queue, implements the atomic gate of Admission.
THEOREM Implements == Spec => ImplementsAdmission
  <1>1. Init => Gate!GateInit
    <2> SUFFICES ASSUME Init PROVE Gate!GateInit
      OBVIOUS
    <2>1. \A c \in Callers : GateOf(c) = "asking" /\ CapOf(c) = 0
      BY DEF Init, GateOf, CapOf, SlotHolders
    <2> QED
      BY <2>1 DEF Gate!GateInit
  <1> QED
    BY <1>1, InitInv, NextInv, StepRefines, PTL
       DEF Spec, ImplementsAdmission, Gate!GateSpec

-----------------------------------------------------------------------------
(* The cap.                                                                *)

\* ProceedingUnder, on the variables of the code.
LEMMA UnderCap ==
  ASSUME Inv, NEW m \in Int
  PROVE  Gate!ProceedingUnder(m) =
           {c \in SlotHolders : mode[c] = "proceed" /\ 0 < snap[c].max /\ snap[c].max <= m}
  BY DEF Gate!ProceedingUnder, GateOf, CapOf, SlotHolders, Inv, TypeOK

\* Only a grant adds a holder under a cap, and it found fewer slots out
\* than its own cap, at the moment of its compare-and-swap.
LEMMA StepKeepsCap == Inv /\ CapRespected /\ [Next]_vars => CapRespected'
  <1> SUFFICES ASSUME Inv, CapRespected, [Next]_vars,
                      NEW m \in {k.max : k \in Configs}, 0 < m
               PROVE  Cardinality(Gate!ProceedingUnder(m)') <= m
    BY SameCount DEF CapRespected, Gate!CapRespected
  <1> DEFINE U == {c \in SlotHolders :
                     mode[c] = "proceed" /\ 0 < snap[c].max /\ snap[c].max <= m}
  <1>0. m \in Int
    BY ConfigFields
  <1>1. Inv'
    BY NextInv
  <1>2. Gate!ProceedingUnder(m) = U /\ Gate!ProceedingUnder(m)' = U'
    <2>1. Gate!ProceedingUnder(m) = U
      BY <1>0, UnderCap
    <2>2. Gate!ProceedingUnder(m)' = U'
      BY <1>0, <1>1, UnderCap DEF Gate!ProceedingUnder, GateOf, CapOf, SlotHolders, Inv, TypeOK
    <2> QED
      BY <2>1, <2>2
  <1>3. Cardinality(U) <= m
    BY <1>2, SameCount DEF CapRespected, Gate!CapRespected
  <1>4. U \in SUBSET SlotHolders /\ SlotHolders \in SUBSET Callers
        /\ U' \in SUBSET SlotHolders' /\ SlotHolders' \in SUBSET Callers
    BY DEF SlotHolders
  <1>5. ASSUME U' \subseteq U  PROVE Cardinality(U') <= m
    <2>1. /\ Cardinality(U) \in Nat /\ Cardinality(U') \in Nat
          /\ Cardinality(U') <= Cardinality(U)
      BY <1>4, <1>5, CountSubset
    <2> QED
      BY <1>0, <1>3, <2>1
  <1>6. ASSUME NEW c \in Callers, Load(c) \/ Cas(c), Granted(c), c \in U'
        PROVE  Cardinality(U') <= m
    <2>1. snap[c].max \in Int /\ 0 < snap[c].max /\ snap[c].max <= m
      BY <1>6, ConfigFields DEF Load, Cas, Inv, TypeOK
    <2>2. current < snap[c].max /\ current' = current + 1
      BY <1>6, <2>1 DEF Load, Cas, Granted, Inv, Control, TypeOK
    <2>3. Cardinality(SlotHolders') = current' /\ current' \in Nat
      BY <1>1 DEF Inv, SlotsAccounted, TypeOK
    <2>4. Cardinality(U') <= Cardinality(SlotHolders') /\ Cardinality(U') \in Nat
      BY <1>4, CountSubset
    <2>5. current \in Nat
      BY DEF Inv, TypeOK
    <2> QED
      BY <1>0, <2>1, <2>2, <2>3, <2>4, <2>5
  <1> USE DEF Inv, TypeOK, Control, Undecided, Steps, Goto, Decide,
              callerVars, rateVars, SlotHolders
  <1>7. ASSUME NEW c \in Callers, Load(c) \/ Cas(c), Granted(c), c \notin U'
        PROVE  U' \subseteq U
    BY <1>7 DEF Load, Cas, Granted
  <1>8. ASSUME NEW c \in Callers, Load(c) \/ Cas(c), UNCHANGED mode
        PROVE  U' \subseteq U
    BY <1>8 DEF Load, Cas, Granted
  <1>9. ASSUME NEW c \in Callers, Over(c) \/ Join(c) \/ CtxDone(c) \/ Release(c) \/ Leave(c)
        PROVE  U' \subseteq U
    <2>1. /\ UNCHANGED snap
          /\ \A d \in Callers : mode'[d] = "proceed" => mode[d] = "proceed"
          /\ \A d \in Callers : d # c => pc'[d] = pc[d]
          /\ pc[c] # "done"
      BY <1>9 DEF Over, Join, CtxDone, Release, Leave
    <2> QED
      BY <2>1
  <1>10. ASSUME NEW c \in Callers, Admit(c) \/ Stamp(c) \/ Record(c) \/ Look(c) \/ Poll(c)
         PROVE  U' \subseteq U
    <2>1. UNCHANGED mode /\ mode[c] = "none"
          /\ \A d \in Callers : d # c => pc'[d] = pc[d] /\ snap'[d] = snap[d]
      BY <1>10 DEF Admit, Stamp, Record, Look, Poll
    <2> QED
      BY <2>1
  <1>11. ASSUME (\E k \in Configs : SetConfig(k)) \/ Tick \/ UNCHANGED vars
         PROVE  U' \subseteq U
    BY <1>11 DEF SetConfig, Tick, vars
  <1>12. ASSUME NEW c \in Callers, Load(c) \/ Cas(c)
         PROVE  Granted(c) \/ UNCHANGED mode
    BY <1>12 DEF Load, Cas
  <1> HIDE DEF Inv, TypeOK, Control, Goto, Decide, SlotHolders, U
  <1>13. Cardinality(U') <= m
    BY <1>5, <1>6, <1>7, <1>8, <1>9, <1>10, <1>11, <1>12 DEF Next, CallerStep
  <1> QED
    BY <1>2, <1>13

\* MaxConcurrentConnections is never exceeded by the callers let in under
\* it, whatever races for the last slot and however often the
\* configuration is replaced meanwhile.
THEOREM CapIsRespected == Spec => []CapRespected
  <1>1. Init => CapRespected
    <2> SUFFICES ASSUME Init, NEW m \in {k.max : k \in Configs}, 0 < m
                 PROVE  Gate!Cardinality(Gate!ProceedingUnder(m)) <= m
      BY DEF CapRespected, Gate!CapRespected
    <2>1. m \in Int /\ Inv
      BY ConfigFields, InitInv
    <2>2. Gate!ProceedingUnder(m) = {}
      <3>1. SlotHolders = {}
        BY DEF Init, SlotHolders
      <3> QED
        BY <2>1, <3>1, UnderCap
    <2> QED
      BY <2>1, <2>2, SameCount, FS_EmptySet
  <1> QED
    BY <1>1, InitInv, NextInv, StepKeepsCap, PTL DEF Spec
=============================================================================
