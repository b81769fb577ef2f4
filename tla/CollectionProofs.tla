-------------------------- MODULE CollectionProofs --------------------------
(***************************************************************************)
(* What the collector and the beacon write down, and what becomes of it,   *)
(* for any sites, policies, archives and updates: the rows a flush takes,  *)
(* the counters and the sweep of the rate store, retention, the file of    *)
(* bot fingerprints, what a lookup answers and what the summaries hold.    *)
(***************************************************************************)
EXTENDS Recording, Rollup, Retention, RangeTable, BotData, FiniteSetTheorems, TLAPS

-----------------------------------------------------------------------------
(* Retention.                                                              *)

\* A finite set of integers has a largest: of the sets of its members from one
\* of them upwards, one has no other inside it.
LEMMA LargestOf ==
  ASSUME NEW S \in SUBSET Int, S # {}, IsFiniteSet(S)
  PROVE  Max(S) \in S /\ \A x \in S : x <= Max(S)
<1> DEFINE From(x) == {y \in S : x <= y}
           Froms == {From(x) : x \in S}
<1>0. \A x \in S : x \in Int
  OBVIOUS
<1>1. Froms \subseteq FiniteSubsetsOf(S) /\ Froms # {}
  <2>1. FiniteSubsetsOf(S) = SUBSET S
    BY FS_FiniteSubsetsOfFinite
  <2>2. Froms \subseteq SUBSET S /\ Froms # {}
    OBVIOUS
  <2> QED
    BY <2>1, <2>2
<1>2. PICK F \in Froms : \A G \in Froms : ~(<<G, F>> \in StrictSubsetOrdering(S))
  BY <1>1, FS_StrictSubsetOrderingWellFounded, WFMin
<1>3. PICK x \in S : F = From(x)
  OBVIOUS
<1>4. ASSUME NEW w \in S, ~(w <= x) PROVE FALSE
  <2>1. x <= w /\ x # w /\ x \in Int /\ w \in Int
    BY <1>0, <1>4
  <2>2. From(w) \subseteq From(x) /\ x \in From(x) /\ x \notin From(w)
    <3>1. \A y \in S : w <= y => x <= y
      BY <1>0, <2>1
    <3>2. x <= x /\ ~(w <= x)
      BY <1>4, <2>1
    <3> QED
      BY <3>1, <3>2
  <2>3. From(w) \in SUBSET S /\ From(x) \in SUBSET S /\ From(w) \in Froms
    OBVIOUS
  <2> HIDE DEF From, Froms
  <2>4. <<From(w), From(x)>> \in StrictSubsetOrdering(S)
    BY <2>2, <2>3 DEF StrictSubsetOrdering
  <2> QED
    BY <1>2, <1>3, <2>3, <2>4
<1>5. x \in S /\ \A w \in S : w <= x
  BY <1>4
<1> QED
  BY <1>5 DEF Max

\* A finite set of integers has a least, in the same way.
LEMMA LeastOf ==
  ASSUME NEW S \in SUBSET Int, S # {}, IsFiniteSet(S)
  PROVE  Min(S) \in S /\ \A x \in S : Min(S) <= x
<1> DEFINE Upto(x) == {y \in S : y <= x}
           Uptos == {Upto(x) : x \in S}
<1>0. \A x \in S : x \in Int
  OBVIOUS
<1>1. Uptos \subseteq FiniteSubsetsOf(S) /\ Uptos # {}
  <2>1. FiniteSubsetsOf(S) = SUBSET S
    BY FS_FiniteSubsetsOfFinite
  <2>2. Uptos \subseteq SUBSET S /\ Uptos # {}
    OBVIOUS
  <2> QED
    BY <2>1, <2>2
<1>2. PICK F \in Uptos : \A G \in Uptos : ~(<<G, F>> \in StrictSubsetOrdering(S))
  BY <1>1, FS_StrictSubsetOrderingWellFounded, WFMin
<1>3. PICK x \in S : F = Upto(x)
  OBVIOUS
<1>4. ASSUME NEW w \in S, ~(x <= w) PROVE FALSE
  <2>1. w <= x /\ x # w /\ x \in Int /\ w \in Int
    BY <1>0, <1>4
  <2>2. Upto(w) \subseteq Upto(x) /\ x \in Upto(x) /\ x \notin Upto(w)
    <3>1. \A y \in S : y <= w => y <= x
      BY <1>0, <2>1
    <3>2. x <= x /\ ~(x <= w)
      BY <1>4, <2>1
    <3> QED
      BY <3>1, <3>2
  <2>3. Upto(w) \in SUBSET S /\ Upto(x) \in SUBSET S /\ Upto(w) \in Uptos
    OBVIOUS
  <2> HIDE DEF Upto, Uptos
  <2>4. <<Upto(w), Upto(x)>> \in StrictSubsetOrdering(S)
    BY <2>2, <2>3 DEF StrictSubsetOrdering
  <2> QED
    BY <1>2, <1>3, <2>3, <2>4
<1>5. x \in S /\ \A w \in S : x <= w
  BY <1>4
<1> QED
  BY <1>5 DEF Min

\* The beacon's policy keeps rows for as long as any site asks, and trims
\* only sites that ask for less.
LEMMA LongestCovers ==
  /\ longest(RetentionPolicy) \in Nat \ {0}
  /\ \A s \in Sites : BeaconKeeps(s) \in Nat /\ BeaconKeeps(s) <= longest(RetentionPolicy)
  /\ \A s \in shorter(RetentionPolicy) : s \in Sites /\ BeaconKeeps(s) = BeaconPerSite[s]
<1> USE RetentionAssumed DEF RetentionAssumption
<1> DEFINE differs == {s \in DOMAIN BeaconPerSite : BeaconPerSite[s] # BeaconDays}
           S == {BeaconDays} \cup {BeaconPerSite[s] : s \in differs}
<1>1. /\ S \in SUBSET Int /\ S # {} /\ S \subseteq MinDays..MaxDays
      /\ \A s \in Sites : BeaconKeeps(s) \in S
  BY DEF BeaconKeeps
<1>2. Max(S) \in S /\ \A x \in S : x <= Max(S)
  <2> HIDE DEF S
  <2>1. IsFiniteSet(S)
    <3>1. IsFiniteSet(MinDays..MaxDays)
      BY FS_Interval
    <3> QED
      BY <1>1, <3>1, FS_Subset
  <2> QED
    BY <1>1, <2>1, LargestOf
<1>3. /\ RetentionPolicy.days = BeaconDays /\ DOMAIN RetentionPolicy.perSite = differs
      /\ \A s \in differs : RetentionPolicy.perSite[s] = BeaconPerSite[s]
  BY DEF RetentionPolicy
<1>4. longest(RetentionPolicy) = Max(S)
  BY <1>3 DEF longest
<1>5. \A s \in shorter(RetentionPolicy) : s \in Sites /\ BeaconKeeps(s) = BeaconPerSite[s]
  BY <1>3 DEF shorter, BeaconKeeps
<1> HIDE DEF S
<1>6. Max(S) \in MinDays..MaxDays
  BY <1>1, <1>2
<1>7. \A s \in Sites : BeaconKeeps(s) \in MinDays..MaxDays /\ BeaconKeeps(s) <= Max(S)
  BY <1>1, <1>2
<1> QED
  BY <1>4, <1>5, <1>6, <1>7

\* Rows have a site and a day that has come; the policy of beacon_events, once
\* there, covers every site, and what is left to trim is of sites that ask
\* for less.
RetentionTypes ==
  /\ day \in Nat
  /\ retained \in [Tables -> SUBSET [site : Sites, day : Nat]]
  /\ DOMAIN lost = Tables
  /\ lost["beacon_events"] \subseteq [site : Sites, day : Nat]
  /\ dropAfter \in [Tables -> Int]

PolicyCovers ==
  /\ dropAfter["beacon_events"] \in {0, longest(RetentionPolicy)}
  /\ untrimmed \subseteq shorter(RetentionPolicy)

RetentionInv == RetentionTypes /\ PolicyCovers /\ EventsAreKept

\* Nothing is kept, lost or dropped before the first pass.
LEMMA RetentionStarts == RetentionInit => RetentionInv
  BY DEF RetentionInit, RetentionInv, RetentionTypes, PolicyCovers, EventsAreKept, Tables

\* Every step takes out only what no site wants any more.
LEMMA RetentionKeeps == RetentionInv /\ [RetentionNext]_retentionVars => RetentionInv'
<1> SUFFICES ASSUME RetentionInv, [RetentionNext]_retentionVars PROVE RetentionInv'
  OBVIOUS
<1> USE DEF RetentionInv, Tables
<1>1. ASSUME NEW s \in Sites, CollectorApply(s) PROVE RetentionInv'
  <2>1. longest(Collector(s)) \in Int
    <3>1. {Collector(s).days} \cup {Collector(s).perSite[x] : x \in DOMAIN Collector(s).perSite}
            = {CollectorDays[s]}
      BY DEF Collector
    <3>2. CollectorDays[s] \in Int
      BY RetentionAssumed DEF RetentionAssumption
    <3>3. longest(Collector(s)) \in {CollectorDays[s]}
      BY <3>1, <3>2, LargestOf, FS_Singleton DEF longest
    <3> QED
      BY <3>2, <3>3
  <2> QED
    BY <1>1, <2>1 DEF CollectorApply, RetentionTypes, PolicyCovers, EventsAreKept
<1>2. CASE BeaconApply
  BY <1>2, LongestCovers DEF BeaconApply, RetentionTypes, PolicyCovers, EventsAreKept
<1>3. CASE TrimSite
  <2>1. PICK s \in untrimmed :
          \/ /\ RowsRemoved("beacon_events",
                  {r \in retained["beacon_events"] : r.site = s /\ r.day < day - BeaconPerSite[s]})
             /\ untrimmed' = untrimmed \ {s}
          \/ untrimmed' = {} /\ UNCHANGED <<retained, lost>>
    BY <1>3 DEF TrimSite
  <2>2. UNCHANGED <<day, dropAfter>>
    BY <1>3 DEF TrimSite
  <2>3. s \in Sites /\ BeaconKeeps(s) = BeaconPerSite[s]
    BY LongestCovers DEF PolicyCovers
  <2>4. CASE UNCHANGED <<retained, lost>>
    BY <2>1, <2>2, <2>4 DEF RetentionTypes, PolicyCovers, EventsAreKept
  <2>5. CASE ~UNCHANGED <<retained, lost>>
    <3> DEFINE old == {r \in retained["beacon_events"] : r.site = s /\ r.day < day - BeaconPerSite[s]}
    <3>1. /\ retained' = [retained EXCEPT !["beacon_events"] = @ \ old]
          /\ lost' = [lost EXCEPT !["beacon_events"] = @ \cup old]
          /\ untrimmed' = untrimmed \ {s}
      BY <2>1, <2>5 DEF RowsRemoved
    <3>2. \A r \in old : r \in [site : Sites, day : Nat] /\ r.day < day - BeaconKeeps(r.site)
      BY <2>3 DEF RetentionTypes
    <3> HIDE DEF old
    <3> QED
      BY <2>2, <3>1, <3>2 DEF RetentionTypes, PolicyCovers, EventsAreKept
  <2> QED
    BY <2>4, <2>5
<1>4. CASE RowArrives
  BY <1>4 DEF RowArrives, RetentionTypes, PolicyCovers, EventsAreKept
<1>5. CASE DropChunks
  <2>1. PICK t \in Tables :
          /\ dropAfter[t] > 0
          /\ RowsRemoved(t, {r \in retained[t] : r.day + 1 <= day - dropAfter[t]})
    BY <1>5 DEF DropChunks
  <2> DEFINE old == {r \in retained[t] : r.day + 1 <= day - dropAfter[t]}
  <2>2. /\ UNCHANGED <<day, dropAfter, untrimmed>>
        /\ retained' = [retained EXCEPT ![t] = @ \ old]
        /\ lost' = [lost EXCEPT ![t] = @ \cup old]
    BY <1>5, <2>1 DEF DropChunks, RowsRemoved
  <2>3. t = "beacon_events" =>
          \A r \in old : r \in [site : Sites, day : Nat] /\ r.day < day - BeaconKeeps(r.site)
    <3> SUFFICES ASSUME t = "beacon_events", NEW r \in old
                 PROVE  r \in [site : Sites, day : Nat] /\ r.day < day - BeaconKeeps(r.site)
      OBVIOUS
    <3>1. /\ r \in [site : Sites, day : Nat] /\ r.site \in Sites /\ r.day \in Nat
          /\ r.day + 1 <= day - dropAfter[t]
      BY DEF RetentionTypes
    <3>2. dropAfter[t] = longest(RetentionPolicy)
      BY <2>1 DEF PolicyCovers
    <3>3. BeaconKeeps(r.site) \in Nat /\ BeaconKeeps(r.site) <= dropAfter[t] /\ dropAfter[t] \in Nat
      BY <3>1, <3>2, LongestCovers
    <3> QED
      BY <3>1, <3>3 DEF RetentionTypes
  <2> HIDE DEF old
  <2>4. old \subseteq retained[t]
    BY DEF old
  <2> QED
    BY <2>2, <2>3, <2>4 DEF RetentionTypes, PolicyCovers, EventsAreKept
<1>6. CASE NewDay
  <2>1. \A r \in lost["beacon_events"] : r.day \in Nat /\ BeaconKeeps(r.site) \in Nat
    BY LongestCovers DEF RetentionTypes
  <2> QED
    BY <1>6, <2>1 DEF NewDay, RetentionTypes, PolicyCovers, EventsAreKept
<1>7. CASE UNCHANGED retentionVars
  BY <1>7 DEF retentionVars, RetentionTypes, PolicyCovers, EventsAreKept
<1> QED
  BY <1>1, <1>2, <1>3, <1>4, <1>5, <1>6, <1>7 DEF RetentionNext

\* Manager.Apply: however passes, errors, collectors and the database's own
\* jobs interleave, no event is lost before the days its site asks for.
THEOREM NoEventIsLostEarly == RetentionSpec => []EventsAreKept
<1>1. RetentionInv => EventsAreKept
  BY DEF RetentionInv
<1> QED
  BY <1>1, RetentionStarts, RetentionKeeps, PTL DEF RetentionSpec

-----------------------------------------------------------------------------
(* The file of bot fingerprints.                                           *)

FileFields == {"whole", "synced", "labels", "there"}

\* A run whose file is to be put in place has written it, and one about to do
\* so has it on the disk.
UpdatesOK ==
  /\ DOMAIN update = Updates
  /\ \A u \in Updates :
       /\ DOMAIN update[u] = {"at", "labels", "temp"} /\ DOMAIN update[u].temp = FileFields
       /\ update[u].at \in {"sync", "rename"} => update[u].temp.whole /\ update[u].temp.there
       /\ update[u].at = "rename" => update[u].temp.synced

\* What the path names survives a loss of power.
FileOK ==
  /\ DOMAIN file = FileFields
  /\ file.there => file.whole /\ file.synced

BotInv == UpdatesOK /\ FileOK /\ FileCanBeRead

\* There is no file, or update, at first.
LEMMA BotStarts == BotInit => BotInv
  BY DEF BotInit, BotInv, UpdatesOK, FileOK, FileCanBeRead, NoFile, NoUpdate, FileFields

\* Every step of an update, a loss of power and a load.
LEMMA BotKeeps == BotInv /\ [BotNext]_botVars => BotInv'
<1> SUFFICES ASSUME BotInv, [BotNext]_botVars PROVE BotInv'
  OBVIOUS
<1> USE DEF BotInv, UpdatesOK, FileOK, FileCanBeRead, NoFile, NoUpdate, FileFields
<1>1. ASSUME NEW u \in Updates, Fetch(u) PROVE BotInv'
  BY <1>1 DEF Fetch
<1>2. ASSUME NEW u \in Updates, Write(u) PROVE BotInv'
  BY <1>2 DEF Write
<1>3. ASSUME NEW u \in Updates, Sync(u) PROVE BotInv'
  BY <1>3 DEF Sync
<1>4. ASSUME NEW u \in Updates, Rename(u) PROVE BotInv'
  BY <1>4 DEF Rename
<1>5. ASSUME NEW u \in Updates, Kill(u) PROVE BotInv'
  BY <1>5 DEF Kill
<1>6. CASE PowerCut
  BY <1>6 DEF PowerCut
<1>7. CASE Load
  BY <1>7 DEF Load
<1>8. CASE UNCHANGED botVars
  BY <1>8 DEF botVars
<1> QED
  BY <1>1, <1>2, <1>3, <1>4, <1>5, <1>6, <1>7, <1>8 DEF BotNext

\* Save's order of write, sync and rename: any number of overlapping updates,
\* kills and losses of power leave a file the collector can read, or none.
THEOREM FileIsReadable == BotSpec => []FileCanBeRead
<1>1. BotInv => FileCanBeRead
  BY DEF BotInv
<1> QED
  BY <1>1, BotStarts, BotKeeps, PTL DEF BotSpec

-----------------------------------------------------------------------------
(* The rate store.                                                         *)

\* The clock and the stamps taken from it; a handler waits for the lock for
\* MaxLag at most.
StampsOK ==
  /\ clock \in 0..MaxTime
  /\ phase \in [Requests -> {"idle", "stamped", "recorded"}]
  /\ from \in [Requests -> Addrs] /\ at \in [Requests -> 0..MaxTime]
  /\ \A r \in Requests : at[r] <= clock
  /\ \A r \in Requests : phase[r] = "stamped" => clock - at[r] <= MaxLag

\* The entry of an address was last seen at a stamp, and no recorded request
\* of it is newer by more than a handler can wait.
EntriesOK ==
  /\ \A a \in DOMAIN states : states[a].lastSeen \in 0..MaxTime
  /\ \A r \in Requests :
       phase[r] = "recorded" /\ from[r] \in DOMAIN states =>
         at[r] <= states[from[r]].lastSeen + MaxLag

\* An address without an entry has had no request for the TTL, less what a
\* handler can wait.
ForgottenOK ==
  \A r \in Requests :
    phase[r] = "recorded" /\ from[r] \notin DOMAIN states => clock - at[r] > IdleTTL - MaxLag

StoreInv == StampsOK /\ EntriesOK /\ ForgottenOK

\* An empty store.
LEMMA StoreStarts == StoreInit => StoreInv
  BY StoreAssumption DEF StoreInit, StoreInv, StampsOK, EntriesOK, ForgottenOK

\* Every critical section of the store, and the clock.
LEMMA StoreKeeps == StoreInv /\ [StoreNext]_storeVars => StoreInv'
<1> SUFFICES ASSUME StoreInv, [StoreNext]_storeVars PROVE StoreInv'
  OBVIOUS
<1> USE StoreAssumption DEF StoreInv
<1>1. ASSUME NEW r \in Requests, Stamp(r) PROVE StoreInv'
  <2>1. StampsOK'
    BY <1>1 DEF Stamp, StampsOK
  <2>2. EntriesOK' /\ ForgottenOK'
    BY <1>1 DEF Stamp, StampsOK, EntriesOK, ForgottenOK
  <2> QED
    BY <2>1, <2>2
<1>2. ASSUME NEW r \in Requests, Record(r) PROVE StoreInv'
  <2>1. /\ phase[r] = "stamped" /\ phase' = [phase EXCEPT ![r] = "recorded"]
        /\ UNCHANGED <<clock, from, at>>
    BY <1>2 DEF Record
  <2>2. /\ DOMAIN states' = DOMAIN states \union {from[r]}
        /\ states'[from[r]].lastSeen = at[r]
        /\ \A b \in DOMAIN states : b # from[r] => states'[b] = states[b]
    BY <1>2 DEF Record, RecordRequest
  <2>3. StampsOK'
    BY <2>1 DEF StampsOK
  <2>4. \A q \in Requests : at[q] <= at[r] + MaxLag
    BY <2>1 DEF StampsOK
  <2>5. EntriesOK'
    BY <2>1, <2>2, <2>4 DEF EntriesOK, StampsOK
  <2>6. ForgottenOK'
    BY <2>1, <2>2 DEF ForgottenOK, StampsOK
  <2> QED
    BY <2>3, <2>5, <2>6
<1>3. ASSUME NEW t \in 0..MaxTime, Sweep(t) PROVE StoreInv'
  <2>1. /\ UNCHANGED <<clock, phase, from, at>> /\ t <= clock
        /\ DOMAIN states' = DOMAIN states \ Expired(t)
        /\ \A a \in DOMAIN states' : states'[a] = states[a]
    BY <1>3 DEF Sweep, requestVars, StampsOK
  <2>2. StampsOK' /\ EntriesOK'
    BY <2>1 DEF StampsOK, EntriesOK
  <2>3. ForgottenOK'
    <3> SUFFICES ASSUME NEW r \in Requests, phase[r] = "recorded", from[r] \notin DOMAIN states'
                 PROVE  clock - at[r] > IdleTTL - MaxLag
      BY <2>1 DEF ForgottenOK
    <3>1. CASE from[r] \notin DOMAIN states
      BY <3>1 DEF ForgottenOK
    <3>2. CASE from[r] \in Expired(t)
      <4>1. from[r] \in DOMAIN states /\ states[from[r]].lastSeen < t - IdleTTL
        BY <3>2 DEF Expired
      <4> QED
        BY <2>1, <4>1 DEF EntriesOK, StampsOK
    <3> QED
      BY <2>1, <3>1, <3>2
  <2> QED
    BY <2>2, <2>3
<1>4. CASE Close
  BY <1>4 DEF Close, requestVars, StampsOK, EntriesOK, ForgottenOK
<1>5. CASE Tick
  BY <1>5 DEF Tick, requestVars, StampsOK, EntriesOK, ForgottenOK
<1>6. CASE UNCHANGED storeVars
  BY <1>6 DEF storeVars, requestVars, StampsOK, EntriesOK, ForgottenOK
<1> HIDE DEF StoreInv
<1> QED
  BY <1>1, <1>2, <1>3, <1>4, <1>5, <1>6 DEF StoreNext

\* removeExpired: however late requests are recorded and whatever time the
\* ticker carries, an address is forgotten only when all of its requests are
\* older than the TTL, less what a handler can wait.
THEOREM TheActiveAreKept == StoreSpec => []ActiveIsKept
<1>1. StoreInv => ActiveIsKept
  BY StoreAssumption DEF StoreInv, ForgottenOK, StampsOK, ActiveIsKept
<1> QED
  BY <1>1, StoreStarts, StoreKeeps, PTL DEF StoreSpec

-----------------------------------------------------------------------------
(* The counters of an address.                                             *)

\* Truncate rounds down to a multiple of the window size.
LEMMA Truncation ==
  ASSUME NEW t \in Nat
  PROVE  /\ Truncate(t) \in Nat /\ Truncate(t) <= t /\ t < Truncate(t) + WindowSize
         /\ \E k \in 0..Truncate(t) : Truncate(t) = k * WindowSize
<1> DEFINE k == t \div WindowSize
<1>1. WindowSize \in Nat /\ WindowSize > 0
  BY StoreAssumption
<1>2. k \in Nat /\ k * WindowSize <= t /\ t < k * WindowSize + WindowSize
  BY <1>1
<1>3. k * WindowSize \in Nat /\ k <= k * WindowSize
  BY <1>1, <1>2
<1> QED
  BY <1>2, <1>3 DEF Truncate

\* A time at which a window starts.
IsStart(s) == \E k \in 0..s : s = k * WindowSize

\* A time two windows after a start is in a window that starts that late.
LEMMA StartsApart ==
  ASSUME NEW s \in Nat, IsStart(s), NEW t \in Nat, t >= s + 2 * WindowSize
  PROVE  Truncate(t) >= s + 2 * WindowSize
<1>1. WindowSize \in Nat /\ WindowSize > 0
  BY StoreAssumption
<1>2. PICK k \in 0..s : s = k * WindowSize
  BY DEF IsStart
<1>3. PICK n \in 0..Truncate(t) : Truncate(t) = n * WindowSize
  BY Truncation
<1>4. n >= k + 2
  <2> SUFFICES ASSUME n <= k + 1 PROVE FALSE
    OBVIOUS
  <2>1. n * WindowSize <= (k + 1) * WindowSize
    BY <1>1
  <2>2. (k + 1) * WindowSize = s + WindowSize
    BY <1>1, <1>2
  <2>3. t < n * WindowSize + WindowSize /\ n * WindowSize \in Nat
    BY <1>3, Truncation
  <2> QED
    BY <1>1, <2>1, <2>2, <2>3
<1>5. n * WindowSize >= (k + 2) * WindowSize
  BY <1>1, <1>4
<1>6. (k + 2) * WindowSize = s + 2 * WindowSize
  BY <1>1, <1>2
<1> QED
  BY <1>3, <1>5, <1>6

\* The next window starts where one ends.
LEMMA NextStart ==
  ASSUME NEW s \in Nat, IsStart(s)
  PROVE  IsStart(s + WindowSize)
<1>1. PICK k \in 0..s : s = k * WindowSize
  BY DEF IsStart
<1>2. s + WindowSize = (k + 1) * WindowSize /\ k + 1 \in 0..(s + WindowSize)
  BY <1>1, StoreAssumption
<1> QED
  BY <1>2 DEF IsStart

\* How many recorded requests of a are stamped at t or later.
Counted(a, t) == Cardinality(RecordedSince(a, t))

\* What the entry of an address says of its requests: no request is newer
\* than its window; curr counts those of the window, and none that is older by
\* more than a request can be late; and the two counters those of the window
\* and the one before it, for as long as the window is not over.
EntryCounts(a) ==
  LET e == states[a] s == states[a].windowStart
  IN  /\ e.prev \in Nat /\ e.curr \in Nat /\ s \in Nat /\ IsStart(s) /\ s <= clock
      /\ Counted(a, s + WindowSize) = 0
      /\ Counted(a, s) <= e.curr /\ e.curr <= Counted(a, s - MaxLag)
      /\ clock < s + WindowSize => Counted(a, s - WindowSize) <= e.prev + e.curr
      /\ e.prev + e.curr <= Counted(a, s - WindowSize - MaxLag)

CountersInv == StoreInv /\ \A a \in DOMAIN states : EntryCounts(a)

\* Fewer requests are stamped after a later time.
LEMMA CountedFalls ==
  ASSUME NEW a, NEW t \in Int, NEW u \in Int, t <= u, StampsOK
  PROVE  Counted(a, t) \in Nat /\ Counted(a, u) \in Nat /\ Counted(a, u) <= Counted(a, t)
<1>1. RecordedSince(a, u) \subseteq RecordedSince(a, t)
  BY DEF RecordedSince, StampsOK
<1>2. IsFiniteSet(RecordedSince(a, t))
  BY AddrsAssumption, FS_Subset DEF RecordedSince
<1> QED
  BY <1>1, <1>2, FS_Subset, FS_CardinalityType DEF Counted

\* A record is counted from its stamp back, for its own address.
LEMMA RecordIsCounted ==
  ASSUME StampsOK, NEW r \in Requests, Record(r), NEW a, NEW t \in Int
  PROVE  /\ from[r] = a /\ at[r] >= t => Counted(a, t)' = Counted(a, t) + 1
         /\ ~(from[r] = a /\ at[r] >= t) => Counted(a, t)' = Counted(a, t)
<1>1. /\ phase[r] = "stamped" /\ phase' = [phase EXCEPT ![r] = "recorded"]
      /\ UNCHANGED <<clock, from, at>>
  BY DEF Record
<1>2. IsFiniteSet(RecordedSince(a, t)) /\ r \notin RecordedSince(a, t)
  BY <1>1, AddrsAssumption, FS_Subset DEF RecordedSince
<1>3. CASE from[r] = a /\ at[r] >= t
  <2>1. RecordedSince(a, t)' = RecordedSince(a, t) \union {r}
    BY <1>1, <1>3 DEF RecordedSince, StampsOK
  <2> QED
    BY <1>2, <1>3, <2>1, FS_AddElement DEF Counted
<1>4. CASE ~(from[r] = a /\ at[r] >= t)
  <2>1. RecordedSince(a, t)' = RecordedSince(a, t)
    BY <1>1, <1>4 DEF RecordedSince, StampsOK
  <2> QED
    BY <1>4, <2>1 DEF Counted
<1> QED
  BY <1>3, <1>4

\* Recording a request keeps what the counters say: of an entry that is there,
\* whose window the stamp is in, ends, or leaves far behind.
LEMMA RecordKeepsCounts ==
  ASSUME CountersInv, NEW r \in Requests, Record(r)
  PROVE  \A a \in DOMAIN states' : EntryCounts(a)'
<1>a. PICK a, t, old, new : a = from[r] /\ t = at[r] /\ old = states[a] /\ new = states'[a]
  OBVIOUS
<1>b. PICK s, u, p, c : s = old.windowStart /\ u = new.windowStart /\ p = old.prev /\ c = old.curr
  OBVIOUS
<1> USE StoreAssumption, WindowAssumption
<1>1. /\ phase[r] = "stamped" /\ StampsOK
      /\ UNCHANGED <<clock, from, at>>
  BY DEF Record, CountersInv, StoreInv
<1>2. /\ clock \in Nat /\ t \in Nat /\ t <= clock /\ clock <= t + MaxLag
  BY <1>a, <1>1 DEF StampsOK
<1>3. /\ DOMAIN states' = DOMAIN states \union {a}
      /\ \A b \in DOMAIN states : b # a => states'[b] = states[b]
  BY <1>a DEF Record, RecordRequest
<1>4. ASSUME NEW b \in DOMAIN states, b # a PROVE EntryCounts(b)'
  <2>1. \A x \in Int : Counted(b, x)' = Counted(b, x)
    BY <1>a, <1>1, <1>4, RecordIsCounted
  <2>2. EntryCounts(b) /\ states'[b] = states[b] /\ clock' = clock
    BY <1>1, <1>3, <1>4 DEF CountersInv
  <2>3. /\ states[b].windowStart + WindowSize \in Int
        /\ states[b].windowStart \in Int
        /\ states[b].windowStart - MaxLag \in Int
        /\ states[b].windowStart - WindowSize \in Int
        /\ states[b].windowStart - WindowSize - MaxLag \in Int
    BY <2>2 DEF EntryCounts
  <2> QED
    BY <2>1, <2>2, <2>3 DEF EntryCounts
<1>5. \A x \in Int : /\ t >= x => Counted(a, x)' = Counted(a, x) + 1
                     /\ t < x => Counted(a, x)' = Counted(a, x)
  BY <1>a, <1>1, <1>2, RecordIsCounted
<1>6. \A x, y \in Int : x <= y =>
        Counted(a, x) \in Nat /\ Counted(a, y) \in Nat /\ Counted(a, y) <= Counted(a, x)
  BY <1>1, CountedFalls
<1>7. ASSUME new.prev \in Nat, new.curr \in Nat, u \in Nat, IsStart(u), u <= clock,
             Counted(a, u + WindowSize)' = 0,
             Counted(a, u)' <= new.curr, new.curr <= Counted(a, u - MaxLag)',
             clock < u + WindowSize => Counted(a, u - WindowSize)' <= new.prev + new.curr,
             new.prev + new.curr <= Counted(a, u - WindowSize - MaxLag)'
      PROVE  \A b \in DOMAIN states' : EntryCounts(b)'
  <2>1. EntryCounts(a)'
    <3>1. u = states'[a].windowStart /\ new = states'[a] /\ clock' = clock
      BY <1>a, <1>b, <1>1
    <3> QED
      BY <1>7, <3>1 DEF EntryCounts
  <2> QED
    BY <1>3, <1>4, <2>1
<1>8. CASE a \notin DOMAIN states
  <2>1. /\ u = Truncate(t) /\ new.prev = 0 /\ new.curr = 1
    <3>1. t - Truncate(t) < WindowSize /\ Truncate(t) \in Nat
      BY <1>2, Truncation
    <3> QED
      BY <1>a, <1>b, <1>2, <1>8, <3>1 DEF Record, RecordRequest, CountsAt, RotatedCounts, FirstWindow
  <2>2. u \in Nat /\ IsStart(u) /\ u <= t /\ t < u + WindowSize
    BY <1>2, <2>1, Truncation DEF IsStart
  <2>3. \A x \in Int : x >= clock - 2 * WindowSize => Counted(a, x) = 0
    <3> SUFFICES ASSUME NEW x \in Int, x >= clock - 2 * WindowSize PROVE RecordedSince(a, x) = {}
      BY FS_EmptySet DEF Counted
    <3> QED
      BY <1>1, <1>2, <1>8 DEF RecordedSince, CountersInv, StoreInv, ForgottenOK, StampsOK
  <2>4. Counted(a, u) = 0 /\ Counted(a, u + WindowSize) = 0
    BY <1>2, <2>2, <2>3
  <2>5. clock < u + WindowSize => Counted(a, u - WindowSize) = 0
    BY <1>2, <2>2, <2>3
  <2>6. /\ Counted(a, u)' = 1 /\ Counted(a, u + WindowSize)' = 0
        /\ Counted(a, u - MaxLag)' >= 1 /\ Counted(a, u - WindowSize - MaxLag)' >= 1
        /\ clock < u + WindowSize => Counted(a, u - WindowSize)' = 1
    BY <1>2, <1>5, <1>6, <2>2, <2>4, <2>5
  <2> QED
    BY <1>2, <1>7, <2>1, <2>2, <2>6
<1>9. CASE a \in DOMAIN states
  <2>1. EntryCounts(a)
    BY <1>9 DEF CountersInv
  <2>2. /\ p \in Nat /\ c \in Nat /\ s \in Nat /\ IsStart(s) /\ s <= clock
        /\ Counted(a, s + WindowSize) = 0
        /\ Counted(a, s) <= c /\ c <= Counted(a, s - MaxLag)
        /\ clock < s + WindowSize => Counted(a, s - WindowSize) <= p + c
        /\ p + c <= Counted(a, s - WindowSize - MaxLag)
    BY <1>a, <1>b, <2>1 DEF EntryCounts
  <2>3. \A x \in Int : x >= s + WindowSize => Counted(a, x) = 0
    BY <1>6, <2>2
  <2>4. LET w == RotatedCounts(p, c, s, t)
        IN  new.prev = w.prev /\ new.curr = w.curr + 1 /\ u = w.windowStart
    BY <1>a, <1>b, <1>9 DEF Record, RecordRequest, CountsAt
  <2>5. /\ Counted(a, s) \in Nat /\ Counted(a, s - WindowSize) \in Nat
        /\ Counted(a, s - MaxLag) \in Nat /\ Counted(a, s - WindowSize - MaxLag) \in Nat
    BY <1>6, <2>2
  <2>6. CASE t - s < WindowSize
    <3>1. new.prev = p /\ new.curr = c + 1 /\ u = s
      BY <1>2, <2>2, <2>4, <2>6 DEF RotatedCounts
    <3>2. Counted(a, s + WindowSize)' = 0
      BY <1>2, <1>5, <2>2, <2>6
    <3>3. Counted(a, s)' <= Counted(a, s) + 1 /\ Counted(a, s)' \in Nat
      BY <1>2, <1>5, <2>2, <2>5
    <3>4. /\ Counted(a, s - WindowSize)' <= Counted(a, s - WindowSize) + 1
          /\ Counted(a, s - WindowSize)' \in Nat
      <4>1. s - WindowSize \in Int
        BY <2>2
      <4> QED
        BY <1>2, <1>5, <2>5, <4>1
    <3>5. Counted(a, s - MaxLag)' = Counted(a, s - MaxLag) + 1
      BY <1>2, <1>5, <2>2
    <3>6. Counted(a, s - WindowSize - MaxLag)' = Counted(a, s - WindowSize - MaxLag) + 1
      BY <1>2, <1>5, <2>2
    <3>7. u <= clock /\ new.prev \in Nat /\ new.curr \in Nat /\ u \in Nat /\ IsStart(u)
      BY <2>2, <3>1
    <3>8. Counted(a, u)' <= new.curr /\ new.curr <= Counted(a, u - MaxLag)'
      BY <2>2, <2>5, <3>1, <3>3, <3>5
    <3>9. /\ clock < u + WindowSize => Counted(a, u - WindowSize)' <= new.prev + new.curr
          /\ new.prev + new.curr <= Counted(a, u - WindowSize - MaxLag)'
      BY <2>2, <2>5, <3>1, <3>4, <3>6
    <3> QED
      BY <1>7, <3>1, <3>2, <3>7, <3>8, <3>9
  <2>7. CASE t - s >= WindowSize /\ t - s < 2 * WindowSize
    <3>1. new.prev = c /\ new.curr = 1 /\ u = s + WindowSize
      BY <1>2, <2>2, <2>4, <2>7 DEF RotatedCounts
    <3>2. u \in Nat /\ IsStart(u) /\ u <= t /\ t < u + WindowSize
      BY <1>2, <2>2, <2>7, <3>1, NextStart
    <3>3. Counted(a, u + WindowSize)' = 0 /\ Counted(a, u)' = 1
      BY <1>2, <1>5, <2>2, <2>3, <3>1, <3>2
    <3>4. Counted(a, u - MaxLag)' >= 1
      BY <1>2, <1>5, <1>6, <3>2
    <3>5. /\ Counted(a, u - WindowSize)' = Counted(a, s) + 1
          /\ Counted(a, u - WindowSize - MaxLag)' = Counted(a, s - MaxLag) + 1
      <4>1. u - WindowSize = s /\ u - WindowSize - MaxLag = s - MaxLag
        BY <2>2, <3>1
      <4> QED
        BY <1>2, <1>5, <2>2, <2>7, <4>1
    <3> QED
      BY <1>2, <1>7, <2>2, <2>5, <3>1, <3>2, <3>3, <3>4, <3>5
  <2>8. CASE t - s >= 2 * WindowSize
    <3>1. new.prev = 0 /\ new.curr = 1 /\ u = Truncate(t)
      BY <1>2, <2>2, <2>4, <2>8 DEF RotatedCounts
    <3>2. u \in Nat /\ IsStart(u) /\ u <= t /\ t < u + WindowSize
      BY <1>2, <3>1, Truncation DEF IsStart
    <3>3. u >= s + 2 * WindowSize
      BY <1>2, <2>2, <2>8, <3>1, StartsApart
    <3>4. Counted(a, u + WindowSize)' = 0 /\ Counted(a, u)' = 1
      BY <1>2, <1>5, <2>2, <2>3, <3>2, <3>3
    <3>5. Counted(a, u - WindowSize)' = 1
      BY <1>2, <1>5, <2>2, <2>3, <3>2, <3>3
    <3>6. Counted(a, u - MaxLag)' >= 1 /\ Counted(a, u - WindowSize - MaxLag)' >= 1
      BY <1>2, <1>5, <1>6, <3>2
    <3> QED
      BY <1>2, <1>7, <3>1, <3>2, <3>4, <3>5, <3>6
  <2> QED
    BY <1>2, <2>2, <2>6, <2>7, <2>8
<1> QED
  BY <1>8, <1>9

\* Every other critical section, and the clock.
LEMMA CountersKeep == CountersInv /\ [StoreNext]_storeVars => CountersInv'
<1> SUFFICES ASSUME CountersInv, [StoreNext]_storeVars PROVE \A a \in DOMAIN states' : EntryCounts(a)'
  BY StoreKeeps DEF CountersInv
<1>1. StampsOK
  BY DEF CountersInv, StoreInv
<1>2. ASSUME \A a, x : RecordedSince(a, x)' = RecordedSince(a, x),
             clock' \in Nat, clock <= clock', DOMAIN states' \subseteq DOMAIN states,
             \A a \in DOMAIN states' : states'[a] = states[a]
      PROVE  \A a \in DOMAIN states' : EntryCounts(a)'
  <2> SUFFICES ASSUME NEW a \in DOMAIN states' PROVE EntryCounts(a)'
    OBVIOUS
  <2>1. EntryCounts(a) /\ states'[a] = states[a] /\ clock \in Nat
    BY <1>1, <1>2 DEF CountersInv, StampsOK
  <2>2. \A x : Counted(a, x)' = Counted(a, x)
    BY <1>2 DEF Counted
  <2> QED
    BY <1>2, <2>1, <2>2, StoreAssumption DEF EntryCounts
<1>3. ASSUME NEW r \in Requests, Stamp(r) PROVE \A a \in DOMAIN states' : EntryCounts(a)'
  BY <1>1, <1>2, <1>3 DEF Stamp, RecordedSince, StampsOK
<1>4. ASSUME NEW r \in Requests, Record(r) PROVE \A a \in DOMAIN states' : EntryCounts(a)'
  BY <1>4, RecordKeepsCounts
<1>5. ASSUME NEW t \in 0..MaxTime, Sweep(t) PROVE \A a \in DOMAIN states' : EntryCounts(a)'
  BY <1>1, <1>2, <1>5 DEF Sweep, requestVars, RecordedSince, StampsOK
<1>6. CASE Close \/ Tick \/ UNCHANGED storeVars
  BY <1>1, <1>2, <1>6, StoreAssumption
     DEF Close, Tick, storeVars, requestVars, RecordedSince, StampsOK
<1> QED
  BY <1>3, <1>4, <1>5, <1>6 DEF StoreNext

\* RecordRequest and rotatedCounts: however late requests are recorded and
\* whenever an address is swept, the two counters a flush reports now hold
\* every request of the last two windows, and none that is older than those by
\* more than a request can be late.
THEOREM CountersBracket == StoreSpec => []WindowBrackets
<1>1. StoreInit => CountersInv
  BY StoreStarts DEF StoreInit, CountersInv
<1>2. CountersInv => WindowBrackets
  <2> SUFFICES ASSUME CountersInv, NEW a \in DOMAIN states
               PROVE  LET w == CountsAt(states[a], clock)
                          oldest == w.windowStart - WindowSize
                      IN  /\ Cardinality(RecordedSince(a, oldest)) <= w.prev + w.curr
                          /\ w.prev + w.curr <= Cardinality(RecordedSince(a, oldest - MaxLag))
    BY DEF WindowBrackets
  <2> DEFINE e == states[a]
             s == e.windowStart
             w == CountsAt(e, clock)
  <2> USE StoreAssumption
  <2>1. EntryCounts(a) /\ StampsOK /\ clock \in Nat
    BY DEF CountersInv, StoreInv, StampsOK
  <2>2. /\ e.prev \in Nat /\ e.curr \in Nat /\ s \in Nat /\ IsStart(s) /\ s <= clock
        /\ Counted(a, s + WindowSize) = 0
        /\ Counted(a, s) <= e.curr /\ e.curr <= Counted(a, s - MaxLag)
        /\ clock < s + WindowSize => Counted(a, s - WindowSize) <= e.prev + e.curr
        /\ e.prev + e.curr <= Counted(a, s - WindowSize - MaxLag)
    BY <2>1 DEF EntryCounts
  <2>3. CASE clock - s < WindowSize
    <3>1. w = [prev |-> e.prev, curr |-> e.curr, windowStart |-> s]
      BY <2>1, <2>2, <2>3 DEF CountsAt, RotatedCounts
    <3> QED
      BY <2>1, <2>2, <2>3, <3>1 DEF Counted
  <2>4. CASE clock - s >= WindowSize /\ clock - s < 2 * WindowSize
    <3>1. w = [prev |-> e.curr, curr |-> 0, windowStart |-> s + WindowSize]
      BY <2>1, <2>2, <2>4 DEF CountsAt, RotatedCounts
    <3>2. w.windowStart - WindowSize = s /\ w.prev + w.curr = e.curr
      BY <2>2, <3>1
    <3> QED
      BY <2>2, <3>2 DEF Counted
  <2>5. CASE clock - s >= 2 * WindowSize
    <3>1. w = [prev |-> 0, curr |-> 0, windowStart |-> Truncate(clock)]
      BY <2>1, <2>2, <2>5 DEF CountsAt, RotatedCounts
    <3>2. Truncate(clock) \in Nat
      BY <2>1, Truncation
    <3>3. Truncate(clock) >= s + 2 * WindowSize
      BY <2>1, <2>2, <2>5, StartsApart
    <3>4. /\ Counted(a, Truncate(clock) - WindowSize) = 0
          /\ Counted(a, Truncate(clock) - WindowSize - MaxLag) \in Nat
      BY <2>1, <2>2, <3>2, <3>3, CountedFalls
    <3> QED
      BY <3>1, <3>4 DEF Counted
  <2>6. clock - s \in Int
    BY <2>1, <2>2
  <2> QED
    BY <2>3, <2>4, <2>5, <2>6
<1> QED
  BY <1>1, <1>2, CountersKeep, PTL DEF StoreSpec

-----------------------------------------------------------------------------
(* Looking an address up.                                                  *)

\* What a lookup may answer.
Values ==
  {NotFound} \union
  UNION {{Readable(issue)[i].value : i \in DOMAIN Readable(issue)} : issue \in Files}
Answers == [Datasets -> Values]
CacheEntries == [key : Addresses, answer : Answers, expires : Nat]
Pending == [at : {"idle", "country", "asn", "set"}, ip : Addresses \union {0}, answer : Answers]

\* What a dataset said of an address in a tick: every file it was then.
Said(d, t, ip) == UNION {Lookup(Parse(issue), ip) : issue \in inForce[d][t]}

\* A table is that of a file which is in force now, and until there is another.
TablesOK ==
  /\ tableTime \in 0..LastTick
  /\ inForce \in [Datasets -> [0..LastTick -> SUBSET (Files \union {<<>>})]]
  /\ DOMAIN tables = Datasets
  /\ \A d \in Datasets, t \in tableTime..LastTick :
       \E issue \in inForce[d][t] : tables[d] = Parse(issue)

\* What a lookup has found so far was said in this tick.
UnderOK ==
  /\ under \in [Lookups -> Pending]
  /\ \A l \in Lookups :
       LET found == under[l]
       IN  /\ found.at = "idle" => found = NoLookup
           /\ found.at # "idle" => found.ip \in Addresses
           /\ found.at \in {"asn", "set"} =>
                found.answer["country"] \in Said("country", tableTime, found.ip)
           /\ found.at = "set" => found.answer["asn"] \in Said("asn", tableTime, found.ip)

\* An entry was set one TTL before it expires, and says what was said then.
EntryOK(e) ==
  /\ e.expires - TTL \in 0..tableTime
  /\ \A d \in Datasets : e.answer[d] \in Said(d, e.expires - TTL, e.key)

OncePerKey(s) == \A i, j \in 1..Len(s) : s[i].key = s[j].key => i = j

CacheOK ==
  /\ cache \in Seq(CacheEntries) /\ OncePerKey(cache)
  /\ \A i \in 1..Len(cache) : EntryOK(cache[i])

TableInv == TablesOK /\ UnderOK /\ CacheOK

\* The answer of a table is one of the values there are.
LEMMA LookupAnswers ==
  ASSUME NEW issue \in Files \union {<<>>}, NEW ip
  PROVE  Lookup(Parse(issue), ip) \subseteq Values
<1>1. \A e \in Parse(issue) : e.value \in Values
  <2>1. CASE issue = <<>>
    BY <2>1 DEF Parse, Readable, ToSet
  <2>2. CASE issue \in Files
    BY <2>2 DEF Parse, ToSet, Values
  <2> QED
    BY <2>1, <2>2
<1>2. Nearest(Parse(issue), ip) \subseteq Parse(issue)
  BY DEF Nearest
<1> QED
  BY <1>1, <1>2 DEF Lookup, Values

\* In a file without overlaps the search finds what the file says of an
\* address: no range starts between the address and the start of its own.
LEMMA SearchFinds ==
  ASSUME NEW issue \in Files \union {<<>>}, NEW ip \in Nat
  PROVE  \A v \in Lookup(Parse(issue), ip) : v = Says(issue, ip)
<1> DEFINE lines == Readable(issue)
           entry(i) == [start |-> lines[i].start, end |-> lines[i].end, value |-> lines[i].value]
<1>1. Parse(issue) = {entry(i) : i \in RangeRows(issue)}
  BY DEF Parse, RangeRows, ToSet
<1>2. Covering(issue, ip) = {i \in RangeRows(issue) : lines[i].start <= ip /\ ip <= lines[i].end}
  BY DEF Covering, RangeRows, TableUsable
<1>3. issue = <<>> => RangeRows(issue) = {}
  BY DEF RangeRows, Readable
<1>4. /\ \A i \in RangeRows(issue) :
           lines[i].start \in Nat /\ lines[i].end \in Nat /\ lines[i].start <= lines[i].end
      /\ \A i, j \in RangeRows(issue) :
           i # j => lines[i].end < lines[j].start \/ lines[j].end < lines[i].start
  BY <1>3, DisjointAssumption
<1>5. \A e \in Nearest(Parse(issue), ip) :
        \E j \in RangeRows(issue) :
          /\ e = entry(j) /\ lines[j].start <= ip
          /\ \A i \in RangeRows(issue) : lines[i].start <= ip => lines[i].start <= lines[j].start
  <2> SUFFICES ASSUME NEW e \in Nearest(Parse(issue), ip)
               PROVE  \E j \in RangeRows(issue) :
                        /\ e = entry(j) /\ lines[j].start <= ip
                        /\ \A i \in RangeRows(issue) :
                             lines[i].start <= ip => lines[i].start <= lines[j].start
    OBVIOUS
  <2> HIDE DEF lines
  <2>1. e \in Parse(issue) /\ e.start <= ip /\ \A f \in Parse(issue) : f.start <= ip => f.start <= e.start
    BY DEF Nearest
  <2>2. PICK j \in RangeRows(issue) : e = entry(j)
    BY <1>1, <2>1
  <2>3. ASSUME NEW i \in RangeRows(issue), lines[i].start <= ip PROVE lines[i].start <= e.start
    <3>1. entry(i) \in Parse(issue) /\ entry(i).start = lines[i].start
      BY <1>1
    <3> QED
      BY <2>1, <2>3, <3>1
  <2>4. e.start = lines[j].start
    BY <2>2
  <2> QED
    BY <2>1, <2>2, <2>3, <2>4
<1> HIDE DEF lines
<1>6. CASE Covering(issue, ip) = {}
  <2>1. \A e \in Nearest(Parse(issue), ip) : ~(ip <= e.end)
    BY <1>2, <1>5, <1>6
  <2> QED
    BY <1>6, <2>1 DEF Lookup, Says
<1>7. CASE Covering(issue, ip) # {}
  <2>1. PICK i : i = CHOOSE k \in Covering(issue, ip) : TRUE
    OBVIOUS
  <2>2. i \in RangeRows(issue) /\ lines[i].start <= ip /\ ip <= lines[i].end
    BY <1>2, <1>7, <2>1
  <2>3. Says(issue, ip) = lines[i].value
    BY <1>7, <2>1 DEF Says, lines
  <2>4. \A e \in Nearest(Parse(issue), ip) : e = entry(i)
    BY <1>4, <1>5, <2>2
  <2>5. entry(i) \in Nearest(Parse(issue), ip)
    <3>1. entry(i) \in Parse(issue) /\ entry(i).start <= ip
      BY <1>1, <2>2
    <3>2. \A j \in RangeRows(issue) : lines[j].start <= ip => lines[j].start <= lines[i].start
      BY <1>4, <2>2
    <3> QED
      BY <1>1, <3>1, <3>2 DEF Nearest
  <2>6. \A v \in Lookup(Parse(issue), ip) : v = lines[i].value
    BY <2>2, <2>4, <2>5 DEF Lookup
  <2> QED
    BY <2>3, <2>6
<1> QED
  BY <1>6, <1>7

\* Where an element is when another has been removed.
LEMMA RemovalShifts ==
  ASSUME NEW S, NEW s \in Seq(S), NEW p \in 1..Len(s)
  PROVE  /\ RemoveAt(s, p) \in Seq(S) /\ Len(RemoveAt(s, p)) = Len(s) - 1
         /\ \A j \in 1..(Len(s) - 1) : RemoveAt(s, p)[j] = s[IF j < p THEN j ELSE j + 1]
<1> DEFINE a == SubSeq(s, 1, p - 1)
           b == SubSeq(s, p + 1, Len(s))
<1>1. a \in Seq(S) /\ Len(a) = p - 1 /\ \A j \in 1..(p - 1) : a[j] = s[j]
  OBVIOUS
<1>2. b \in Seq(S) /\ Len(b) = Len(s) - p /\ \A j \in 1..(Len(s) - p) : b[j] = s[p + j]
  OBVIOUS
<1>3. RemoveAt(s, p) = a \o b
  BY DEF RemoveAt
<1> HIDE DEF a, b
<1>4. /\ a \o b \in Seq(S) /\ Len(a \o b) = Len(a) + Len(b)
      /\ \A j \in 1..(Len(a) + Len(b)) :
           (a \o b)[j] = IF j <= Len(a) THEN a[j] ELSE b[j - Len(a)]
  <2>1. a \in Seq(S) /\ b \in Seq(S)
    BY <1>1, <1>2
  <2> QED
    BY <2>1
<1>5. Len(a \o b) = Len(s) - 1
  BY <1>1, <1>2, <1>4
<1>6. ASSUME NEW j \in 1..(Len(s) - 1), j < p PROVE (a \o b)[j] = s[j]
  BY <1>1, <1>2, <1>4, <1>6
<1>7. ASSUME NEW j \in 1..(Len(s) - 1), ~(j < p) PROVE (a \o b)[j] = s[j + 1]
  <2>1. (a \o b)[j] = b[j - (p - 1)]
    BY <1>1, <1>2, <1>4, <1>7
  <2>2. j - (p - 1) \in 1..(Len(s) - p) /\ p + (j - (p - 1)) = j + 1
    BY <1>7
  <2> QED
    BY <1>2, <2>1, <2>2
<1> QED
  BY <1>3, <1>4, <1>5, <1>6, <1>7

\* An element in front of the others.
LEMMA PushInFront ==
  ASSUME NEW S, NEW s \in Seq(S), NEW e \in S
  PROVE  /\ <<e>> \o s \in Seq(S) /\ Len(<<e>> \o s) = Len(s) + 1
         /\ (<<e>> \o s)[1] = e /\ \A j \in 2..(Len(s) + 1) : (<<e>> \o s)[j] = s[j - 1]
OBVIOUS

\* A list of entries of the cache, none of which has the key.
Rest(s, key) ==
  /\ s \in Seq(CacheEntries) /\ OncePerKey(s)
  /\ \A i \in 1..Len(s) : s[i].key # key /\ EntryOK(s[i])

\* An entry in front of a list that lacks its key makes a cache.
LEMMA FrontKeeps ==
  ASSUME NEW s, NEW e \in CacheEntries, Rest(s, e.key), EntryOK(e)
  PROVE  LET q == <<e>> \o s
         IN  /\ q \in Seq(CacheEntries) /\ OncePerKey(q)
             /\ \A i \in 1..Len(q) : EntryOK(q[i])
<1> DEFINE q == <<e>> \o s
<1>1. s \in Seq(CacheEntries) /\ OncePerKey(s) /\ Len(s) \in Nat
  BY DEF Rest
<1>2. /\ q \in Seq(CacheEntries) /\ Len(q) = Len(s) + 1 /\ q[1] = e
      /\ \A j \in 2..(Len(s) + 1) : q[j] = s[j - 1]
  BY <1>1, PushInFront
<1> HIDE DEF q
<1>3. \A j \in 2..(Len(s) + 1) : j - 1 \in 1..Len(s)
  BY <1>1
<1>4. OncePerKey(q)
  <2> SUFFICES ASSUME NEW i \in 1..Len(q), NEW j \in 1..Len(q), q[i].key = q[j].key PROVE i = j
    BY DEF OncePerKey
  <2>1. CASE i = 1 /\ j # 1
    BY <1>1, <1>2, <1>3, <2>1 DEF Rest
  <2>2. CASE j = 1 /\ i # 1
    BY <1>1, <1>2, <1>3, <2>2 DEF Rest
  <2>3. CASE i # 1 /\ j # 1
    <3>1. i - 1 \in 1..Len(s) /\ j - 1 \in 1..Len(s) /\ s[i - 1].key = s[j - 1].key
      BY <1>1, <1>2, <2>3
    <3> QED
      BY <1>1, <3>1 DEF OncePerKey
  <2> QED
    BY <2>1, <2>2, <2>3
<1>5. \A i \in 1..Len(q) : EntryOK(q[i])
  <2> SUFFICES ASSUME NEW i \in 1..Len(q), i # 1 PROVE EntryOK(q[i])
    BY <1>2
  <2>1. i - 1 \in 1..Len(s) /\ q[i] = s[i - 1]
    BY <1>1, <1>2
  <2> QED
    BY <2>1 DEF Rest
<1> QED
  BY <1>2, <1>4, <1>5 DEF q

\* A key that is cached is in one place, and removing it leaves the others.
LEMMA RemovalLeaves ==
  ASSUME CacheOK, NEW key \in CachedKeys
  PROVE  /\ PlaceOf(key) \in 1..Len(cache) /\ CacheEntry(key).key = key
         /\ Rest(Without(key), key)
<1> DEFINE p == PlaceOf(key)
           s == Without(key)
<1>1. cache \in Seq(CacheEntries) /\ DOMAIN cache = 1..Len(cache) /\ Len(cache) \in Nat
  BY DEF CacheOK
<1>2. p \in 1..Len(cache) /\ cache[p].key = key
  <2>1. \E i \in DOMAIN cache : cache[i].key = key
    BY DEF CachedKeys
  <2> QED
    BY <1>1, <2>1 DEF PlaceOf
<1> HIDE DEF p
<1>3. /\ s \in Seq(CacheEntries) /\ Len(s) = Len(cache) - 1
      /\ \A j \in 1..Len(s) : s[j] = cache[IF j < p THEN j ELSE j + 1]
  BY <1>1, <1>2, RemovalShifts DEF Without, p
<1> HIDE DEF s
<1>4. \A j \in 1..Len(s) : LET k == IF j < p THEN j ELSE j + 1
                           IN  k \in 1..Len(cache) /\ k # p /\ s[j] = cache[k]
  BY <1>1, <1>2, <1>3
<1>5. OncePerKey(s)
  <2> SUFFICES ASSUME NEW i \in 1..Len(s), NEW j \in 1..Len(s), s[i].key = s[j].key PROVE i = j
    BY DEF OncePerKey
  <2>1. (IF i < p THEN i ELSE i + 1) = (IF j < p THEN j ELSE j + 1)
    BY <1>4 DEF CacheOK, OncePerKey
  <2> QED
    BY <1>1, <1>2, <1>3, <2>1
<1>6. \A j \in 1..Len(s) : s[j].key # key /\ EntryOK(s[j])
  BY <1>2, <1>4 DEF CacheOK, OncePerKey
<1> QED
  BY <1>2, <1>3, <1>5, <1>6 DEF Rest, CacheEntry, p, s

\* get.
LEMMA GotKeeps ==
  ASSUME CacheOK, NEW key \in CachedKeys
  PROVE  /\ Got(key) \in Seq(CacheEntries) /\ OncePerKey(Got(key))
         /\ \A i \in 1..Len(Got(key)) : EntryOK(Got(key)[i])
<1>1. Rest(Without(key), key)
  BY RemovalLeaves
<1>2. CASE CacheExpired(CacheEntry(key))
  BY <1>1, <1>2 DEF Got, Rest
<1>3. CASE ~CacheExpired(CacheEntry(key))
  <2>1. CacheEntry(key) \in CacheEntries /\ EntryOK(CacheEntry(key)) /\ CacheEntry(key).key = key
    BY RemovalLeaves DEF CacheOK, CacheEntry
  <2> QED
    BY <1>1, <1>3, <2>1, FrontKeeps DEF Got
<1> QED
  BY <1>2, <1>3

\* set.
LEMMA PutKeeps ==
  ASSUME CacheOK, TablesOK, NEW key \in Addresses, NEW answer \in Answers,
         \A d \in Datasets : answer[d] \in Said(d, tableTime, key)
  PROVE  /\ Put(key, answer) \in Seq(CacheEntries) /\ OncePerKey(Put(key, answer))
         /\ \A i \in 1..Len(Put(key, answer)) : EntryOK(Put(key, answer)[i])
<1> DEFINE e == [key |-> key, answer |-> answer, expires |-> tableTime + TTL]
           room == IF Len(cache) >= MaxEntries /\ cache # <<>> THEN Front(cache) ELSE cache
<1>1. e \in CacheEntries /\ EntryOK(e) /\ e.key = key
  BY TableAssumption DEF CacheEntries, EntryOK, TablesOK
<1>2. CASE key \in CachedKeys
  <2>1. Rest(Without(key), key)
    BY <1>2, RemovalLeaves
  <2> HIDE DEF e
  <2>2. Put(key, answer) = <<e>> \o Without(key)
    BY <1>2 DEF Put, e
  <2> QED
    BY <1>1, <2>1, <2>2, FrontKeeps
<1>3. CASE key \notin CachedKeys
  <2>1. cache \in Seq(CacheEntries) /\ DOMAIN cache = 1..Len(cache) /\ Len(cache) \in Nat
    BY DEF CacheOK
  <2>2. /\ room \in Seq(CacheEntries) /\ Len(room) \in Nat /\ Len(room) <= Len(cache)
        /\ \A i \in 1..Len(room) : room[i] = cache[i]
    <3>1. CASE room = cache
      BY <2>1, <3>1
    <3>2. CASE cache # <<>> /\ room = Front(cache)
      BY <2>1, <3>2 DEF Front
    <3> QED
      BY <3>1, <3>2
  <2> HIDE DEF room
  <2>3. \A i \in 1..Len(room) : i \in 1..Len(cache)
    BY <2>1, <2>2
  <2>4. Rest(room, key)
    BY <1>3, <2>1, <2>2, <2>3 DEF Rest, CacheOK, OncePerKey, CachedKeys
  <2> HIDE DEF e
  <2>5. Put(key, answer) = <<e>> \o room
    BY <1>3 DEF Put, e, room
  <2> QED
    BY <1>1, <2>4, <2>5, FrontKeeps
<1> QED
  BY <1>2, <1>3

\* Empty tables, an empty cache and no lookups.
LEMMA TableStarts == TableInit => TableInv
<1> SUFFICES ASSUME TableInit PROVE TableInv
  OBVIOUS
<1> USE TableAssumption DEF TableInit
<1>1. TablesOK
  <2>1. Parse(<<>>) = {}
    BY DEF Parse, Readable, ToSet
  <2> QED
    BY <2>1 DEF TablesOK
<1>2. NoLookup \in Pending /\ NoLookup.at = "idle"
  BY DEF NoLookup, Pending, Answers, Values
<1>3. UnderOK
  BY <1>2 DEF UnderOK
<1>4. CacheOK
  BY DEF CacheOK, OncePerKey
<1> QED
  BY <1>1, <1>3, <1>4 DEF TableInv

\* A lookup that finds, searches or keeps an answer.
LEMMA LookupsKeep ==
  ASSUME TableInv, NEW l \in Lookups, Resolve(l) \/ Search(l) \/ KeepAnswer(l)
  PROVE  TableInv'
<1>1. TablesOK /\ UnderOK /\ CacheOK
  BY DEF TableInv
<1>2. UNCHANGED <<tables, tableTime, inForce>>
  BY DEF Resolve, Search, KeepAnswer
<1>3. TablesOK'
  BY <1>1, <1>2 DEF TablesOK
<1>4. /\ \A d, t, ip : Said(d, t, ip)' = Said(d, t, ip)
      /\ \A e : EntryOK(e)' = EntryOK(e)
  BY <1>2 DEF Said, EntryOK
<1>5. NoLookup \in Pending /\ NoLookup.at = "idle"
  BY DEF NoLookup, Pending, Answers, Values
<1>6. ASSUME NEW found \in Pending, under' = [under EXCEPT ![l] = found],
             found.at = "idle" => found = NoLookup,
             found.at # "idle" => found.ip \in Addresses,
             found.at \in {"asn", "set"} =>
               found.answer["country"] \in Said("country", tableTime, found.ip),
             found.at = "set" => found.answer["asn"] \in Said("asn", tableTime, found.ip)
      PROVE  UnderOK'
  <2>1. under' \in [Lookups -> Pending]
    BY <1>1, <1>6 DEF UnderOK
  <2>2. \A m \in Lookups : under'[m] = IF m = l THEN found ELSE under[m]
    BY <1>1, <1>6 DEF UnderOK
  <2> QED
    BY <1>1, <1>2, <1>4, <1>6, <2>1, <2>2 DEF UnderOK
<1>7. ASSUME cache' \in Seq(CacheEntries), OncePerKey(cache'),
             \A i \in 1..Len(cache') : EntryOK(cache'[i])
      PROVE  CacheOK'
  BY <1>4, <1>7 DEF CacheOK, OncePerKey
<1>8. ASSUME UNCHANGED cache PROVE CacheOK'
  BY <1>1, <1>7, <1>8 DEF CacheOK
<1>9. CASE Resolve(l)
  <2>1. PICK ip \in Addresses :
          /\ cache' = IF ip \in CachedKeys THEN Got(ip) ELSE cache
          /\ under' = IF Hit(ip) THEN under
                      ELSE [under EXCEPT ![l] = [NoLookup EXCEPT !.at = "country", !.ip = ip]]
    BY <1>9 DEF Resolve
  <2>2. CacheOK'
    BY <1>1, <1>7, <1>8, <2>1, GotKeeps
  <2>3. CASE Hit(ip)
    <3>1. UnderOK'
      BY <1>1, <1>2, <1>4, <2>1, <2>3 DEF UnderOK
    <3> QED
      BY <1>3, <2>2, <3>1 DEF TableInv
  <2>4. CASE ~Hit(ip)
    <3>1. PICK found : found = [NoLookup EXCEPT !.at = "country", !.ip = ip]
      OBVIOUS
    <3>2. found \in Pending /\ found.at = "country" /\ found.ip = ip
      BY <3>1 DEF NoLookup, Pending, Answers, Values
    <3>3. UnderOK'
      BY <1>6, <2>1, <2>4, <3>1, <3>2
    <3> QED
      BY <1>3, <2>2, <3>3 DEF TableInv
  <2> QED
    BY <2>3, <2>4
<1>10. CASE Search(l)
  <2>1. PICK d \in Datasets, ip \in Addresses, answer \in Answers :
          d = under[l].at /\ ip = under[l].ip /\ answer = under[l].answer
    BY <1>1, <1>10 DEF Search, UnderOK, Pending, Datasets
  <2>2. PICK v \in Lookup(tables[d], ip) :
          under' = [under EXCEPT ![l] =
            [at |-> IF d = "country" THEN "asn" ELSE "set", ip |-> ip,
             answer |-> [answer EXCEPT ![d] = v]]]
    BY <1>10, <2>1 DEF Search
  <2>3. PICK found : found = [at |-> IF d = "country" THEN "asn" ELSE "set", ip |-> ip,
                              answer |-> [answer EXCEPT ![d] = v]]
    OBVIOUS
  <2>4. under' = [under EXCEPT ![l] = found]
    BY <2>2, <2>3
  <2>5. v \in Said(d, tableTime, ip) /\ v \in Values
    <3>1. PICK issue \in inForce[d][tableTime] : tables[d] = Parse(issue)
      BY <1>1, TableAssumption DEF TablesOK
    <3>2. issue \in Files \union {<<>>}
      BY <1>1, <3>1 DEF TablesOK
    <3> QED
      BY <2>2, <3>1, <3>2, LookupAnswers DEF Said
  <2>6. found \in Pending /\ found.ip = ip /\ found.answer[d] = v
    BY <2>3, <2>5 DEF Pending, Answers
  <2>7. CASE d = "country"
    <3>1. found.at = "asn" /\ found.answer["country"] = v
      BY <2>3, <2>6, <2>7
    <3> QED
      BY <1>3, <1>6, <1>8, <1>10, <2>4, <2>5, <2>6, <2>7, <3>1 DEF TableInv, Search
  <2>8. CASE d = "asn"
    <3>1. /\ found.at = "set" /\ found.answer["asn"] = v
          /\ found.answer["country"] = answer["country"]
      BY <2>3, <2>6, <2>8 DEF Datasets, Answers
    <3>2. answer["country"] \in Said("country", tableTime, ip)
      BY <1>1, <2>1, <2>8 DEF UnderOK
    <3> QED
      BY <1>3, <1>6, <1>8, <1>10, <2>4, <2>5, <2>6, <2>8, <3>1, <3>2 DEF TableInv, Search
  <2> QED
    BY <2>7, <2>8 DEF Datasets
<1>11. CASE KeepAnswer(l)
  <2>1. /\ under[l].at = "set" /\ cache' = Put(under[l].ip, under[l].answer)
        /\ under' = [under EXCEPT ![l] = NoLookup]
    BY <1>11 DEF KeepAnswer
  <2>2. /\ under[l].ip \in Addresses /\ under[l].answer \in Answers
        /\ \A d \in Datasets : under[l].answer[d] \in Said(d, tableTime, under[l].ip)
    BY <1>1, <2>1 DEF UnderOK, Pending, Datasets
  <2>3. CacheOK'
    BY <1>1, <1>7, <2>1, <2>2, PutKeeps
  <2>4. UnderOK'
    BY <1>5, <1>6, <2>1
  <2> QED
    BY <1>3, <2>3, <2>4 DEF TableInv
<1> QED
  BY <1>9, <1>10, <1>11

\* A refresh, and the clock.
LEMMA TablesKeep == TableInv /\ [TableNext]_tableVars => TableInv'
<1> SUFFICES ASSUME TableInv, [TableNext]_tableVars PROVE TableInv'
  OBVIOUS
<1>1. TablesOK /\ UnderOK /\ CacheOK
  BY DEF TableInv
<1>2. ASSUME UNCHANGED cache, tableTime' \in Int, tableTime <= tableTime',
             \A d \in Datasets, t \in 0..tableTime :
               \A ip : Said(d, t, ip) \subseteq Said(d, t, ip)'
      PROVE  CacheOK'
  <2>1. ASSUME NEW i \in 1..Len(cache) PROVE EntryOK(cache[i])'
    <3>1. PICK e : e = cache[i]
      OBVIOUS
    <3>2. EntryOK(e) /\ cache'[i] = e
      BY <1>1, <1>2, <3>1 DEF CacheOK
    <3>3. e.expires - TTL \in 0..tableTime'
      BY <1>1, <1>2, <3>2 DEF EntryOK, TablesOK
    <3>4. \A d \in Datasets : e.answer[d] \in Said(d, e.expires - TTL, e.key)'
      BY <1>2, <3>2 DEF EntryOK
    <3> QED
      BY <1>2, <3>1, <3>2, <3>3, <3>4 DEF EntryOK
  <2> QED
    BY <1>1, <1>2, <2>1 DEF CacheOK
<1>3. CASE Swap
  <2>1. /\ UNCHANGED <<cache, under, tableTime>>
        /\ \E d \in Datasets, issue \in Files :
             /\ tables' = [tables EXCEPT ![d] = Parse(issue)]
             /\ inForce' = [inForce EXCEPT ![d] =
                  [t \in 0..LastTick |-> IF t = tableTime THEN @[t] \union {issue}
                                         ELSE IF t > tableTime THEN {issue} ELSE @[t]]]
    BY <1>3 DEF Swap
  <2>2. PICK d \in Datasets, issue \in Files :
             /\ tables' = [tables EXCEPT ![d] = Parse(issue)]
             /\ inForce' = [inForce EXCEPT ![d] =
                  [t \in 0..LastTick |-> IF t = tableTime THEN @[t] \union {issue}
                                         ELSE IF t > tableTime THEN {issue} ELSE @[t]]]
    BY <2>1
  <2>3. /\ inForce' \in [Datasets -> [0..LastTick -> SUBSET (Files \union {<<>>})]]
        /\ \A c \in Datasets \ {d} : inForce'[c] = inForce[c]
        /\ \A t \in 0..LastTick :
             inForce'[d][t] = IF t = tableTime THEN inForce[d][t] \union {issue}
                              ELSE IF t > tableTime THEN {issue} ELSE inForce[d][t]
    BY <1>1, <2>2 DEF TablesOK
  <2>4. TablesOK'
    <3> SUFFICES ASSUME NEW c \in Datasets, NEW t \in tableTime..LastTick
                 PROVE  \E f \in inForce'[c][t] : tables'[c] = Parse(f)
      BY <1>1, <2>1, <2>2, <2>3 DEF TablesOK
    <3>1. t \in 0..LastTick
      BY <1>1 DEF TablesOK
    <3>2. CASE c = d
      <4>1. issue \in inForce'[d][t]
        <5>1. inForce'[d][t] = IF t = tableTime THEN inForce[d][t] \union {issue}
                               ELSE IF t > tableTime THEN {issue} ELSE inForce[d][t]
          BY <2>3, <3>1
        <5>2. t = tableTime \/ t > tableTime
          BY <1>1 DEF TablesOK
        <5> QED
          BY <5>1, <5>2
      <4>2. tables'[d] = Parse(issue)
        <5>1. DOMAIN tables = Datasets
          BY <1>1 DEF TablesOK
        <5> QED
          BY <2>2, <5>1
      <4> QED
        BY <3>2, <4>1, <4>2
    <3>3. CASE c # d
      BY <1>1, <2>2, <2>3, <3>3 DEF TablesOK
    <3> QED
      BY <3>2, <3>3
  <2>5. \A c \in Datasets, t \in 0..tableTime : \A ip : Said(c, t, ip) \subseteq Said(c, t, ip)'
    <3> SUFFICES ASSUME NEW c \in Datasets, NEW t \in 0..tableTime, NEW ip
                 PROVE  Said(c, t, ip) \subseteq Said(c, t, ip)'
      OBVIOUS
    <3>1. inForce[c][t] \subseteq inForce'[c][t]
      <4>1. t \in 0..LastTick /\ ~(t > tableTime)
        BY <1>1, TableAssumption DEF TablesOK
      <4>2. CASE c = d
        <5>1. inForce'[d][t] = IF t = tableTime THEN inForce[d][t] \union {issue}
                               ELSE IF t > tableTime THEN {issue} ELSE inForce[d][t]
          BY <2>3, <4>1
        <5> QED
          BY <4>1, <4>2, <5>1
      <4>3. CASE c # d
        BY <2>3, <4>3
      <4> QED
        BY <4>2, <4>3
    <3> QED
      BY <3>1 DEF Said
  <2>6. UnderOK'
    BY <1>1, <2>1, <2>5 DEF UnderOK, TablesOK, Datasets
  <2>7. CacheOK'
    BY <1>1, <1>2, <2>1, <2>5 DEF TablesOK
  <2> QED
    BY <2>4, <2>6, <2>7 DEF TableInv
<1>4. CASE TableTick
  <2>1. /\ tableTime < LastTick /\ \A l \in Lookups : under[l] = NoLookup
        /\ tableTime' = tableTime + 1 /\ UNCHANGED <<tables, cache, under, inForce>>
    BY <1>4 DEF TableTick
  <2>2. TablesOK'
    BY <1>1, <2>1, TableAssumption DEF TablesOK
  <2>3. UnderOK'
    BY <1>1, <2>1 DEF UnderOK, NoLookup
  <2>4. CacheOK'
    BY <1>1, <1>2, <2>1 DEF TablesOK, Said
  <2> QED
    BY <2>2, <2>3, <2>4 DEF TableInv
<1>5. CASE UNCHANGED tableVars
  <2>1. TablesOK'
    BY <1>1, <1>5 DEF tableVars, TablesOK
  <2>2. UnderOK'
    BY <1>1, <1>5 DEF tableVars, UnderOK, Said
  <2>3. CacheOK'
    BY <1>1, <1>2, <1>5 DEF tableVars, TablesOK, Said
  <2> QED
    BY <2>1, <2>2, <2>3 DEF TableInv
<1> QED
  BY <1>3, <1>4, <1>5, LookupsKeep DEF TableNext

\* Resolver.Resolve, the cache and the refreshes: whatever the size of the
\* cache, and however lookups interleave with refreshes of either dataset, an
\* answer the cache gives is what a file of that dataset said of the address,
\* and the file was in use no longer ago than the TTL.
THEOREM CachedAnswersAreRecent == TableSpec => []AnswersAreRecent
<1>1. TableInv => AnswersAreRecent
  <2> SUFFICES ASSUME TableInv, NEW ip \in Addresses, NEW d \in Datasets, Hit(ip)
               PROVE  \E t \in Max({0, tableTime - TTL})..tableTime :
                        \E issue \in inForce[d][t] : CacheEntry(ip).answer[d] = Says(issue, ip)
    BY DEF AnswersAreRecent
  <2>1. TablesOK /\ CacheOK /\ ip \in CachedKeys /\ ~CacheExpired(CacheEntry(ip))
    BY DEF TableInv, Hit
  <2>2. PICK e \in CacheEntries : e = CacheEntry(ip) /\ EntryOK(e) /\ e.key = ip
    BY <2>1, RemovalLeaves DEF CacheOK, CacheEntry
  <2>3. PICK t \in 0..tableTime : t = e.expires - TTL
    BY <2>2 DEF EntryOK
  <2>4. t >= tableTime - TTL
    BY <2>1, <2>2, <2>3, TableAssumption DEF CacheExpired, CacheEntries, TablesOK
  <2>5. t \in Max({0, tableTime - TTL})..tableTime
    <3>1. tableTime - TTL \in Int /\ tableTime \in Nat
      BY <2>1, TableAssumption DEF TablesOK
    <3>2. Max({0, tableTime - TTL}) = IF tableTime - TTL > 0 THEN tableTime - TTL ELSE 0
      BY <3>1 DEF Max
    <3> QED
      BY <2>3, <2>4, <3>1, <3>2
  <2>6. PICK issue \in inForce[d][t] : e.answer[d] \in Lookup(Parse(issue), ip)
    BY <2>2, <2>3 DEF EntryOK, Said
  <2>7. issue \in Files \union {<<>>} /\ ip \in Nat
    BY <2>1, <2>3, <2>6, TableAssumption DEF TablesOK
  <2>8. e.answer[d] = Says(issue, ip)
    BY <2>6, <2>7, SearchFinds
  <2> QED
    BY <2>2, <2>5, <2>6, <2>8
<1> QED
  BY <1>1, TableStarts, TablesKeep, PTL DEF TableSpec

-----------------------------------------------------------------------------
(* The summaries of the rows.                                              *)

\* A time at which a unit of this width starts.
Aligned(t, width) == Down(t, width) = t

\* Down rounds to a whole number of units.
LEMMA DownIsWhole ==
  ASSUME NEW width \in Nat \ {0}, NEW t \in Int
  PROVE  /\ Down(t, width) \in Int /\ Down(t, width) <= t /\ t < Down(t, width) + width
         /\ \E k \in Int : Down(t, width) = k * width
<1> DEFINE k == t \div width
<1>1. k \in Int /\ k * width <= t /\ t < k * width + width
  OBVIOUS
<1>2. k * width \in Int
  BY <1>1
<1> QED
  BY <1>1, <1>2 DEF Down

\* Whole numbers of units, and nothing else, are aligned.
LEMMA AlignedIsWhole ==
  ASSUME NEW width \in Nat \ {0}, NEW t \in Int
  PROVE  Aligned(t, width) <=> \E k \in Int : t = k * width
<1>1. Aligned(t, width) => \E k \in Int : t = k * width
  BY DownIsWhole DEF Aligned
<1>2. ASSUME NEW k \in Int, t = k * width PROVE Aligned(t, width)
  <2>1. PICK n \in Int : Down(t, width) = n * width
    BY DownIsWhole
  <2>2. n * width <= k * width /\ k * width < n * width + width
    BY <1>2, <2>1, DownIsWhole
  <2>3. n * width + width = (n + 1) * width
    OBVIOUS
  <2>4. n <= k
    <3> SUFFICES ASSUME k + 1 <= n PROVE FALSE
      OBVIOUS
    <3>1. (k + 1) * width <= n * width /\ (k + 1) * width = k * width + width
      OBVIOUS
    <3>2. k * width \in Int /\ n * width \in Int
      OBVIOUS
    <3> QED
      BY <2>2, <3>1, <3>2
  <2>5. k < n + 1
    <3> SUFFICES ASSUME n + 1 <= k PROVE FALSE
      OBVIOUS
    <3>1. (n + 1) * width <= k * width
      OBVIOUS
    <3>2. k * width \in Int /\ (n + 1) * width \in Int
      OBVIOUS
    <3> QED
      BY <2>2, <2>3, <3>1, <3>2
  <2>6. n = k
    BY <2>4, <2>5
  <2> QED
    BY <1>2, <2>1, <2>6 DEF Aligned
<1> QED
  BY <1>1, <1>2

\* Sums and differences of aligned times are aligned, and two of them are a
\* unit apart.
LEMMA AlignedTogether ==
  ASSUME NEW width \in Nat \ {0}, NEW t \in Int, NEW u \in Int,
         Aligned(t, width), Aligned(u, width)
  PROVE  /\ Aligned(t + u, width) /\ Aligned(t - u, width)
         /\ t < u => t + width <= u
<1>1. PICK k \in Int : t = k * width
  BY AlignedIsWhole
<1>2. PICK n \in Int : u = n * width
  BY AlignedIsWhole
<1>3. t + u = (k + n) * width /\ t - u = (k - n) * width
  BY <1>1, <1>2
<1>4. Aligned(t + u, width) /\ Aligned(t - u, width)
  <2>1. t + u \in Int /\ t - u \in Int /\ k + n \in Int /\ k - n \in Int
    OBVIOUS
  <2> QED
    BY <1>3, <2>1, AlignedIsWhole
<1>5. ASSUME t < u PROVE t + width <= u
  <2>1. k + 1 <= n
    <3> SUFFICES ASSUME n <= k PROVE FALSE
      OBVIOUS
    <3>1. n * width <= k * width
      OBVIOUS
    <3> QED
      BY <1>1, <1>2, <1>5, <3>1
  <2>2. (k + 1) * width <= n * width /\ (k + 1) * width = t + width
    BY <1>1, <2>1
  <2> QED
    BY <1>2, <2>2
<1> QED
  BY <1>4, <1>5

\* What Down and Up return is aligned, and so are a width and nought.
LEMMA Roundings ==
  ASSUME NEW width \in Nat \ {0}, NEW t \in Int
  PROVE  /\ Aligned(Down(t, width), width) /\ Aligned(width, width) /\ Aligned(0, width)
         /\ Up(t, width) \in Int /\ Aligned(Up(t, width), width) /\ t <= Up(t, width)
<1>1. Aligned(Down(t, width), width)
  BY AlignedIsWhole, DownIsWhole
<1>2. width = 1 * width /\ 0 = 0 * width
  OBVIOUS
<1>3. Aligned(width, width) /\ Aligned(0, width)
  BY <1>2, AlignedIsWhole
<1>4. t + width - 1 \in Int /\ width \in Int
  OBVIOUS
<1>5. /\ Down(t + width - 1, width) \in Int
      /\ t + width - 1 < Down(t + width - 1, width) + width
  BY <1>4, DownIsWhole
<1>6. Up(t, width) \in Int /\ t <= Up(t, width)
  BY <1>4, <1>5 DEF Up
<1>7. Aligned(Up(t, width), width)
  BY <1>4, AlignedIsWhole, DownIsWhole DEF Up
<1> QED
  BY <1>1, <1>3, <1>6, <1>7

\* A unit begins no earlier than time does.
LEMMA StartsAreAligned ==
  ASSUME NEW width \in Nat \ {0}, NEW b \in Starts(width)
  PROVE  b \in Nat /\ Aligned(b, width)
<1>1. PICK t \in 0..LastTime : b = Down(t, width)
  BY DEF Starts
<1>2. t \in Int /\ 0 <= t
  BY <1>1
<1>3. b \in Int /\ Aligned(b, width) /\ Aligned(0, width) /\ t < b + width
  BY <1>1, <1>2, DownIsWhole, Roundings
<1>4. b < 0 => b + width <= 0
  BY <1>3, AlignedTogether
<1> QED
  BY <1>2, <1>3, <1>4

\* The rows of a unit that a refresh of whole units sees are all of them, or
\* none.
LEMMA PartIsWhole ==
  ASSUME NEW width \in Nat \ {0}, NEW b \in Int, NEW low \in Int, NEW high \in Int,
         Aligned(b, width), Aligned(low, width), Aligned(high, width),
         \A r \in rows : r.time \in Int
  PROVE  LET seen == Rows(b, b + width) \cap Rows(low, high)
         IN  /\ seen = {} \/ seen = Rows(b, b + width)
             /\ low <= b /\ b + width <= high => seen = Rows(b, b + width)
<1> DEFINE seen == Rows(b, b + width) \cap Rows(low, high)
<1>1. CASE b < low
  <2>1. b + width <= low
    BY <1>1, AlignedTogether
  <2> QED
    BY <1>1, <2>1 DEF Rows
<1>2. CASE high <= b
  BY <1>2 DEF Rows
<1>3. CASE low <= b /\ b < high
  <2>1. b + width <= high
    BY <1>3, AlignedTogether
  <2> QED
    BY <1>3, <2>1 DEF Rows
<1> QED
  BY <1>1, <1>2, <1>3

-----------------------------------------------------------------------------
(* What the summaries hold.                                                *)

Retained(t) == t >= time - Keep

RollupTypes ==
  /\ time \in 0..LastTime /\ IsFiniteSet(rows)
  /\ \A r \in rows : r.time \in 0..LastTime
  /\ DOMAIN rolled = Starts(Bucket) /\ DOMAIN sketched = Starts(Day)
  /\ cycle = [at |-> cycle.at, from |-> cycle.from, to |-> cycle.to]
  /\ reader.at \in {"none", "sum", "count"}

\* Within the retention a summary has no more than the rows.
NoMore ==
  /\ \A b \in Starts(Bucket) : Retained(b) => rolled[b] \subseteq Rows(b, b + Bucket)
  /\ \A d \in Starts(Day) : Retained(d) => sketched[d].ips \subseteq AddressesOf(Rows(d, d + Day))

\* An aligned time up to which no row comes any more.
Quiet(t, width) == t \in Int /\ Aligned(t, width) /\ (t <= 0 \/ t <= time - Settle)

\* Up to t, which has settled, the summary is that of the rows.
RolledUpTo(t) ==
  /\ Quiet(t, Bucket)
  /\ \A b \in Starts(Bucket) : Retained(b) /\ b + Bucket <= t => rolled[b] = Rows(b, b + Bucket)
CountedUpTo(t) ==
  /\ Quiet(t, Day)
  /\ \A d \in Starts(Day) :
       Retained(d) /\ d + Day <= t => sketched[d].ips = AddressesOf(Rows(d, d + Day))

\* The watermarks, the one a request has read, and those of the cycle.
WatermarksOK ==
  /\ RolledUpTo(rolledBefore) /\ CountedUpTo(sketchState.before)
  /\ reader.at = "sum" => RolledUpTo(reader.before)
  /\ reader.at = "count" => CountedUpTo(reader.state.before)
CycleOK ==
  /\ cycle.at = "upsert" =>
       RolledUpTo(cycle.from) /\ Quiet(cycle.to, Bucket) /\ cycle.from < cycle.to
  /\ cycle.at = "watermark" => RolledUpTo(cycle.to)
  /\ cycle.at = "sketch" =>
       CountedUpTo(cycle.from) /\ Quiet(cycle.to, Day) /\ cycle.from < cycle.to
  /\ cycle.at = "state" => CountedUpTo(cycle.to)

SummaryInv == RollupTypes /\ NoMore /\ WatermarksOK /\ CycleOK

\* What the rows, the clock and the collector do around the summaries.
Around == Read \/ Insert \/ DropChunk \/ Replaced \/ RollupTick

\* Time goes on, a row within the retention stays, and none comes to where the
\* rows have settled.
LEMMA RowsSettle ==
  ASSUME SummaryInv, Around \/ UNCHANGED <<time, rows>>
  PROVE  /\ time' \in 0..LastTime /\ time <= time' /\ IsFiniteSet(rows')
         /\ \A r \in rows' : r.time \in 0..LastTime
         /\ \A t \in Int, u \in Int : Retained(t)' => Retained(t) /\ Rows(t, u) \subseteq Rows(t, u)'
         /\ \A width \in Nat \ {0}, t \in Int, b \in Nat :
              Quiet(t, width) /\ b + width <= t /\ Retained(b)' =>
                Rows(b, b + width)' = Rows(b, b + width)
<1>1. RollupTypes
  BY DEF SummaryInv
<1>2. CASE UNCHANGED <<time, rows>>
  BY <1>1, <1>2 DEF RollupTypes, Retained, Rows
<1>3. CASE Insert
  <2>1. PICK ip \in Ips, score \in Scores, t \in Max({0, time - MaxLate})..time :
          rows' = rows \cup {[ip |-> ip, score |-> score, time |-> t]}
    BY <1>3 DEF Insert
  <2>2. PICK new : new = [ip |-> ip, score |-> score, time |-> t]
    OBVIOUS
  <2>3. new.time = t /\ rows' = rows \cup {new} /\ time' = time
    BY <1>3, <2>1, <2>2 DEF Insert
  <2>4. t \in 0..LastTime /\ time - MaxLate <= t
    <3>1. time \in Nat /\ time - MaxLate \in Int
      BY <1>1, RollupAssumption DEF RollupTypes
    <3>2. Max({0, time - MaxLate}) = IF time - MaxLate > 0 THEN time - MaxLate ELSE 0
      BY <3>1 DEF Max
    <3> QED
      BY <1>1, <3>1, <3>2, RollupAssumption DEF RollupTypes
  <2>5. IsFiniteSet(rows')
    BY <1>1, <2>3, FS_AddElement DEF RollupTypes
  <2>6. ASSUME NEW width \in Nat \ {0}, NEW u \in Int, NEW b \in Nat,
               Quiet(u, width), b + width <= u
        PROVE  Rows(b, b + width)' = Rows(b, b + width)
    <3>1. u <= time - Settle
      BY <2>6 DEF Quiet
    <3>2. ~(t < b + width)
      BY <1>1, <2>4, <2>6, <3>1, RollupAssumption DEF RollupTypes, Quiet
    <3> QED
      BY <2>3, <3>2 DEF Rows
  <2>7. /\ time' \in 0..LastTime /\ time <= time'
        /\ \A r \in rows' : r.time \in 0..LastTime
    BY <1>1, <2>3, <2>4 DEF RollupTypes
  <2>8. \A u \in Int, v \in Int : Retained(u)' => Retained(u) /\ Rows(u, v) \subseteq Rows(u, v)'
    BY <2>3 DEF Retained, Rows
  <2> QED
    BY <2>5, <2>6, <2>7, <2>8
<1>4. CASE DropChunk
  <2>1. time' = time /\ rows' = {r \in rows : Down(r.time, Day) + Day > time - Keep}
    BY <1>4 DEF DropChunk
  <2>2. IsFiniteSet(rows')
    BY <1>1, <2>1, FS_Subset DEF RollupTypes
  <2>3. \A r \in rows : r.time >= time - Keep => r \in rows'
    <3> SUFFICES ASSUME NEW r \in rows, r.time >= time - Keep
                 PROVE  Down(r.time, Day) + Day > time - Keep
      BY <2>1
    <3>1. r.time \in Int /\ time \in Int
      BY <1>1 DEF RollupTypes
    <3>2. Down(r.time, Day) \in Int /\ r.time < Down(r.time, Day) + Day
      BY <3>1, DownIsWhole, RollupAssumption
    <3> QED
      BY <3>1, <3>2, RollupAssumption
  <2>4. \A t \in Int, u \in Int : Retained(t) => Rows(t, u)' = Rows(t, u)
    <3> SUFFICES ASSUME NEW t \in Int, NEW u \in Int, Retained(t) PROVE Rows(t, u)' = Rows(t, u)
      OBVIOUS
    <3>1. \A r \in rows : t <= r.time => r \in rows'
      BY <1>1, <2>3, RollupAssumption DEF Retained, RollupTypes
    <3> QED
      BY <2>1, <3>1 DEF Rows
  <2>5. \A t \in Int : Retained(t)' = Retained(t)
    BY <2>1 DEF Retained
  <2> QED
    BY <1>1, <2>1, <2>2, <2>4, <2>5, RollupAssumption DEF RollupTypes
<1>5. CASE RollupTick
  BY <1>1, <1>5, RollupAssumption DEF RollupTick, RollupTypes, Retained, Rows
<1>6. CASE Read \/ Replaced
  BY <1>1, <1>2, <1>6 DEF Read, Replaced
<1> QED
  BY <1>2, <1>3, <1>4, <1>5, <1>6 DEF Around

\* What has settled stays so.
LEMMA QuietStays ==
  ASSUME RollupTypes, time' \in 0..LastTime, time <= time',
         NEW t, NEW width, Quiet(t, width)
  PROVE  Quiet(t, width)'
<1>1. Aligned(t, width)' = Aligned(t, width)
  BY DEF Aligned, Down
<1>2. time \in Int /\ time' \in Int /\ Settle \in Int /\ t \in Int /\ time <= time'
  BY RollupAssumption DEF RollupTypes, Quiet
<1>3. ASSUME NEW a \in Int, NEW b \in Int, NEW c \in Int, NEW u \in Int, a <= b, u <= a - c
      PROVE  u <= b - c
  BY <1>3
<1>4. t <= time - Settle => t <= time' - Settle
  BY <1>2, <1>3
<1> QED
  BY <1>1, <1>2, <1>4 DEF Quiet

\* What the summaries hold stays so around them.
LEMMA AroundKeeps ==
  ASSUME SummaryInv, Around \/ UNCHANGED rollupVars
  PROVE  SummaryInv'
<1>1. RollupTypes /\ NoMore /\ WatermarksOK /\ CycleOK
  BY DEF SummaryInv
<1>2. UNCHANGED <<rolled, rolledBefore, sketched, sketchState>>
  BY DEF Around, Read, Insert, DropChunk, Replaced, RollupTick, rollupVars
<1>3. UNCHANGED cycle \/ cycle'.at = "idle"
  BY DEF Around, Read, Insert, DropChunk, Replaced, RollupTick, rollupVars, Idle
<1>4. /\ time' \in 0..LastTime /\ time <= time' /\ IsFiniteSet(rows')
      /\ \A r \in rows' : r.time \in 0..LastTime
      /\ \A t \in Int, u \in Int : Retained(t)' => Retained(t) /\ Rows(t, u) \subseteq Rows(t, u)'
      /\ \A width \in Nat \ {0}, t \in Int, b \in Nat :
           Quiet(t, width) /\ b + width <= t /\ Retained(b)' =>
             Rows(b, b + width)' = Rows(b, b + width)
  BY RowsSettle DEF rollupVars
<1>5. Bucket \in Nat \ {0} /\ Day \in Nat \ {0}
  BY RollupAssumption
<1>6. /\ \A b \in Starts(Bucket) : b \in Nat /\ b + Bucket \in Int
      /\ \A d \in Starts(Day) : d \in Nat /\ d + Day \in Int
  BY <1>5, StartsAreAligned
<1>7. NoMore'
  <2>1. ASSUME NEW b \in Starts(Bucket), Retained(b)' PROVE rolled[b] \subseteq Rows(b, b + Bucket)'
    BY <1>1, <1>4, <1>6, <2>1 DEF NoMore
  <2>2. ASSUME NEW d \in Starts(Day), Retained(d)'
        PROVE  sketched[d].ips \subseteq AddressesOf(Rows(d, d + Day))'
    <3>1. Retained(d) /\ Rows(d, d + Day) \subseteq Rows(d, d + Day)'
      BY <1>4, <1>6, <2>2
    <3>2. sketched[d].ips \subseteq AddressesOf(Rows(d, d + Day))
      BY <1>1, <3>1 DEF NoMore
    <3> QED
      BY <3>1, <3>2 DEF AddressesOf
  <2> QED
    BY <1>2, <2>1, <2>2 DEF NoMore
<1>8. ASSUME NEW t, RolledUpTo(t) PROVE RolledUpTo(t)'
  <2>1. Quiet(t, Bucket) /\ t \in Int
    BY <1>8 DEF RolledUpTo, Quiet
  <2>2. ASSUME NEW b \in Starts(Bucket), Retained(b)', b + Bucket <= t
        PROVE  rolled[b] = Rows(b, b + Bucket)'
    <3>1. Retained(b) /\ Rows(b, b + Bucket)' = Rows(b, b + Bucket)
      BY <1>4, <1>5, <1>6, <2>1, <2>2
    <3> QED
      BY <1>8, <2>2, <3>1 DEF RolledUpTo
  <2>3. Quiet(t, Bucket)'
    BY <1>1, <1>4, <2>1, QuietStays
  <2> QED
    BY <1>2, <2>2, <2>3 DEF RolledUpTo
<1>9. ASSUME NEW t, CountedUpTo(t) PROVE CountedUpTo(t)'
  <2>1. Quiet(t, Day) /\ t \in Int
    BY <1>9 DEF CountedUpTo, Quiet
  <2>2. ASSUME NEW d \in Starts(Day), Retained(d)', d + Day <= t
        PROVE  sketched[d].ips = AddressesOf(Rows(d, d + Day))'
    <3>1. Retained(d) /\ Rows(d, d + Day)' = Rows(d, d + Day)
      BY <1>4, <1>5, <1>6, <2>1, <2>2
    <3>2. AddressesOf(Rows(d, d + Day))' = AddressesOf(Rows(d, d + Day))
      BY <3>1 DEF AddressesOf
    <3> QED
      BY <1>9, <2>2, <3>1, <3>2 DEF CountedUpTo
  <2>3. Quiet(t, Day)'
    BY <1>1, <1>4, <2>1, QuietStays
  <2> QED
    BY <1>2, <2>2, <2>3 DEF CountedUpTo
<1>10. ASSUME Read
       PROVE  \/ reader'.at = "sum" /\ reader'.before = rolledBefore
              \/ reader'.at = "count" /\ reader'.state = sketchState
              \/ reader'.at = "none"
  <2>1. CASE reader' = [NoReader EXCEPT !.at = "sum", !.before = rolledBefore]
    BY <2>1 DEF NoReader
  <2>2. CASE reader' = [NoReader EXCEPT !.at = "count", !.state = sketchState]
    BY <2>2 DEF NoReader
  <2>3. CASE reader' = NoReader
    BY <2>3 DEF NoReader
  <2> QED
    BY <1>10, <2>1, <2>2, <2>3 DEF Read
<1>11. RollupTypes'
  <2>0. cycle' = [at |-> cycle'.at, from |-> cycle'.from, to |-> cycle'.to]
    <3>1. cycle' = cycle \/ cycle' = Idle
      BY DEF Around, Read, Insert, DropChunk, Replaced, RollupTick, rollupVars
    <3> QED
      BY <1>1, <3>1 DEF RollupTypes, Idle
  <2>1. CASE Read
    BY <1>1, <1>2, <1>4, <1>10, <2>0, <2>1 DEF RollupTypes
  <2>2. CASE UNCHANGED reader
    BY <1>1, <1>2, <1>4, <2>0, <2>2 DEF RollupTypes
  <2> QED
    BY <2>1, <2>2 DEF Around, Insert, DropChunk, Replaced, RollupTick, rollupVars
<1>12. CycleOK'
  <2>1. CASE cycle'.at = "idle"
    BY <2>1 DEF CycleOK
  <2>2. CASE UNCHANGED cycle
    <3>1. PICK c : c = cycle /\ cycle' = c
      BY <2>2
    <3>2. /\ c.at = "upsert" =>
               RolledUpTo(c.from) /\ Quiet(c.to, Bucket) /\ c.from < c.to
          /\ c.at = "watermark" => RolledUpTo(c.to)
          /\ c.at = "sketch" =>
               CountedUpTo(c.from) /\ Quiet(c.to, Day) /\ c.from < c.to
          /\ c.at = "state" => CountedUpTo(c.to)
      BY <1>1, <3>1 DEF CycleOK
    <3>3. \A t, width : Quiet(t, width) => Quiet(t, width)'
      BY <1>1, <1>4, QuietStays
    <3>4. /\ c.at = "upsert" =>
               RolledUpTo(c.from)' /\ Quiet(c.to, Bucket)' /\ c.from < c.to
          /\ c.at = "watermark" => RolledUpTo(c.to)'
          /\ c.at = "sketch" =>
               CountedUpTo(c.from)' /\ Quiet(c.to, Day)' /\ c.from < c.to
          /\ c.at = "state" => CountedUpTo(c.to)'
      BY <1>8, <1>9, <3>2, <3>3
    <3> QED
      BY <3>1, <3>4 DEF CycleOK
  <2> QED
    BY <1>3, <2>1, <2>2
<1>13. WatermarksOK'
  <2>1. PICK w, s, q : w = rolledBefore /\ s = sketchState.before /\ q = reader
    OBVIOUS
  <2>2. RolledUpTo(w)' /\ CountedUpTo(s)' /\ rolledBefore' = w /\ sketchState'.before = s
    BY <1>1, <1>2, <1>8, <1>9, <2>1 DEF WatermarksOK
  <2>3. CASE UNCHANGED reader
    <3>1. /\ q.at = "sum" => RolledUpTo(q.before)'
          /\ q.at = "count" => CountedUpTo(q.state.before)'
      BY <1>1, <1>8, <1>9, <2>1 DEF WatermarksOK
    <3> QED
      BY <2>1, <2>2, <2>3, <3>1 DEF WatermarksOK
  <2>4. CASE Read
    <3>1. \/ reader'.at = "sum" /\ reader'.before = w
          \/ reader'.at = "count" /\ reader'.state.before = s
          \/ reader'.at = "none"
      BY <1>10, <2>1, <2>4
    <3> QED
      BY <2>2, <3>1 DEF WatermarksOK
  <2> QED
    BY <2>3, <2>4 DEF Around, Insert, DropChunk, Replaced, RollupTick, rollupVars
<1> QED
  BY <1>7, <1>11, <1>12, <1>13 DEF SummaryInv

\* A summary that a step leaves as it was, or makes that of the rows, is no
\* more than the rows, and right up to where it was.
LEMMA WritingKeeps ==
  ASSUME SummaryInv, UNCHANGED <<time, rows>>,
         \A b \in Starts(Bucket) :
           Retained(b) => rolled'[b] = rolled[b] \/ rolled'[b] = Rows(b, b + Bucket),
         \A d \in Starts(Day) :
           Retained(d) => \/ sketched'[d].ips = sketched[d].ips
                          \/ sketched'[d].ips = AddressesOf(Rows(d, d + Day))
  PROVE  /\ NoMore'
         /\ \A t : RolledUpTo(t) => RolledUpTo(t)'
         /\ \A t : CountedUpTo(t) => CountedUpTo(t)'
         /\ \A t, width : Quiet(t, width) => Quiet(t, width)'
<1>1. RollupTypes /\ NoMore
  BY DEF SummaryInv
<1>2. /\ \A t : Retained(t)' = Retained(t)
      /\ \A t, u : Rows(t, u)' = Rows(t, u)
      /\ \A t, u : AddressesOf(Rows(t, u))' = AddressesOf(Rows(t, u))
  BY DEF Retained, Rows, AddressesOf
<1>3. \A t, width : Quiet(t, width) => Quiet(t, width)'
  BY DEF Quiet, Aligned, Down
<1>4. NoMore'
  <2>1. ASSUME NEW b \in Starts(Bucket), Retained(b) PROVE rolled'[b] \subseteq Rows(b, b + Bucket)
    BY <1>1, <2>1 DEF NoMore
  <2>2. ASSUME NEW d \in Starts(Day), Retained(d)
        PROVE  sketched'[d].ips \subseteq AddressesOf(Rows(d, d + Day))
    BY <1>1, <2>2 DEF NoMore
  <2> QED
    BY <1>2, <2>1, <2>2 DEF NoMore
<1>5. ASSUME NEW t, RolledUpTo(t) PROVE RolledUpTo(t)'
  <2>1. Quiet(t, Bucket)'
    BY <1>3, <1>5 DEF RolledUpTo
  <2>2. ASSUME NEW b \in Starts(Bucket), Retained(b), b + Bucket <= t
        PROVE  rolled'[b] = Rows(b, b + Bucket)
    BY <1>5, <2>2 DEF RolledUpTo
  <2> QED
    BY <1>2, <2>1, <2>2 DEF RolledUpTo
<1>6. ASSUME NEW t, CountedUpTo(t) PROVE CountedUpTo(t)'
  <2>1. Quiet(t, Day)'
    BY <1>3, <1>6 DEF CountedUpTo
  <2>2. ASSUME NEW d \in Starts(Day), Retained(d), d + Day <= t
        PROVE  sketched'[d].ips = AddressesOf(Rows(d, d + Day))
    BY <1>6, <2>2 DEF CountedUpTo
  <2> QED
    BY <1>2, <2>1, <2>2 DEF CountedUpTo
<1> QED
  BY <1>3, <1>4, <1>5, <1>6

\* A step of the cycle keeps the invariant when the watermarks it leaves and
\* its own next step are right.
LEMMA CycleKeeps ==
  ASSUME SummaryInv, UNCHANGED <<time, rows, reader>>,
         DOMAIN rolled' = Starts(Bucket), DOMAIN sketched' = Starts(Day),
         NoMore', \A t : RolledUpTo(t) => RolledUpTo(t)', \A t : CountedUpTo(t) => CountedUpTo(t)',
         NEW w, rolledBefore' = w, RolledUpTo(w)',
         NEW s, sketchState'.before = s, CountedUpTo(s)',
         NEW place, NEW low, NEW high, cycle' = [at |-> place, from |-> low, to |-> high],
         place = "upsert" => RolledUpTo(low)' /\ Quiet(high, Bucket)' /\ low < high,
         place = "watermark" => RolledUpTo(high)',
         place = "sketch" => CountedUpTo(low)' /\ Quiet(high, Day)' /\ low < high,
         place = "state" => CountedUpTo(high)'
  PROVE  SummaryInv'
<1>1. RollupTypes /\ WatermarksOK
  BY DEF SummaryInv
<1>2. RollupTypes'
  BY <1>1 DEF RollupTypes
<1>3. CycleOK'
  BY DEF CycleOK
<1>4. WatermarksOK'
  <2>1. PICK q : q = reader
    OBVIOUS
  <2>2. /\ q.at = "sum" => RolledUpTo(q.before)'
        /\ q.at = "count" => CountedUpTo(q.state.before)'
    BY <1>1, <2>1 DEF WatermarksOK
  <2> QED
    BY <2>1, <2>2 DEF WatermarksOK
<1> QED
  BY <1>2, <1>3, <1>4 DEF SummaryInv

\* No row comes before the unit of the oldest.
LEMMA OldestBegins ==
  ASSUME RollupTypes, rows # {}, NEW width \in Nat \ {0}
  PROVE  /\ OldestRow(width) \in Int /\ Aligned(OldestRow(width), width)
         /\ \A r \in rows : OldestRow(width) <= r.time
<1> DEFINE S == {r.time : r \in rows}
<1>1. S \subseteq 0..LastTime /\ S # {}
  BY DEF RollupTypes
<1>2. IsFiniteSet(S) /\ S \in SUBSET Int
  <2>1. IsFiniteSet(0..LastTime)
    BY FS_Interval, RollupAssumption
  <2>2. S \in SUBSET Int
    BY <1>1, RollupAssumption
  <2> HIDE DEF S
  <2> QED
    BY <1>1, <2>1, <2>2, FS_Subset
<1>3. Min(S) \in S /\ \A x \in S : Min(S) <= x
  <2> HIDE DEF S
  <2> QED
    BY <1>1, <1>2, LeastOf
<1>4. Min(S) \in Int /\ \A r \in rows : r.time \in Int /\ Min(S) <= r.time
  BY <1>1, <1>3
<1> HIDE DEF S
<1>5. /\ Down(Min(S), width) \in Int /\ Down(Min(S), width) <= Min(S)
      /\ Aligned(Down(Min(S), width), width)
  BY <1>4, DownIsWhole, Roundings
<1>6. OldestRow(width) = Down(Min(S), width)
  BY DEF OldestRow, S
<1> QED
  BY <1>4, <1>5, <1>6

\* A span that is not empty starts and ends where the rows have settled.
LEMMA SpanSettles ==
  ASSUME RollupTypes, NEW width \in Nat \ {0}, Aligned(MaxSpan, width),
         NEW low \in Int, Aligned(low, width), NEW high, high = Span(low, Horizon(width)).to, low < high
  PROVE  Quiet(low, width) /\ Quiet(high, width) /\ Span(low, Horizon(width)).from = low
<1>1. time \in Int /\ Settle \in Int /\ MaxSpan \in Int /\ time - Settle \in Int
  BY RollupAssumption DEF RollupTypes
<1>2. PICK h : h = Horizon(width)
  OBVIOUS
<1>3. h \in Int /\ h <= time - Settle /\ Aligned(h, width)
  BY <1>1, <1>2, DownIsWhole, Roundings DEF Horizon
<1>4. high = IF low + MaxSpan < h THEN low + MaxSpan ELSE h
  BY <1>2 DEF Span
<1>5. Aligned(low + MaxSpan, width)
  BY <1>1, AlignedTogether
<1>6. high \in Int /\ Aligned(high, width) /\ high <= h
  BY <1>1, <1>3, <1>4, <1>5
<1>7. high <= time - Settle /\ low <= time - Settle
  BY <1>1, <1>3, <1>6
<1>8. Span(low, Horizon(width)).from = low
  BY DEF Span
<1> QED
  BY <1>6, <1>7, <1>8 DEF Quiet

\* A refresh starts where the summary is that of the rows: behind a watermark,
\* or where no row comes before.
LEMMA SpansStartRight ==
  ASSUME SummaryInv
  PROVE  /\ (rows # {} \/ rolledBefore > 0) /\ RollupSpan.from < RollupSpan.to =>
              RolledUpTo(RollupSpan.from) /\ Quiet(RollupSpan.to, Bucket)
         /\ rows # {} /\ SketchSpan.from < SketchSpan.to =>
              CountedUpTo(SketchSpan.from) /\ Quiet(SketchSpan.to, Day)
<1>1. RollupTypes /\ NoMore /\ RolledUpTo(rolledBefore) /\ CountedUpTo(sketchState.before)
  BY DEF SummaryInv, WatermarksOK
<1>2. /\ Bucket \in Nat \ {0} /\ Day \in Nat \ {0} /\ Recheck \in Nat
      /\ Aligned(Recheck, Bucket) /\ Aligned(MaxSpan, Bucket) /\ Aligned(MaxSpan, Day)
      /\ Aligned(Day, Day)
  BY RollupAssumption, Roundings DEF Aligned
<1>3. /\ \A b \in Starts(Bucket) : b \in Nat /\ b + Bucket \in Int
      /\ \A d \in Starts(Day) : d \in Nat /\ d + Day \in Int
  BY <1>2, StartsAreAligned
<1>4. ASSUME NEW low, NEW high, low < high, rows # {} \/ rolledBefore > 0,
             low = IF rolledBefore > 0 THEN rolledBefore - Recheck ELSE OldestRow(Bucket),
             high = Span(low, Horizon(Bucket)).to
      PROVE  RolledUpTo(low) /\ Quiet(high, Bucket) /\ Span(low, Horizon(Bucket)).from = low
  <2>1. CASE rolledBefore > 0
    <3>1. rolledBefore \in Int /\ Aligned(rolledBefore, Bucket)
      BY <1>1 DEF RolledUpTo, Quiet
    <3>2. low = rolledBefore - Recheck
      BY <1>4, <2>1
    <3>3. low \in Int /\ Aligned(low, Bucket) /\ low <= rolledBefore
      BY <1>2, <3>1, <3>2, AlignedTogether
    <3>4. Quiet(low, Bucket) /\ Quiet(high, Bucket) /\ Span(low, Horizon(Bucket)).from = low
      BY <1>1, <1>2, <1>4, <3>3, SpanSettles
    <3>5. ASSUME NEW b \in Starts(Bucket), Retained(b), b + Bucket <= low
          PROVE  rolled[b] = Rows(b, b + Bucket)
      <4>1. b + Bucket <= rolledBefore
        BY <1>3, <3>1, <3>3, <3>5
      <4> QED
        BY <1>1, <3>5, <4>1 DEF RolledUpTo
    <3> QED
      BY <3>4, <3>5 DEF RolledUpTo
  <2>2. CASE ~(rolledBefore > 0)
    <3>1. rows # {} /\ low = OldestRow(Bucket)
      BY <1>4, <2>2
    <3>2. low \in Int /\ Aligned(low, Bucket) /\ \A r \in rows : low <= r.time
      BY <1>1, <1>2, <3>1, OldestBegins
    <3>3. Quiet(low, Bucket) /\ Quiet(high, Bucket) /\ Span(low, Horizon(Bucket)).from = low
      BY <1>1, <1>2, <1>4, <3>2, SpanSettles
    <3>4. ASSUME NEW b \in Starts(Bucket), Retained(b), b + Bucket <= low
          PROVE  rolled[b] = Rows(b, b + Bucket)
      <4>1. \A r \in rows : r.time \in Int
        BY <1>1 DEF RollupTypes
      <4>2. Rows(b, b + Bucket) = {}
        BY <1>3, <3>2, <3>4, <4>1 DEF Rows
      <4>3. rolled[b] \subseteq Rows(b, b + Bucket)
        BY <1>1, <3>4 DEF NoMore
      <4> QED
        BY <4>2, <4>3
    <3> QED
      BY <3>3, <3>4 DEF RolledUpTo
  <2> QED
    BY <2>1, <2>2
<1>5. ASSUME NEW low, NEW high, low < high, rows # {},
             low = IF sketchState.before > 0 /\ sketchState.cutoff = cutoff
                    THEN sketchState.before - Day ELSE OldestRow(Day),
             high = Span(low, Horizon(Day)).to
      PROVE  CountedUpTo(low) /\ Quiet(high, Day) /\ Span(low, Horizon(Day)).from = low
  <2>1. CASE sketchState.before > 0 /\ sketchState.cutoff = cutoff
    <3>1. sketchState.before \in Int /\ Aligned(sketchState.before, Day)
      BY <1>1 DEF CountedUpTo, Quiet
    <3>2. PICK u \in Int : u = sketchState.before
      BY <3>1
    <3>3. low \in Int /\ Aligned(low, Day) /\ low <= sketchState.before
      <4>1. low = u - Day /\ Aligned(u, Day) /\ Day \in Int
        BY <1>2, <1>5, <2>1, <3>1, <3>2
      <4>2. u - Day \in Int /\ u - Day <= u /\ Aligned(u - Day, Day)
        BY <1>2, <4>1, AlignedTogether
      <4> QED
        BY <3>2, <4>1, <4>2
    <3>4. Quiet(low, Day) /\ Quiet(high, Day) /\ Span(low, Horizon(Day)).from = low
      BY <1>1, <1>2, <1>5, <3>3, SpanSettles
    <3>5. ASSUME NEW d \in Starts(Day), Retained(d), d + Day <= low
          PROVE  sketched[d].ips = AddressesOf(Rows(d, d + Day))
      <4>1. d + Day <= sketchState.before
        BY <1>3, <3>1, <3>3, <3>5
      <4> QED
        BY <1>1, <3>5, <4>1 DEF CountedUpTo
    <3> QED
      BY <3>4, <3>5 DEF CountedUpTo
  <2>2. CASE ~(sketchState.before > 0 /\ sketchState.cutoff = cutoff)
    <3>1. low = OldestRow(Day)
      BY <1>5, <2>2
    <3>2. low \in Int /\ Aligned(low, Day) /\ \A r \in rows : low <= r.time
      BY <1>1, <1>2, <1>5, <3>1, OldestBegins
    <3>3. Quiet(low, Day) /\ Quiet(high, Day) /\ Span(low, Horizon(Day)).from = low
      BY <1>1, <1>2, <1>5, <3>2, SpanSettles
    <3>4. ASSUME NEW d \in Starts(Day), Retained(d), d + Day <= low
          PROVE  sketched[d].ips = AddressesOf(Rows(d, d + Day))
      <4>1. \A r \in rows : r.time \in Int
        BY <1>1 DEF RollupTypes
      <4>2. Rows(d, d + Day) = {}
        BY <1>3, <3>2, <3>4, <4>1 DEF Rows
      <4>3. sketched[d].ips \subseteq AddressesOf(Rows(d, d + Day))
        BY <1>1, <3>4 DEF NoMore
      <4> QED
        BY <4>2, <4>3 DEF AddressesOf
    <3> QED
      BY <3>3, <3>4 DEF CountedUpTo
  <2> QED
    BY <2>1, <2>2
<1>6. ASSUME rows # {} \/ rolledBefore > 0, RollupSpan.from < RollupSpan.to
      PROVE  RolledUpTo(RollupSpan.from) /\ Quiet(RollupSpan.to, Bucket)
  <2> DEFINE low == IF rolledBefore > 0 THEN rolledBefore - Recheck ELSE OldestRow(Bucket)
  <2>1. RollupSpan = Span(low, Horizon(Bucket))
    BY DEF RollupSpan
  <2>2. RollupSpan.from = low
    BY <2>1 DEF Span
  <2> HIDE DEF low
  <2>3. RolledUpTo(low) /\ Quiet(RollupSpan.to, Bucket)
    BY <1>4, <1>6, <2>1, <2>2 DEF low
  <2> QED
    BY <2>2, <2>3
<1>7. ASSUME rows # {}, SketchSpan.from < SketchSpan.to
      PROVE  CountedUpTo(SketchSpan.from) /\ Quiet(SketchSpan.to, Day)
  <2> DEFINE low == IF sketchState.before > 0 /\ sketchState.cutoff = cutoff
                     THEN sketchState.before - Day ELSE OldestRow(Day)
  <2>1. SketchSpan = Span(low, Horizon(Day))
    BY DEF SketchSpan
  <2>2. SketchSpan.from = low
    BY <2>1 DEF Span
  <2> HIDE DEF low
  <2>3. CountedUpTo(low) /\ Quiet(SketchSpan.to, Day)
    BY <1>5, <1>7, <2>1, <2>2 DEF low
  <2> QED
    BY <2>2, <2>3
<1> QED
  BY <1>6, <1>7

\* The widths, and what a refresh of whole units makes of one.
LEMMA PartsOfUnits ==
  ASSUME RollupTypes, NEW width \in {Bucket, Day}, NEW b \in Starts(width),
         NEW low, NEW high, Quiet(low, width), Quiet(high, width),
         NEW part, part = Rows(b, b + width) \cap Rows(low, high)
  PROVE  /\ part = {} \/ part = Rows(b, b + width)
         /\ b + width <= high => part = Rows(b, b + width) \/ b + width <= low
<1>1. width \in Nat \ {0} /\ \A r \in rows : r.time \in Int
  BY RollupAssumption DEF RollupTypes
<1>2. b \in Int /\ Aligned(b, width)
  BY <1>1, StartsAreAligned
<1>3. low \in Int /\ Aligned(low, width) /\ high \in Int /\ Aligned(high, width)
  BY DEF Quiet
<1>4. part = {} \/ part = Rows(b, b + width)
  BY <1>1, <1>2, <1>3, PartIsWhole
<1>5. low <= b /\ b + width <= high => part = Rows(b, b + width)
  BY <1>1, <1>2, <1>3, PartIsWhole
<1>6. b < low => b + width <= low
  BY <1>1, <1>2, <1>3, AlignedTogether
<1> QED
  BY <1>2, <1>3, <1>4, <1>5, <1>6

\* A cycle begins behind what is rolled up.
LEMMA BeginKeeps ==
  ASSUME SummaryInv, Begin
  PROVE  SummaryInv'
<1>1. /\ UNCHANGED <<time, rows, reader, rolled, sketched>>
      /\ rolledBefore' = rolledBefore /\ sketchState' = sketchState
  BY DEF Begin
<1>2. /\ NoMore' /\ \A t : RolledUpTo(t) => RolledUpTo(t)'
      /\ \A t : CountedUpTo(t) => CountedUpTo(t)'
      /\ \A t, width : Quiet(t, width) => Quiet(t, width)'
  BY <1>1, WritingKeeps
<1>3. DOMAIN rolled' = Starts(Bucket) /\ DOMAIN sketched' = Starts(Day)
  BY <1>1 DEF SummaryInv, RollupTypes
<1>4. PICK w, s : w = rolledBefore /\ s = sketchState.before
  OBVIOUS
<1>5. RolledUpTo(w)' /\ CountedUpTo(s)' /\ rolledBefore' = w /\ sketchState'.before = s
  BY <1>1, <1>2, <1>4 DEF SummaryInv, WatermarksOK
<1>6. CASE (rows # {} \/ rolledBefore > 0) /\ RollupSpan.from < RollupSpan.to
  <2>1. PICK low, high : low = RollupSpan.from /\ high = RollupSpan.to
    OBVIOUS
  <2>2. RolledUpTo(low) /\ Quiet(high, Bucket) /\ low < high
    BY <1>6, <2>1, SpansStartRight
  <2>3. cycle' = [at |-> "upsert", from |-> low, to |-> high]
    BY <1>6, <2>1 DEF Begin
  <2>4. RolledUpTo(low)' /\ Quiet(high, Bucket)'
    BY <1>2, <2>2
  <2> QED
    BY <1>1, <1>2, <1>3, <1>5, <2>2, <2>3, <2>4, CycleKeeps
<1>7. CASE ~((rows # {} \/ rolledBefore > 0) /\ RollupSpan.from < RollupSpan.to)
  <2>1. cycle' = [at |-> "prune", from |-> 0, to |-> 0]
    BY <1>7 DEF Begin, Idle
  <2> QED
    BY <1>1, <1>2, <1>3, <1>5, <2>1, CycleKeeps
<1> QED
  BY <1>6, <1>7

\* A unit that is written is that of the rows, and the ones a refresh leaves
\* have none, or are behind it.
LEMMA UpsertKeeps ==
  ASSUME SummaryInv, Upsert
  PROVE  SummaryInv'
<1>1. /\ RollupTypes /\ NoMore /\ cycle.at = "upsert"
      /\ RolledUpTo(cycle.from) /\ Quiet(cycle.to, Bucket)
  BY DEF SummaryInv, CycleOK, Upsert
<1>2. PICK low, high : low = cycle.from /\ high = cycle.to
  OBVIOUS
<1>3. /\ UNCHANGED <<time, rows, reader, sketched>>
      /\ rolledBefore' = rolledBefore /\ sketchState' = sketchState
      /\ cycle' = [at |-> "watermark", from |-> low, to |-> high]
  BY <1>1, <1>2 DEF Upsert, RollupTypes
<1>4. RolledUpTo(low) /\ Quiet(low, Bucket) /\ Quiet(high, Bucket)
  BY <1>1, <1>2 DEF RolledUpTo
<1>5. ASSUME NEW b \in Starts(Bucket)
      PROVE  /\ rolled'[b] = rolled[b] \/ rolled'[b] = Rows(b, b + Bucket)
             /\ Retained(b) /\ b + Bucket <= high => rolled'[b] = Rows(b, b + Bucket)
  <2>1. PICK part : part = Rows(b, b + Bucket) \cap Rows(low, high)
    OBVIOUS
  <2>2. rolled'[b] = IF part = {} THEN rolled[b] ELSE part
    BY <1>2, <2>1 DEF Upsert
  <2>3. /\ part = {} \/ part = Rows(b, b + Bucket)
        /\ b + Bucket <= high => part = Rows(b, b + Bucket) \/ b + Bucket <= low
    BY <1>1, <1>4, <2>1, PartsOfUnits
  <2>4. rolled'[b] = rolled[b] \/ rolled'[b] = Rows(b, b + Bucket)
    BY <2>2, <2>3
  <2>5. ASSUME Retained(b), b + Bucket <= high PROVE rolled'[b] = Rows(b, b + Bucket)
    <3>1. CASE b + Bucket <= low
      BY <1>4, <2>4, <2>5, <3>1 DEF RolledUpTo
    <3>2. CASE part = Rows(b, b + Bucket)
      <4>1. rolled[b] \subseteq Rows(b, b + Bucket)
        BY <1>1, <2>5 DEF NoMore
      <4> QED
        BY <2>2, <3>2, <4>1
    <3> QED
      BY <2>3, <2>5, <3>1, <3>2
  <2> QED
    BY <2>4, <2>5
<1>6. /\ NoMore' /\ \A t : RolledUpTo(t) => RolledUpTo(t)'
      /\ \A t : CountedUpTo(t) => CountedUpTo(t)'
      /\ \A t, width : Quiet(t, width) => Quiet(t, width)'
  BY <1>3, <1>5, WritingKeeps
<1>7. DOMAIN rolled' = Starts(Bucket) /\ DOMAIN sketched' = Starts(Day)
  BY <1>1, <1>3 DEF Upsert, RollupTypes
<1>8. PICK w, s : w = rolledBefore /\ s = sketchState.before
  OBVIOUS
<1>9. RolledUpTo(w)' /\ CountedUpTo(s)' /\ rolledBefore' = w /\ sketchState'.before = s
  BY <1>3, <1>6, <1>8 DEF SummaryInv, WatermarksOK
<1>10. RolledUpTo(high)'
  <2>1. Quiet(high, Bucket)'
    BY <1>4, <1>6
  <2>2. \A b \in Starts(Bucket) : Rows(b, b + Bucket)' = Rows(b, b + Bucket) /\ Retained(b)' = Retained(b)
    BY <1>3 DEF Rows, Retained
  <2> QED
    BY <1>5, <2>1, <2>2 DEF RolledUpTo
<1> QED
  BY <1>3, <1>6, <1>7, <1>9, <1>10, CycleKeeps

\* A watermark goes to where the cycle has written, or stays.
LEMMA WatermarkKeeps ==
  ASSUME SummaryInv, Watermark
  PROVE  SummaryInv'
<1>1. /\ RollupTypes /\ RolledUpTo(cycle.to) /\ RolledUpTo(rolledBefore)
  BY DEF SummaryInv, CycleOK, WatermarksOK, Watermark
<1>2. /\ UNCHANGED <<time, rows, reader, rolled, sketched>>
      /\ sketchState' = sketchState /\ cycle' = [at |-> "prune", from |-> 0, to |-> 0]
  BY DEF Watermark, Idle
<1>3. /\ NoMore' /\ \A t : RolledUpTo(t) => RolledUpTo(t)'
      /\ \A t : CountedUpTo(t) => CountedUpTo(t)'
  BY <1>2, WritingKeeps
<1>4. DOMAIN rolled' = Starts(Bucket) /\ DOMAIN sketched' = Starts(Day)
  BY <1>1, <1>2 DEF RollupTypes
<1>5. PICK w, s : w = rolledBefore' /\ s = sketchState.before
  OBVIOUS
<1>6. RolledUpTo(w)
  <2>1. rolledBefore \in Int /\ cycle.to \in Int
    BY <1>1 DEF RolledUpTo, Quiet
  <2>2. w = rolledBefore \/ w = cycle.to
    BY <1>5, <2>1 DEF Watermark, Max
  <2> QED
    BY <1>1, <2>2
<1>7. RolledUpTo(w)' /\ CountedUpTo(s)' /\ sketchState'.before = s
  BY <1>2, <1>3, <1>5, <1>6 DEF SummaryInv, WatermarksOK
<1> QED
  BY <1>2, <1>3, <1>4, <1>5, <1>7, CycleKeeps

\* What is dropped is older than the retention, and the sketches begin behind
\* what they count.
LEMMA PruneKeeps ==
  ASSUME SummaryInv, Prune
  PROVE  SummaryInv'
<1>1. RollupTypes
  BY DEF SummaryInv
<1>2. /\ UNCHANGED <<time, rows, reader, sketched>>
      /\ rolledBefore' = rolledBefore /\ sketchState' = sketchState
  BY DEF Prune
<1>3. ASSUME NEW b \in Starts(Bucket), Retained(b) PROVE rolled'[b] = rolled[b]
  <2>1. Down(time - Keep, Bucket) \in Int /\ Down(time - Keep, Bucket) <= time - Keep
    BY <1>1, DownIsWhole, RollupAssumption DEF RollupTypes
  <2>2. b \in Int /\ time - Keep \in Int
    BY <1>1, StartsAreAligned, RollupAssumption DEF RollupTypes
  <2>3. ~(b < PruneBefore(Bucket))
    BY <1>3, <2>1, <2>2 DEF PruneBefore, Retained
  <2> QED
    BY <2>3 DEF Prune
<1>4. /\ NoMore' /\ \A t : RolledUpTo(t) => RolledUpTo(t)'
      /\ \A t : CountedUpTo(t) => CountedUpTo(t)'
      /\ \A t, width : Quiet(t, width) => Quiet(t, width)'
  BY <1>2, <1>3, WritingKeeps
<1>5. DOMAIN rolled' = Starts(Bucket) /\ DOMAIN sketched' = Starts(Day)
  BY <1>1, <1>2 DEF Prune, RollupTypes
<1>6. PICK w, s : w = rolledBefore /\ s = sketchState.before
  OBVIOUS
<1>7. RolledUpTo(w)' /\ CountedUpTo(s)' /\ rolledBefore' = w /\ sketchState'.before = s
  BY <1>2, <1>4, <1>6 DEF SummaryInv, WatermarksOK
<1>8. CASE rows # {} /\ SketchSpan.from < SketchSpan.to
  <2>1. PICK low, high : low = SketchSpan.from /\ high = SketchSpan.to
    OBVIOUS
  <2>2. CountedUpTo(low) /\ Quiet(high, Day) /\ low < high
    BY <1>8, <2>1, SpansStartRight
  <2>3. cycle' = [at |-> "sketch", from |-> low, to |-> high]
    BY <1>8, <2>1 DEF Prune
  <2>4. CountedUpTo(low)' /\ Quiet(high, Day)'
    BY <1>4, <2>2
  <2> QED
    BY <1>2, <1>4, <1>5, <1>7, <2>2, <2>3, <2>4, CycleKeeps
<1>9. CASE ~(rows # {} /\ SketchSpan.from < SketchSpan.to)
  <2>1. cycle' = [at |-> "sketch prune", from |-> 0, to |-> 0]
    BY <1>9 DEF Prune, Idle
  <2>2. PICK place : cycle' = [at |-> place, from |-> 0, to |-> 0]
                  /\ place # "upsert" /\ place # "watermark" /\ place # "sketch" /\ place # "state"
    BY <2>1, Zenon
  <2> QED
    BY <1>2, <1>4, <1>5, <1>7, <2>2, CycleKeeps
<1> QED
  BY <1>8, <1>9

\* A day that is written counts the addresses of its rows, and the ones a
\* refresh leaves have none, or are behind it.
LEMMA SketchUpsertKeeps ==
  ASSUME SummaryInv, SketchUpsert
  PROVE  SummaryInv'
<1>1. /\ RollupTypes /\ NoMore /\ cycle.at = "sketch"
      /\ CountedUpTo(cycle.from) /\ Quiet(cycle.to, Day)
  BY DEF SummaryInv, CycleOK, SketchUpsert
<1>2. PICK low, high : low = cycle.from /\ high = cycle.to
  OBVIOUS
<1>3. /\ UNCHANGED <<time, rows, reader, rolled>>
      /\ rolledBefore' = rolledBefore /\ sketchState' = sketchState
      /\ cycle' = [at |-> "state", from |-> low, to |-> high]
  BY <1>1, <1>2 DEF SketchUpsert, RollupTypes
<1>4. CountedUpTo(low) /\ Quiet(low, Day) /\ Quiet(high, Day)
  BY <1>1, <1>2 DEF CountedUpTo
<1>5. ASSUME NEW d \in Starts(Day)
      PROVE  /\ \/ sketched'[d].ips = sketched[d].ips
                \/ sketched'[d].ips = AddressesOf(Rows(d, d + Day))
             /\ Retained(d) /\ d + Day <= high => sketched'[d].ips = AddressesOf(Rows(d, d + Day))
  <2>1. PICK part : part = Rows(d, d + Day) \cap Rows(low, high)
    OBVIOUS
  <2>2. sketched'[d].ips = IF part = {} THEN sketched[d].ips ELSE AddressesOf(part)
    BY <1>2, <2>1 DEF SketchUpsert
  <2>3. /\ part = {} \/ part = Rows(d, d + Day)
        /\ d + Day <= high => part = Rows(d, d + Day) \/ d + Day <= low
    BY <1>1, <1>4, <2>1, PartsOfUnits
  <2>4. \/ sketched'[d].ips = sketched[d].ips
        \/ sketched'[d].ips = AddressesOf(Rows(d, d + Day))
    BY <2>2, <2>3
  <2>5. ASSUME Retained(d), d + Day <= high PROVE sketched'[d].ips = AddressesOf(Rows(d, d + Day))
    <3>1. CASE d + Day <= low
      BY <1>4, <2>4, <2>5, <3>1 DEF CountedUpTo
    <3>2. CASE part = Rows(d, d + Day)
      <4>1. sketched[d].ips \subseteq AddressesOf(Rows(d, d + Day))
        BY <1>1, <2>5 DEF NoMore
      <4>2. AddressesOf({}) = {}
        BY DEF AddressesOf
      <4> QED
        BY <2>2, <3>2, <4>1, <4>2
    <3> QED
      BY <2>3, <2>5, <3>1, <3>2
  <2> QED
    BY <2>4, <2>5
<1>6. /\ NoMore' /\ \A t : RolledUpTo(t) => RolledUpTo(t)'
      /\ \A t : CountedUpTo(t) => CountedUpTo(t)'
      /\ \A t, width : Quiet(t, width) => Quiet(t, width)'
  BY <1>3, <1>5, WritingKeeps
<1>7. DOMAIN rolled' = Starts(Bucket) /\ DOMAIN sketched' = Starts(Day)
  BY <1>1, <1>3 DEF SketchUpsert, RollupTypes
<1>8. PICK w, s : w = rolledBefore /\ s = sketchState.before
  OBVIOUS
<1>9. RolledUpTo(w)' /\ CountedUpTo(s)' /\ rolledBefore' = w /\ sketchState'.before = s
  BY <1>3, <1>6, <1>8 DEF SummaryInv, WatermarksOK
<1>10. CountedUpTo(high)'
  <2>1. Quiet(high, Day)'
    BY <1>4, <1>6
  <2>2. \A d \in Starts(Day) : /\ AddressesOf(Rows(d, d + Day))' = AddressesOf(Rows(d, d + Day))
                              /\ Retained(d)' = Retained(d)
    BY <1>3 DEF Rows, Retained, AddressesOf
  <2> QED
    BY <1>5, <2>1, <2>2 DEF CountedUpTo
<1> QED
  BY <1>3, <1>6, <1>7, <1>9, <1>10, CycleKeeps

\* The state row goes to where the cycle has counted, forward or back.
LEMMA SketchWatermarkKeeps ==
  ASSUME SummaryInv, SketchWatermark
  PROVE  SummaryInv'
<1>1. RollupTypes /\ CountedUpTo(cycle.to) /\ CountedUpTo(sketchState.before)
  BY DEF SummaryInv, CycleOK, WatermarksOK, SketchWatermark
<1>2. /\ UNCHANGED <<time, rows, reader, rolled, sketched>>
      /\ rolledBefore' = rolledBefore /\ cycle' = [at |-> "sketch prune", from |-> 0, to |-> 0]
  BY DEF SketchWatermark, Idle
<1>3. /\ NoMore' /\ \A t : RolledUpTo(t) => RolledUpTo(t)'
      /\ \A t : CountedUpTo(t) => CountedUpTo(t)'
  BY <1>2, WritingKeeps
<1>4. DOMAIN rolled' = Starts(Bucket) /\ DOMAIN sketched' = Starts(Day)
  BY <1>1, <1>2 DEF RollupTypes
<1>5. PICK w, s : w = rolledBefore /\ s = sketchState'.before
  OBVIOUS
<1>6. s = sketchState.before \/ s = cycle.to
  BY <1>5 DEF SketchWatermark
<1>7. RolledUpTo(w)' /\ CountedUpTo(s)' /\ rolledBefore' = w
  BY <1>1, <1>2, <1>3, <1>5, <1>6 DEF SummaryInv, WatermarksOK
<1>8. PICK place : cycle' = [at |-> place, from |-> 0, to |-> 0]
                /\ place # "upsert" /\ place # "watermark" /\ place # "sketch" /\ place # "state"
  BY <1>2, Zenon
<1> QED
  BY <1>2, <1>3, <1>4, <1>5, <1>7, <1>8, CycleKeeps

\* A day that is dropped is older than the retention.
LEMMA SketchPruneKeeps ==
  ASSUME SummaryInv, SketchPrune
  PROVE  SummaryInv'
<1>1. RollupTypes
  BY DEF SummaryInv
<1>2. /\ UNCHANGED <<time, rows, reader, rolled>> /\ rolledBefore' = rolledBefore
      /\ sketchState' = sketchState /\ cycle' = [at |-> "idle", from |-> 0, to |-> 0]
  BY DEF SketchPrune, Idle
<1>3. ASSUME NEW d \in Starts(Day), Retained(d) PROVE sketched'[d] = sketched[d]
  <2>1. Down(time - Keep, Day) \in Int /\ Down(time - Keep, Day) <= time - Keep
    BY <1>1, DownIsWhole, RollupAssumption DEF RollupTypes
  <2>2. d \in Int /\ time - Keep \in Int
    BY <1>1, StartsAreAligned, RollupAssumption DEF RollupTypes
  <2>3. ~(d < PruneBefore(Day))
    BY <1>3, <2>1, <2>2 DEF PruneBefore, Retained
  <2> QED
    BY <2>3 DEF SketchPrune
<1>4. /\ NoMore' /\ \A t : RolledUpTo(t) => RolledUpTo(t)'
      /\ \A t : CountedUpTo(t) => CountedUpTo(t)'
  BY <1>2, <1>3, WritingKeeps
<1>5. DOMAIN rolled' = Starts(Bucket) /\ DOMAIN sketched' = Starts(Day)
  BY <1>1, <1>2 DEF SketchPrune, RollupTypes
<1>6. PICK w, s : w = rolledBefore /\ s = sketchState.before
  OBVIOUS
<1>7. RolledUpTo(w)' /\ CountedUpTo(s)' /\ rolledBefore' = w /\ sketchState'.before = s
  BY <1>2, <1>4, <1>6 DEF SummaryInv, WatermarksOK
<1> QED
  BY <1>2, <1>4, <1>5, <1>7, CycleKeeps

\* The summaries begin empty, before every watermark.
LEMMA SummariesStart ==
  ASSUME RollupInit
  PROVE  SummaryInv
<1>1. Bucket \in Nat \ {0} /\ Day \in Nat \ {0} /\ LastTime \in Nat
  BY RollupAssumption
<1>2. RollupTypes
  BY <1>1, FS_EmptySet DEF RollupInit, RollupTypes, Idle, NoReader
<1>3. Quiet(0, Bucket) /\ Quiet(0, Day)
  BY <1>1, Roundings DEF Quiet
<1>4. /\ \A b \in Starts(Bucket) : ~(b + Bucket <= 0)
      /\ \A d \in Starts(Day) : ~(d + Day <= 0)
  BY <1>1, StartsAreAligned
<1>5. RolledUpTo(0) /\ CountedUpTo(0)
  BY <1>3, <1>4 DEF RolledUpTo, CountedUpTo
<1>6. NoMore
  BY DEF RollupInit, NoMore, NoVisitors
<1>7. WatermarksOK /\ CycleOK
  BY <1>5 DEF RollupInit, WatermarksOK, CycleOK, NoState, NoReader, Idle
<1> QED
  BY <1>2, <1>6, <1>7 DEF SummaryInv

\* The summaries hold what they claim.
LEMMA SummariesKept == RollupSpec => []SummaryInv
<1>1. ASSUME SummaryInv, [RollupNext]_rollupVars PROVE SummaryInv'
  BY <1>1, AroundKeeps, BeginKeeps, UpsertKeeps, WatermarkKeeps, PruneKeeps,
     SketchUpsertKeeps, SketchWatermarkKeeps, SketchPruneKeeps DEF RollupNext, Around
<1> QED
  BY <1>1, SummariesStart, PTL DEF RollupSpec

-----------------------------------------------------------------------------
(* What a request makes of them.                                           *)

\* The rows of the units between two aligned times are those between the times.
LEMMA UnitsCover ==
  ASSUME RollupTypes, NEW width \in {Bucket, Day}, NEW start \in Int, NEW stop \in Int,
         Aligned(start, width), Aligned(stop, width),
         NEW units, units = {x \in Starts(width) : start <= x /\ x < stop}
  PROVE  /\ \A b \in units : start <= b /\ b + width <= stop
         /\ \A b \in units : Rows(b, b + width) \subseteq Rows(start, stop)
         /\ \A r \in Rows(start, stop) : \E b \in units : r \in Rows(b, b + width)
<1>1. width \in Nat \ {0} /\ \A r \in rows : r.time \in 0..LastTime /\ r.time \in Int
  BY RollupAssumption DEF RollupTypes
<1>2. ASSUME NEW b \in units PROVE b \in Int /\ start <= b /\ b + width <= stop
  BY <1>1, <1>2, StartsAreAligned, AlignedTogether
<1>3. ASSUME NEW b \in units PROVE Rows(b, b + width) \subseteq Rows(start, stop)
  <2>1. b \in Int /\ start <= b /\ b + width <= stop
    BY <1>2, <1>3
  <2> QED
    BY <1>1, <2>1 DEF Rows
<1>4. ASSUME NEW r \in Rows(start, stop) PROVE \E b \in units : r \in Rows(b, b + width)
  <2>1. r \in rows /\ r.time \in 0..LastTime /\ r.time \in Int /\ start <= r.time /\ r.time < stop
    BY <1>1, <1>4 DEF Rows
  <2>2. PICK b : b = Down(r.time, width)
    OBVIOUS
  <2>3. b \in Int /\ b <= r.time /\ r.time < b + width /\ Aligned(b, width)
    BY <1>1, <2>1, <2>2, DownIsWhole, Roundings
  <2>4. b \in Starts(width)
    BY <2>1, <2>2 DEF Starts
  <2>5. b < start => b + width <= start
    BY <1>1, <2>3, AlignedTogether
  <2>6. start <= b /\ b < stop
    BY <1>1, <2>1, <2>3, <2>5
  <2> QED
    BY <2>1, <2>3, <2>4, <2>6 DEF Rows
<1> QED
  BY <1>2, <1>3, <1>4

\* What a summary claims of a range begins and ends in it, where units do, and
\* no later than its watermark.
LEMMA ClaimedIsWhole ==
  ASSUME NEW width \in Nat \ {0}, NEW low \in Int, NEW high \in Int, NEW watermark \in Int,
         NEW c, c = Claimed(low, high, watermark, width)
  PROVE  /\ c.start \in Int /\ c.stop \in Int
         /\ Aligned(c.start, width) /\ Aligned(c.stop, width)
         /\ low <= c.start /\ c.stop <= high /\ c.stop <= watermark
<1>1. PICK least : least = Min({high, watermark})
  OBVIOUS
<1>2. least \in Int /\ least <= high /\ least <= watermark
  BY <1>1 DEF Min
<1>3. c.start = Up(low, width) /\ c.stop = Down(least, width)
  BY <1>1 DEF Claimed
<1>4. /\ Up(low, width) \in Int /\ Aligned(Up(low, width), width) /\ low <= Up(low, width)
      /\ Down(least, width) \in Int /\ Down(least, width) <= least
      /\ Aligned(Down(least, width), width)
  BY <1>2, DownIsWhole, Roundings
<1> QED
  BY <1>2, <1>3, <1>4

\* The figures are those of the raw rows.
LEMMA SummedIsExact ==
  ASSUME SummaryInv, NEW low \in Int, NEW high \in Int, Retained(low),
         NEW watermark, RolledUpTo(watermark)
  PROVE  Summed(low, high, watermark) = Rows(low, high)
<1>1. RollupTypes /\ watermark \in Int
  BY DEF SummaryInv, RolledUpTo, Quiet
<1>2. PICK c : c = Claimed(low, high, watermark, Bucket)
  OBVIOUS
<1>3. PICK start, stop : start = c.start /\ stop = c.stop
  OBVIOUS
<1>4. /\ start \in Int /\ stop \in Int /\ Aligned(start, Bucket) /\ Aligned(stop, Bucket)
      /\ low <= start /\ stop <= high /\ stop <= watermark
  BY <1>1, <1>2, <1>3, ClaimedIsWhole, RollupAssumption
<1>5. PICK units : units = {x \in Starts(Bucket) : start <= x /\ x < stop}
  OBVIOUS
<1>6. /\ \A b \in units : start <= b /\ b + Bucket <= stop
      /\ \A b \in units : Rows(b, b + Bucket) \subseteq Rows(start, stop)
      /\ \A r \in Rows(start, stop) : \E b \in units : r \in Rows(b, b + Bucket)
  BY <1>1, <1>4, <1>5, UnitsCover
<1>7. ASSUME NEW b \in units PROVE rolled[b] = Rows(b, b + Bucket)
  <2>1. b \in Starts(Bucket) /\ start <= b /\ b + Bucket <= stop
    BY <1>5, <1>6, <1>7
  <2>2. b \in Nat /\ b + Bucket \in Int /\ time - Keep \in Int
    BY <1>1, <2>1, StartsAreAligned, RollupAssumption DEF RollupTypes
  <2>3. Retained(b) /\ b + Bucket <= watermark
    BY <1>1, <1>4, <2>1, <2>2 DEF Retained
  <2> QED
    BY <2>1, <2>3 DEF RolledUpTo
<1>8. UNION {rolled[b] : b \in units} = Rows(start, stop)
  BY <1>6, <1>7
<1>9. CASE start >= stop
  BY <1>2, <1>3, <1>9 DEF Summed
<1>10. CASE ~(start >= stop)
  <2>1. Summed(low, high, watermark) =
          Rows(low, start) \cup Rows(stop, high) \cup UNION {rolled[b] : b \in units}
    BY <1>2, <1>3, <1>5, <1>10 DEF Summed
  <2>2. \A r \in rows : r.time \in Int
    BY <1>1 DEF RollupTypes
  <2>3. Rows(low, high) = Rows(low, start) \cup Rows(stop, high) \cup Rows(start, stop)
    BY <1>4, <1>10, <2>2 DEF Rows
  <2> QED
    BY <1>8, <2>1, <2>3
<1> QED
  BY <1>9, <1>10

\* The visitors are those of the raw rows.
LEMMA VisitorsAreExact ==
  ASSUME SummaryInv, NEW low \in Int, NEW high \in Int, Retained(low),
         NEW state, CountedUpTo(state.before), NEW least
  PROVE  Visitors(low, high, state, least).ips = AddressesOf(Rows(low, high))
<1>0. PICK watermark : watermark = state.before
  OBVIOUS
<1>1. RollupTypes /\ watermark \in Int /\ CountedUpTo(watermark)
  BY <1>0 DEF SummaryInv, CountedUpTo, Quiet
<1>2. PICK c : c = Claimed(low, high, watermark, Day)
  OBVIOUS
<1>3. PICK start, stop : start = c.start /\ stop = c.stop
  OBVIOUS
<1>4. /\ start \in Int /\ stop \in Int /\ Aligned(start, Day) /\ Aligned(stop, Day)
      /\ low <= start /\ stop <= high /\ stop <= watermark
  BY <1>1, <1>2, <1>3, ClaimedIsWhole, RollupAssumption
<1>5. PICK units : units = {x \in Starts(Day) : start <= x /\ x < stop}
  OBVIOUS
<1>6. /\ \A d \in units : start <= d /\ d + Day <= stop
      /\ \A d \in units : Rows(d, d + Day) \subseteq Rows(start, stop)
      /\ \A r \in Rows(start, stop) : \E d \in units : r \in Rows(d, d + Day)
  BY <1>1, <1>4, <1>5, UnitsCover
<1>7. ASSUME NEW d \in units PROVE sketched[d].ips = AddressesOf(Rows(d, d + Day))
  <2>1. d \in Starts(Day) /\ start <= d /\ d + Day <= stop
    BY <1>5, <1>6, <1>7
  <2>2. d \in Nat /\ d + Day \in Int /\ time - Keep \in Int
    BY <1>1, <2>1, StartsAreAligned, RollupAssumption DEF RollupTypes
  <2>3. Retained(d) /\ d + Day <= watermark
    BY <1>1, <1>4, <2>1, <2>2 DEF Retained
  <2> QED
    BY <1>1, <2>1, <2>3 DEF CountedUpTo
<1>8. UNION {s.ips : s \in {sketched[d] : d \in units}} = AddressesOf(Rows(start, stop))
  <2>1. UNION {s.ips : s \in {sketched[d] : d \in units}} =
          UNION {sketched[d].ips : d \in units}
    OBVIOUS
  <2> QED
    BY <1>6, <1>7, <2>1 DEF AddressesOf
<1>9. CASE start >= stop \/ ~Usable(state, least)
  BY <1>0, <1>2, <1>3, <1>9 DEF Visitors
<1>10. CASE ~(start >= stop \/ ~Usable(state, least))
  <2>1. Visitors(low, high, state, least).ips =
          AddressesOf(Rows(low, start) \cup Rows(stop, high))
          \cup UNION {s.ips : s \in {sketched[d] : d \in units}}
    BY <1>0, <1>2, <1>3, <1>5, <1>10 DEF Visitors
  <2>2. \A r \in rows : r.time \in Int
    BY <1>1 DEF RollupTypes
  <2>3. Rows(low, high) = Rows(low, start) \cup Rows(stop, high) \cup Rows(start, stop)
    BY <1>4, <1>10, <2>2 DEF Rows
  <2> QED
    BY <1>8, <2>1, <2>3 DEF AddressesOf
<1> QED
  BY <1>9, <1>10

\* A request that has read a watermark is answered with what the raw rows say,
\* whatever refreshes, prunes, kills and drops of chunks came since.
THEOREM SummariesAreExact == RollupSpec => []SummaryIsExact
<1>1. ASSUME SummaryInv PROVE SummaryIsExact
  <2>1. RollupTypes /\ time \in Int /\ Keep \in Nat
    BY <1>1, RollupAssumption DEF SummaryInv, RollupTypes
  <2>2. ASSUME NEW r \in Ranges PROVE r[1] \in Int /\ r[2] \in Int /\ Retained(r[1])
    <3>1. PICK least : least = Max({0, time - Keep})
      OBVIOUS
    <3>2. least \in Int /\ time - Keep <= least
      BY <2>1, <3>1 DEF Max
    <3>3. r[1] \in least..time /\ r[2] \in 0..(time + 1)
      BY <2>2, <3>1 DEF Ranges
    <3> QED
      BY <2>1, <3>2, <3>3 DEF Retained
  <2>3. /\ reader.at = "sum" => RolledUpTo(reader.before)
        /\ reader.at = "count" => CountedUpTo(reader.state.before)
    BY <1>1 DEF SummaryInv, WatermarksOK
  <2>4. ASSUME NEW r \in Ranges, reader.at = "sum"
        PROVE  Summed(r[1], r[2], reader.before) = Rows(r[1], r[2])
    BY <1>1, <2>2, <2>3, <2>4, SummedIsExact
  <2>5. ASSUME NEW r \in Ranges, reader.at = "count", NEW c \in Cutoffs
        PROVE  Visitors(r[1], r[2], reader.state, c).ips = AddressesOf(Rows(r[1], r[2]))
    BY <1>1, <2>2, <2>3, <2>5, VisitorsAreExact
  <2> QED
    BY <2>4, <2>5 DEF SummaryIsExact
<1> QED
  BY <1>1, SummariesKept, PTL

-----------------------------------------------------------------------------
(* From a request to a row: the flusher and the pause.                     *)

\* Every step of the collector is one of its store, or leaves the store alone.
LEMMA StoreSteps == [Next]_vars => [StoreNext]_storeVars
<1>1. ASSUME NEW r \in Requests, Arrive(r) \/ Recorded(r) PROVE StoreNext
  BY <1>1 DEF Arrive, Recorded, StoreNext
<1>2. CASE FlusherStep
  BY <1>2 DEF FlusherStep, FlushTick, FinalFlush, TakeSnapshot, CheckRow, StartWrite, FlushDone
<1>3. ASSUME NEW end \in 0..(MaxTime + 1), NEW n \in 0..MaxTime, SetUntil(end, n)
      PROVE  UNCHANGED storeVars
  BY <1>3 DEF SetUntil
<1>4. CASE Cancel \/ ServerReturns \/ ServeFails
  BY <1>4 DEF Cancel, ServerReturns, ServeFails
<1>5. CASE Exit \/ SweepIdle \/ ClockTick
  BY <1>5 DEF Exit, SweepIdle, ClockTick, StoreNext
<1>6. CASE UNCHANGED vars
  BY <1>6 DEF vars
<1> QED
  BY <1>1, <1>2, <1>3, <1>4, <1>5, <1>6 DEF Next

\* A fresh address that still has an entry is due, or late.
DueOrLate ==
  \A a \in fresh : a \in DOMAIN states => a \in late \/ Due(states[a].lastSeen)

\* The flusher's variables, and what it takes from the store, in the order of
\* the clock.
FlushTypes == since \in Int /\ flushNow \in Int /\ fpc \in {"select", "snap", "check", "write", "done"}

FlushInv == StoreInv /\ FlushTypes /\ DueOrLate

\* A step that changes neither the store nor the flusher.
LEMMA FlushUntouched ==
  ASSUME FlushTypes, DueOrLate, UNCHANGED <<states, fpc, since, flushNow, final, fresh, late>>
  PROVE  FlushTypes' /\ DueOrLate'
  BY DEF FlushTypes, DueOrLate, Due, Taken

\* Every step of a request, of the flusher and of the sweep.
LEMMA FlushKeeps == FlushInv /\ [Next]_vars => FlushInv'
<1> SUFFICES ASSUME FlushInv, [Next]_vars PROVE FlushTypes' /\ DueOrLate'
  BY StoreSteps, StoreKeeps DEF FlushInv
<1>0. StoreInv /\ FlushTypes /\ DueOrLate
  BY DEF FlushInv
<1>1. ASSUME NEW r \in Requests, Arrive(r) PROVE FlushTypes' /\ DueOrLate'
  BY <1>0, <1>1, FlushUntouched DEF Arrive, Stamp, flushVars
<1>2. ASSUME NEW r \in Requests, Recorded(r) PROVE FlushTypes' /\ DueOrLate'
  <2>1. /\ DOMAIN states' = DOMAIN states \union {from[r]}
        /\ states'[from[r]].lastSeen = at[r]
        /\ \A b \in DOMAIN states : b # from[r] => states'[b] = states[b]
    BY <1>2 DEF Recorded, Record, RecordRequest
  <2>2. /\ UNCHANGED <<fpc, since, flushNow, final>>
        /\ fresh' = fresh \union {from[r]}
        /\ late' = IF Due(at[r]) THEN late ELSE late \union {from[r]}
    BY <1>2 DEF Recorded, flushVars
  <2>3. \A t : Due(t)' <=> Due(t')
    BY <2>2 DEF Due, Taken
  <2>4. DueOrLate'
    <3> SUFFICES ASSUME NEW a \in fresh', a \in DOMAIN states', a \notin late'
                 PROVE  Due(states[a].lastSeen)'
      BY DEF DueOrLate
    <3>1. CASE a = from[r]
      BY <2>1, <2>2, <3>1 DEF Due, Taken
    <3>2. CASE a # from[r]
      BY <1>0, <2>1, <2>2, <3>2 DEF DueOrLate, Due, Taken
    <3> QED
      BY <3>1, <3>2
  <2> QED
    BY <1>0, <2>2, <2>4 DEF FlushTypes
<1>3. CASE FlushTick \/ FinalFlush
  BY <1>0, <1>3 DEF FlushTick, FinalFlush, storeVars, StoreInv, StampsOK, FlushTypes, DueOrLate, Due, Taken
<1>4. CASE TakeSnapshot
  <2>1. \A a \in fresh' : a \in DOMAIN states => a \in late'
    BY <1>0, <1>4 DEF TakeSnapshot, DueOrLate, Due, Taken, Snapshot
  <2> QED
    BY <1>0, <1>4, <2>1 DEF TakeSnapshot, storeVars, FlushTypes, DueOrLate
<1>5. ASSUME NEW row \in batch, CheckRow(row) PROVE FlushTypes' /\ DueOrLate'
  BY <1>0, <1>5, FlushUntouched DEF CheckRow, storeVars
<1>6. CASE StartWrite
  BY <1>0, <1>6 DEF StartWrite, storeVars, FlushTypes, DueOrLate, Due, Taken
<1>7. CASE FlushDone
  BY <1>0, <1>7 DEF FlushDone, storeVars, FlushTypes, DueOrLate, Due, Taken
<1>8. ASSUME NEW end \in 0..(MaxTime + 1), NEW n \in 0..MaxTime, SetUntil(end, n)
      PROVE  FlushTypes' /\ DueOrLate'
  BY <1>0, <1>8, FlushUntouched DEF SetUntil, storeVars, flushVars
<1>9. CASE Cancel \/ ServerReturns \/ ServeFails
  BY <1>0, <1>9, FlushUntouched DEF Cancel, ServerReturns, ServeFails, storeVars, flushVars
<1>10. CASE Exit \/ ClockTick
  BY <1>0, <1>10, FlushUntouched DEF Exit, Close, ClockTick, Tick, flushVars
<1>11. CASE SweepIdle
  <2>1. PICK t \in 0..MaxTime : Sweep(t)
    BY <1>11 DEF SweepIdle
  <2>2. DOMAIN states' \subseteq DOMAIN states /\ \A a \in DOMAIN states' : states'[a] = states[a]
    BY <2>1 DEF Sweep
  <2> QED
    BY <1>0, <1>11, <2>2 DEF SweepIdle, flushVars, FlushTypes, DueOrLate, Due, Taken
<1>12. CASE UNCHANGED vars
  BY <1>0, <1>12, FlushUntouched DEF vars, storeVars, flushVars
<1> QED
  BY <1>1, <1>2, <1>3, <1>4, <1>5, <1>6, <1>7, <1>8, <1>9, <1>10, <1>11, <1>12 DEF Next, FlusherStep

\* flushOnce's since-filter: a recorded request that no flush has taken is
\* taken by the next one, was recorded after that one had passed its address,
\* or is older than the TTL.
THEOREM OnlyTheLateAreSkipped == Spec => []SkippedOnlyIfLate
<1>1. Init => FlushInv
  BY StoreStarts DEF Init, FlushInv, FlushTypes, DueOrLate
<1>2. FlushInv => SkippedOnlyIfLate
  <2> SUFFICES ASSUME FlushInv, NEW a \in fresh, a \notin DOMAIN states
               PROVE  RecordedSince(a, clock - (IdleTTL - MaxLag)) = {}
    BY DEF FlushInv, DueOrLate, SkippedOnlyIfLate
  <2> QED
    BY StoreAssumption DEF FlushInv, StoreInv, StampsOK, ForgottenOK, RecordedSince
<1> QED
  BY <1>1, <1>2, FlushKeeps, PTL DEF Spec

\* The span in the pause, what was heard last and what is to be checked.
PauseTypes ==
  /\ pauseFrom \in Int /\ pauseUntil \in Int /\ begun \in Int
  /\ heard \in Int /\ begun <= heard /\ pauseFrom <= heard
  /\ \A row \in batch : row.seen \in 0..MaxTime
  /\ \A a \in DOMAIN states : states[a].lastSeen \in 0..MaxTime

\* What the span covers is paused, and from the time the latest pause began
\* it covers all that is.
SpanIsExact ==
  \A t \in 0..MaxTime :
    /\ Holds(t) => t \in paused
    /\ t \in paused /\ t >= begun => Holds(t)

PauseInv == StoreInv /\ PauseTypes /\ SpanIsExact /\ PauseIsExact

\* A settings poll moves the span, begins a pause, lifts it, or does nothing.
LEMMA SpanMoves ==
  ASSUME NEW end \in 0..(MaxTime + 1), NEW n \in 0..MaxTime, SetUntil(end, n),
         PauseTypes, SpanIsExact
  PROVE  PauseTypes' /\ SpanIsExact'
<1> USE DEF PauseTypes
<1>1. /\ n >= heard /\ heard' = n /\ n \in Int /\ end \in Int
      /\ \A t \in 0..MaxTime : t \in paused' <=> IF t < n THEN t \in paused ELSE t < end
      /\ begun' = IF end > n /\ n \notin paused THEN n ELSE begun
      /\ UNCHANGED <<batch, states>>
  BY DEF SetUntil, storeVars, flushVars
<1>2. SetSpan(end, n)
  BY DEF SetUntil
<1>3. n \in paused <=> n < pauseUntil
  BY <1>1 DEF SpanIsExact, Holds
<1>4. CASE end > n /\ n < pauseUntil
  <2>1. pauseUntil' = end /\ pauseFrom' = pauseFrom /\ begun' = begun
    BY <1>1, <1>2, <1>3, <1>4 DEF SetSpan
  <2> QED
    BY <1>1, <1>4, <2>1 DEF SpanIsExact, Holds
<1>5. CASE end > n /\ ~(n < pauseUntil)
  <2>1. pauseUntil' = end /\ pauseFrom' = n /\ begun' = n
    BY <1>1, <1>2, <1>3, <1>5 DEF SetSpan
  <2> QED
    BY <1>1, <1>5, <2>1 DEF SpanIsExact, Holds
<1>6. CASE ~(end > n) /\ n < pauseUntil
  <2>1. pauseUntil' = n /\ pauseFrom' = pauseFrom /\ begun' = begun
    BY <1>1, <1>2, <1>6 DEF SetSpan
  <2> QED
    BY <1>1, <1>6, <2>1 DEF SpanIsExact, Holds
<1>7. CASE ~(end > n) /\ ~(n < pauseUntil)
  <2>1. UNCHANGED <<pauseUntil, pauseFrom>> /\ begun' = begun
    BY <1>1, <1>2, <1>7 DEF SetSpan
  <2> QED
    BY <1>1, <1>7, <2>1 DEF SpanIsExact, Holds
<1> QED
  BY <1>4, <1>5, <1>6, <1>7

\* A step that leaves the pause alone, and takes no row that has no time.
LEMMA PauseUntouched ==
  ASSUME PauseTypes, SpanIsExact, PauseIsExact, UNCHANGED <<pauseVars, verdicts>>,
         \A row \in batch' : row.seen \in 0..MaxTime,
         \A a \in DOMAIN states' : states'[a].lastSeen \in 0..MaxTime
  PROVE  PauseTypes' /\ SpanIsExact' /\ PauseIsExact'
  BY DEF PauseTypes, SpanIsExact, PauseIsExact, Holds, pauseVars

\* Every step of the flusher and of a poll.
LEMMA PauseKeeps == PauseInv /\ [Next]_vars => PauseInv'
<1> SUFFICES ASSUME PauseInv, [Next]_vars PROVE PauseTypes' /\ SpanIsExact' /\ PauseIsExact'
  BY StoreSteps, StoreKeeps DEF PauseInv
<1>0. PauseTypes /\ SpanIsExact /\ PauseIsExact /\ StoreInv /\ StoreInv'
  BY StoreSteps, StoreKeeps DEF PauseInv
<1>a. /\ \A row \in batch : row.seen \in 0..MaxTime
      /\ \A a \in DOMAIN states' : states'[a].lastSeen \in 0..MaxTime
  BY <1>0 DEF PauseTypes, StoreInv, EntriesOK
<1>1. ASSUME NEW r \in Requests, Arrive(r) \/ Recorded(r)
      PROVE  PauseTypes' /\ SpanIsExact' /\ PauseIsExact'
  BY <1>0, <1>a, <1>1, PauseUntouched DEF Arrive, Recorded, flushVars
<1>2. CASE FlushTick \/ FinalFlush \/ StartWrite
  BY <1>0, <1>a, <1>2, PauseUntouched DEF FlushTick, FinalFlush, StartWrite
<1>3. CASE TakeSnapshot
  <2>1. \A row \in batch' : row.seen \in 0..MaxTime
    BY <1>0, <1>3 DEF TakeSnapshot, Snapshot, PauseTypes
  <2> QED
    BY <1>0, <1>a, <1>3, <2>1, PauseUntouched DEF TakeSnapshot
<1>4. ASSUME NEW row \in batch, CheckRow(row) PROVE PauseTypes' /\ SpanIsExact' /\ PauseIsExact'
  <2>1. batch' \subseteq batch /\ UNCHANGED <<pauseVars, states>>
    BY <1>4 DEF CheckRow, storeVars
  <2>2. PauseTypes' /\ SpanIsExact'
    BY <1>0, <1>a, <2>1 DEF PauseTypes, SpanIsExact, Holds, pauseVars
  <2> DEFINE v == [held |-> Holds(row.seen), paused |-> row.seen \in paused,
                   superseded |-> row.seen < begun]
  <2>3. verdicts' = verdicts \union {v}
    BY <1>4 DEF CheckRow
  <2>4. /\ Holds(row.seen) => row.seen \in paused
        /\ row.seen \in paused /\ ~(row.seen < begun) => Holds(row.seen)
    BY <1>0, <1>a DEF SpanIsExact, PauseTypes
  <2>5. (v.held => v.paused) /\ (v.paused /\ ~v.superseded => v.held)
    BY <2>4, Zenon
  <2> HIDE DEF v
  <2>6. PauseIsExact'
    BY <1>0, <2>3, <2>5, Zenon DEF PauseIsExact
  <2> QED
    BY <2>2, <2>6
<1>5. CASE FlushDone
  <2>1. PauseIsExact'
    BY <1>5 DEF FlushDone, PauseIsExact
  <2> QED
    BY <1>0, <1>a, <1>5, <2>1 DEF FlushDone, PauseTypes, SpanIsExact, Holds, pauseVars
<1>6. ASSUME NEW end \in 0..(MaxTime + 1), NEW n \in 0..MaxTime, SetUntil(end, n)
      PROVE  PauseTypes' /\ SpanIsExact' /\ PauseIsExact'
  <2>1. verdicts' = verdicts
    BY <1>6 DEF SetUntil
  <2> QED
    BY <1>0, <1>6, <2>1, SpanMoves DEF PauseIsExact
<1>7. CASE Cancel \/ ServerReturns \/ ServeFails
  BY <1>0, <1>a, <1>7, PauseUntouched DEF Cancel, ServerReturns, ServeFails, flushVars
<1>8. CASE Exit \/ SweepIdle \/ ClockTick
  BY <1>0, <1>a, <1>8, PauseUntouched DEF Exit, SweepIdle, ClockTick, flushVars
<1>9. CASE UNCHANGED vars
  BY <1>0, <1>a, <1>9, PauseUntouched DEF vars, flushVars
<1> QED
  BY <1>1, <1>2, <1>3, <1>4, <1>5, <1>6, <1>7, <1>8, <1>9 DEF Next, FlusherStep

\* Pause.SetUntil and Pause.Holds: however polls move, lift and begin pauses
\* between the rows of a flush, a row is held only if its address was last
\* seen at a paused instant, and always if that was one of the latest pause.
THEOREM HeldWhenPaused == Spec => []PauseIsExact
<1>1. Init => PauseInv
  BY StoreStarts, StoreAssumption
     DEF Init, StoreInit, PauseInv, PauseTypes, SpanIsExact, PauseIsExact, Holds
<1>2. PauseInv => PauseIsExact
  BY DEF PauseInv
<1> QED
  BY <1>1, <1>2, PauseKeeps, PTL DEF Spec

=============================================================================
