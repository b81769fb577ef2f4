------------------------------ MODULE Retention ------------------------------
(***************************************************************************)
(* How long the two tables keep their rows (internal/retention).  Every    *)
(* collector sets the policy of traffic_snapshots from its own file, the   *)
(* beacon sets that of beacon_events and trims the sites that keep less.   *)
(* The database drops whole chunks (here: days) by the policy.             *)
(***************************************************************************)
EXTENDS Integers, FiniteSets, FiniteSetsExt

CONSTANTS
  Sites,          \* one collector each; the beacon serves them all
  CollectorDays,  \* [retention] days in each collector's file
  BeaconDays,     \* [retention] days in the beacon's file
  BeaconPerSite,  \* per_site: days of some of the sites
  CompressAfter,  \* compress_after_days in every file
  MinDays, MaxDays, DefaultCompressAfterDays,
  LastDay,        \* bound on the clock
  MaxRetained         \* bound on the rows

RetentionAssumption ==
  /\ MinDays \in Nat \ {0} /\ MaxDays \in Nat
  /\ BeaconDays \in MinDays..MaxDays /\ CollectorDays \in [Sites -> MinDays..MaxDays]
  /\ DOMAIN BeaconPerSite \subseteq Sites
  /\ \A s \in DOMAIN BeaconPerSite : BeaconPerSite[s] \in MinDays..MaxDays

ASSUME RetentionAssumed == RetentionAssumption

Tables == {"traffic_snapshots", "beacon_events"}

VARIABLES
  day,
  retained,         \* what each table holds: the site and the day of a row
  lost,         \* what was taken out of it
  dropAfter,    \* each table's policy, 0 for none
  compressAfter,\* the age past which its chunks were last compressed
  untrimmed     \* the sites the beacon's pass has left to trim

retentionVars == <<day, retained, lost, dropAfter, compressAfter, untrimmed>>

RetentionInit ==
  /\ day = 0 /\ untrimmed = {}
  /\ retained = [t \in Tables |-> {}] /\ lost = [t \in Tables |-> {}]
  /\ dropAfter = [t \in Tables |-> 0] /\ compressAfter = [t \in Tables |-> 0]

-----------------------------------------------------------------------------
(* A policy: days for the deployment and for some of its sites.            *)

\* Mutant of longest: the days of the file, whatever a site asks for.
longestOfFile(p) == p.days

longest(p) == Max({p.days} \cup {p.perSite[s] : s \in DOMAIN p.perSite})
shorter(p) == {s \in DOMAIN p.perSite : p.perSite[s] < longest(p)}

Collector(s) == [days |-> CollectorDays[s], perSite |-> <<>>]

\* A site that asks for what the deployment keeps is no exception.
RetentionPolicy ==
  LET differs == {s \in DOMAIN BeaconPerSite : BeaconPerSite[s] # BeaconDays}
  IN  [days |-> BeaconDays, perSite |-> [s \in differs |-> BeaconPerSite[s]]]

\* How old a chunk is when it is compressed; 0 when it is not.
CompressionWanted(configured, kept) ==
  IF configured < 0 \/ (configured = 0 /\ kept > 0 /\ DefaultCompressAfterDays >= kept) THEN 0
  ELSE IF configured = 0 THEN DefaultCompressAfterDays ELSE configured

\* Compressing what is dropped first is left alone.
ApplyCompression(t, kept) ==
  LET after == CompressionWanted(CompressAfter, kept)
  IN  IF after \in MinDays..MaxDays /\ after < kept
      THEN compressAfter' = [compressAfter EXCEPT ![t] = after]
      ELSE UNCHANGED compressAfter

-----------------------------------------------------------------------------
(* The passes of the services.                                             *)

CollectorApply(s) ==
  /\ dropAfter' = [dropAfter EXCEPT !["traffic_snapshots"] = longest(Collector(s))]
  /\ ApplyCompression("traffic_snapshots", CollectorDays[s])
  /\ UNCHANGED <<day, retained, lost, untrimmed>>

BeaconApply ==
  /\ untrimmed = {}
  /\ dropAfter' = [dropAfter EXCEPT !["beacon_events"] = longest(RetentionPolicy)]
  /\ untrimmed' = shorter(RetentionPolicy)
  /\ ApplyCompression("beacon_events", BeaconDays)
  /\ UNCHANGED <<day, retained, lost>>

RowsRemoved(t, old) ==
  /\ retained' = [retained EXCEPT ![t] = @ \ old]
  /\ lost' = [lost EXCEPT ![t] = @ \cup old]

\* One site of the pass; an error ends the pass.
TrimSite ==
  \E s \in untrimmed :
    /\ \/ /\ RowsRemoved("beacon_events",
                    {r \in retained["beacon_events"] : r.site = s /\ r.day < day - BeaconPerSite[s]})
          /\ untrimmed' = untrimmed \ {s}
       \/ untrimmed' = {} /\ UNCHANGED <<retained, lost>>
    /\ UNCHANGED <<day, dropAfter, compressAfter>>

-----------------------------------------------------------------------------
(* Around them.                                                            *)

\* The services write rows of today.
RowArrives ==
  \E t \in Tables, s \in Sites :
    /\ Cardinality(UNION {{u} \X (retained[u] \cup lost[u]) : u \in Tables}) < MaxRetained
    /\ retained' = [retained EXCEPT ![t] = @ \cup {[site |-> s, day |-> day]}]
    /\ UNCHANGED <<day, lost, dropAfter, compressAfter, untrimmed>>

\* The database's job: chunks wholly older than the policy.
DropChunks ==
  \E t \in Tables :
    /\ dropAfter[t] > 0
    /\ RowsRemoved(t, {r \in retained[t] : r.day + 1 <= day - dropAfter[t]})
    /\ UNCHANGED <<day, dropAfter, compressAfter, untrimmed>>

NewDay ==
  /\ day < LastDay /\ day' = day + 1
  /\ UNCHANGED <<retained, lost, dropAfter, compressAfter, untrimmed>>

RetentionNext ==
  \/ \E s \in Sites : CollectorApply(s)
  \/ BeaconApply \/ TrimSite \/ RowArrives \/ DropChunks \/ NewDay

RetentionSpec == RetentionInit /\ [][RetentionNext]_retentionVars

-----------------------------------------------------------------------------
(* Properties.                                                             *)

BeaconKeeps(s) == IF s \in DOMAIN BeaconPerSite THEN BeaconPerSite[s] ELSE BeaconDays

\* Package comment of retention, 27-29: the policy never removes data a site
\* still wants.  No row of beacon_events is lost before the days its site asks
\* for are over, through the policy, the trims and their errors.
EventsAreKept ==
  \A r \in lost["beacon_events"] : r.day < day - BeaconKeeps(r.site)

\* The same sentence for traffic_snapshots, which every collector sets from
\* its own file.
TrafficIsKept ==
  \A r \in lost["traffic_snapshots"] : r.day < day - CollectorDays[r.site]
=============================================================================
