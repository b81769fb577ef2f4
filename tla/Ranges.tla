-------------------------------- MODULE Ranges --------------------------------
(***************************************************************************)
(* The address range datasets: the queue the panel asks for a refresh      *)
(* through (internal/rangerefresh, panel/rangerefresh.go) and the fetchers *)
(* that answer it (internal/asnlookup), one in each service that looks     *)
(* addresses up.  A fetcher downloads a dataset's two families, tries the  *)
(* next source when neither comes, swaps the tables it looks up in and,    *)
(* unless it is told not to, replaces the copy in the database.            *)
(*                                                                         *)
(* Of a dataset's tables it is kept which families they have; what is in   *)
(* them is module RangeTable's.                                            *)
(***************************************************************************)
EXTENDS Integers, Sequences, FiniteSets, FiniteSetsExt

CONSTANTS
  Fetchers,
  CountryOnly,    \* the fetchers that leave the ASN dataset alone
  Skips,          \* the fetchers with SkipRangePersistence
  SourceChoices,        \* the sources that may be chosen: [first, rest]
  UnclaimedAfter, \* how long an unclaimed request holds the slot, in ticks
  StaleClaim,     \* staleClaimAfter
  MaxRefreshes, MaxFetchFaults

VARIABLES
  refresh,     \* the newest row of ip_range_refresh_requests
  chosen,  \* the sources the settings name now
  fetch,   \* each fetcher's refresh
  mem,     \* the tables each looks up in
  stored,  \* ip_country_ranges and ip_asn_ranges
  asks, fetchFaults

rangeVars == <<refresh, chosen, fetch, mem, stored, asks, fetchFaults>>

Families == {"ipv4", "ipv6"}
Kinds(p) == IF p \in CountryOnly THEN <<"country">> ELSE <<"country", "asn">>
NoSource == "none"
NoTable == [k \in {"country", "asn"} |-> {}]
NoRefresh == [st |-> "none", age |-> 0, id |-> 0]
\* Before its first refresh a fetcher is starting.
FetchOff == [at |-> "start", kind |-> 1, first |-> NoSource, chain |-> <<>>, ok |-> {}, id |-> 0,
        arrived |-> 0, rows |-> 0]

RefreshInFlight == refresh.st \in {"pending", "running"}

RangesInit ==
  /\ refresh = NoRefresh /\ chosen = (CHOOSE c \in SourceChoices : TRUE)
  /\ fetch = [p \in Fetchers |-> FetchOff]
  /\ mem = [p \in Fetchers |-> NoTable] /\ stored = NoTable
  /\ asks = 0 /\ fetchFaults = MaxFetchFaults

FetchFault == fetchFaults > 0 /\ fetchFaults' = fetchFaults - 1
FetchAt(p, step) == fetch[p].at = step
-----------------------------------------------------------------------------
(* The panel, the settings and the clock.                                  *)

\* RequestRangeRefresh: a pending row too old is deleted, and then the index
\* lets one be in flight.
\* Nothing polls: ExpireStale deletes the request before the next is asked for.
Unclaimed == refresh.st = "pending" /\ refresh.age > UnclaimedAfter

RequestRefresh ==
  /\ asks < MaxRefreshes /\ asks' = asks + 1
  /\ ~RefreshInFlight \/ Unclaimed
  /\ refresh' = [st |-> "pending", age |-> 0, id |-> asks + 1]
  /\ UNCHANGED <<chosen, fetch, mem, stored, fetchFaults>>

\* SetSources.
SetSources ==
  /\ chosen' \in SourceChoices
  /\ UNCHANGED <<refresh, fetch, mem, stored, asks, fetchFaults>>

RefreshTick ==
  /\ RefreshInFlight
  /\ refresh' = [refresh EXCEPT !.age = Min({@ + 1, Max({UnclaimedAfter, StaleClaim}) + 1})]
  /\ UNCHANGED <<chosen, fetch, mem, stored, asks, fetchFaults>>

\* A service stops and is started again.
Restart(p) ==
  /\ FetchFault /\ fetch' = [fetch EXCEPT ![p] = FetchOff]
  /\ mem' = [mem EXCEPT ![p] = NoTable]
  /\ UNCHANGED <<refresh, chosen, stored, asks>>

-----------------------------------------------------------------------------
(* Run and answerRequests.                                                 *)

Refreshing(p, id) == fetch' = [fetch EXCEPT ![p] = [FetchOff EXCEPT !.at = "first", !.id = id]]

\* Run: once at the start, and each time the long ticker fires.
Timer(p) ==
  /\ fetch[p].at \in {"start", "idle"} /\ Refreshing(p, 0)
  /\ UNCHANGED <<refresh, chosen, mem, stored, asks, fetchFaults>>

\* Mutant of Abandoned: a claim is never too old.
AbandonedNever == FALSE

\* ReleaseStaleClaims.
Abandoned == refresh.st = "running" /\ refresh.age > StaleClaim

Release(p) ==
  /\ FetchAt(p, "idle") /\ Abandoned
  /\ refresh' = [refresh EXCEPT !.st = "failed", !.age = 0]
  /\ UNCHANGED <<chosen, fetch, mem, stored, asks, fetchFaults>>

\* Claim: the state is in the statement that takes it, and the statement may
\* fail.
ClaimRefresh(p) ==
  /\ FetchAt(p, "idle") /\ refresh.st = "pending"
  /\ refresh' = [refresh EXCEPT !.st = "running", !.age = 0]
  /\ Refreshing(p, refresh.id)
  /\ UNCHANGED <<chosen, mem, stored, asks, fetchFaults>>

-----------------------------------------------------------------------------
(* One refresh.                                                            *)

KindOf(p) == Kinds(p)[fetch[p].kind]

\* sourceOr: the first source is read from the settings,
PickFirst(p) ==
  /\ FetchAt(p, "first")
  /\ fetch' = [fetch EXCEPT ![p].at = "rest", ![p].first = chosen.first]
  /\ UNCHANGED <<refresh, chosen, mem, stored, asks, fetchFaults>>

\* and chain reads them again for the fallbacks, each named once.
PickRest(p) ==
  /\ FetchAt(p, "rest")
  /\ fetch' = [fetch EXCEPT ![p].at = "load", ![p].first = NoSource,
       ![p].chain = <<fetch[p].first>>
                      \o SelectSeq(chosen.rest, LAMBDA s : s # fetch[p].first)]
  /\ UNCHANGED <<refresh, chosen, mem, stored, asks, fetchFaults>>

\* recordFetch writes a row for each file to ip_range_fetches, as far as the
\* writes come through, and fetchOutcomesSince counts what has succeeded since
\* the claim.
Recorded(p, families, written) ==
  LET answering == {q \in Fetchers : fetch[q].id # 0}
  IN [q \in Fetchers |->
       [fetch[q] EXCEPT
          !.rows = IF q \in answering /\ p \notin Skips
                   THEN Min({@ + Cardinality(written), 1}) ELSE @,
          !.arrived = IF q = p /\ q \in answering /\ families # {} THEN 1 ELSE @,
          !.ok = IF q = p THEN families ELSE @,
          !.at = IF q = p THEN "loaded" ELSE @]]

\* loadCountryCSV and loadASNCSV for the two families of the source at hand.
Load(p) ==
  /\ FetchAt(p, "load")
  /\ \E families \in SUBSET Families :
       \/ fetch' = Recorded(p, families, families) /\ UNCHANGED fetchFaults
       \/ FetchFault /\ \E written \in SUBSET families : fetch' = Recorded(p, families, written)
  /\ UNCHANGED <<refresh, chosen, mem, stored, asks>>

\* Neither family came and there is another source.
NextSource(p) ==
  /\ FetchAt(p, "loaded") /\ fetch[p].ok = {} /\ Len(fetch[p].chain) > 1
  /\ fetch' = [fetch EXCEPT ![p].at = "load", ![p].chain = Tail(@)]
  /\ UNCHANGED <<refresh, chosen, mem, stored, asks, fetchFaults>>

LastDataset(p) == fetch[p].kind = Len(Kinds(p))

\* The next dataset, the end of an answer, or the loop again.
AfterDataset(p) ==
  [fetch EXCEPT ![p] =
     IF ~LastDataset(p) THEN [@ EXCEPT !.at = "first", !.kind = @ + 1, !.ok = {}, !.chain = <<>>]
     ELSE IF @.id # 0 THEN [@ EXCEPT !.at = "finish", !.ok = {}, !.chain = <<>>]
     ELSE [FetchOff EXCEPT !.at = "idle"]]

\* Mutant of Kept: a family that did not come leaves its table empty.
KeptNone(p) == {}

Kept(p) == mem[p][KindOf(p)]

\* storeCountry and storeASN: a family that failed keeps its table; the copy
\* in the database is replaced whole, by what came.
Store(p) ==
  /\ FetchAt(p, "loaded") /\ (fetch[p].ok # {} \/ Len(fetch[p].chain) = 1)
  /\ mem' = [mem EXCEPT ![p][KindOf(p)] = Kept(p) \union fetch[p].ok]
  /\ \/ /\ stored' = IF p \in Skips \/ fetch[p].ok = {} THEN stored
                     ELSE [stored EXCEPT ![KindOf(p)] = fetch[p].ok]
        /\ UNCHANGED fetchFaults
     \/ FetchFault /\ p \notin Skips /\ fetch[p].ok # {} /\ UNCHANGED stored
  /\ fetch' = AfterDataset(p)
  /\ UNCHANGED <<refresh, chosen, asks>>

Counted(p) == fetch[p].rows > 0

\* Finish names the row and asks for no state; a count that cannot be read is
\* none.
FinishRefresh(p) ==
  /\ FetchAt(p, "finish")
  /\ \/ /\ refresh' = IF refresh.id # fetch[p].id THEN refresh
                  ELSE [refresh EXCEPT !.st = IF Counted(p) THEN "succeeded" ELSE "failed", !.age = 0]
        /\ UNCHANGED fetchFaults
     \/ FetchFault /\ UNCHANGED refresh
     \/ FetchFault /\ refresh' = IF refresh.id # fetch[p].id THEN refresh
                        ELSE [refresh EXCEPT !.st = "failed", !.age = 0]
  /\ fetch' = [fetch EXCEPT ![p] = [FetchOff EXCEPT !.at = "idle"]]
  /\ UNCHANGED <<chosen, mem, stored, asks>>

Refresh(p) ==
  PickFirst(p) \/ PickRest(p) \/ Load(p) \/ NextSource(p) \/ Store(p) \/ FinishRefresh(p)

RangesNext ==
  \/ RequestRefresh \/ SetSources \/ RefreshTick
  \/ \E p \in Fetchers : Restart(p) \/ Timer(p) \/ Release(p) \/ ClaimRefresh(p) \/ Refresh(p)

RangesSpec == RangesInit /\ [][RangesNext]_rangeVars

\* Time passes, refreshes go on (every download has a timeout) and the short
\* ticker fires, in some fetcher at least.
RangesFairSpec ==
  /\ RangesSpec /\ WF_rangeVars(RefreshTick)
  /\ WF_rangeVars(\E p \in Fetchers : Refresh(p) \/ (FetchAt(p, "start") /\ Timer(p)))
  /\ SF_rangeVars(\E p \in Fetchers : Release(p) \/ ClaimRefresh(p))

-----------------------------------------------------------------------------
(* Properties.                                                             *)

\* A refresh that fails, in whole or in one family, leaves the tables in use:
\* once an address can be looked up it can be until the service stops
\* (asnlookup.go:444).
LookupsSurvive ==
  [][\A p \in Fetchers, k \in {"country", "asn"} :
       fetch'[p].at # "start" => mem[p][k] \subseteq mem'[p][k]]_rangeVars

\* An answer of "succeeded" means that a file arrived in that refresh, or in
\* one that ran beside it (onrequest.go:84).
SuccessIsReal ==
  [][\A p \in Fetchers :
       (FetchAt(p, "finish") /\ refresh'.st = "succeeded" /\ refresh.st # "succeeded") =>
         \/ fetch[p].arrived > 0
         \/ \E q \in Fetchers \ Skips : q # p /\ fetch[p].rows > 0]_rangeVars

\* Every request is answered, whichever service dies with it (onrequest.go:66).
RefreshEnds == RefreshInFlight ~> ~RefreshInFlight

\* A refresh that was asked for is answered, and a success is one.
RefreshAnswered == RefreshEnds /\ SuccessIsReal

\* (claim of a comment) "Not one file arrived" is what a failure means
\* (onrequest.go:94).
FailureIsReal ==
  [][\A p \in Fetchers :
       (FetchAt(p, "finish") /\ refresh'.st = "failed" /\ refresh.st = "running" /\ fetchFaults' = fetchFaults)
          => fetch[p].arrived = 0]_rangeVars
=============================================================================
