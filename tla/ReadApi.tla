-------------------------------- MODULE ReadApi -------------------------------
(***************************************************************************)
(* The read API's queries about one site (internal/api/store*.go), each as *)
(* an operator over the rows it reads: the collector's traffic_snapshots   *)
(* and the beacon's beacon_events.  The two writers add rows as time       *)
(* passes; an answer is computed from the rows there are.                  *)
(*                                                                         *)
(* Values of a column are numbers and 0 is the empty one.  A row's id is   *)
(* the order in which PostgreSQL has the rows that compare equal: the      *)
(* window functions of a query share one sort, so it is one order.         *)
(***************************************************************************)
EXTENDS Integers, FiniteSets, FiniteSetsExt

CONSTANTS
  Clients,        \* what the collector may store: records without id and time
  Visits,         \* what the beacon may store: records without id and time
  SessionTimeout,
  BucketWidth,    \* the width of a time series
  Periods,        \* the ranges asked for, <<from, to>>
  BotScoreMin, Limit,
  LastArrival, MaxStored \* bounds

\* A fingerprint is known for a bot's, so a row that is flagged has one.
ASSUME ReadApiAssumption ==
  /\ BucketWidth \in Nat \ {0} /\ Limit \in Nat \ {0}
  /\ SessionTimeout \in Nat /\ LastArrival \in Nat /\ MaxStored \in Nat
  /\ Clients \subseteq [ip : Nat, hash : Nat, country : Nat, ja4 : Nat, knownBot : BOOLEAN,
                       score : Nat]
  /\ \A c \in Clients : c.knownBot => c.ja4 # 0
  /\ Visits \subseteq [visitor : Nat, isPageview : BOOLEAN, path : Nat, campaign : Nat,
                      isBot : BOOLEAN, ip : Nat, hash : Nat, country : Nat, name : Nat]

VARIABLES now, snapshots, events

readVars == <<now, snapshots, events>>

ReadInit == now = 0 /\ snapshots = {} /\ events = {}

\* A record with the next id of its table and the time.
Stamped(c, s) ==
  [f \in DOMAIN c \cup {"id", "time"} |->
     CASE f = "id" -> Cardinality(s) [] f = "time" -> now [] OTHER -> c[f]]

Flush(c) ==
  /\ Cardinality(snapshots) + Cardinality(events) < MaxStored
  /\ snapshots' = snapshots \cup {Stamped(c, snapshots)}
  /\ UNCHANGED <<now, events>>

Receive(v) ==
  /\ Cardinality(snapshots) + Cardinality(events) < MaxStored
  /\ events' = events \cup {Stamped(v, events)}
  /\ UNCHANGED <<now, snapshots>>

Pass == now < LastArrival /\ now' = now + 1 /\ UNCHANGED <<snapshots, events>>

ReadNext == (\E c \in Clients : Flush(c)) \/ (\E v \in Visits : Receive(v)) \/ Pass

ReadSpec == ReadInit /\ [][ReadNext]_readVars

Within(s, from, to) == {r \in s : from <= r.time /\ r.time < to}
Column(s, F(_)) == {F(r) : r \in s}
Count(s, P(_)) == Cardinality({r \in s : P(r)})
Total(s, F(_)) == FoldFunctionOnSet(+, 0, [x \in s |-> F(x)], s)
Largest(s, F(_)) == Max(Column(s, F) \cup {0})
BucketOf(t) == (t \div BucketWidth) * BucketWidth

-----------------------------------------------------------------------------
(* Paging: LIMIT and OFFSET over an ORDER BY, Above(g, h) of which says    *)
(* that g comes before h.  Groups that tie share a rank and would move     *)
(* between pages.  The size of the breakdown is taken from the same pass.  *)

Rank(g, groups, Above(_, _)) == Count(groups, LAMBDA h : Above(h, g))
Page(n, groups, Above(_, _)) == {g \in groups : Rank(g, groups, Above) \div Limit = n}
PageTotal(groups) == Cardinality(groups)

-----------------------------------------------------------------------------
(* Sessions of the beacon's events, found when they are read.              *)

Filtered(from, to, bots, campaign) ==
  {e \in Within(events, from, to) :
     /\ bots = "include" \/ (bots = "only") = e.isBot
     /\ campaign = 0 \/ e.campaign = campaign}

Before(d, e) == d.time < e.time \/ (d.time = e.time /\ d.id < e.id)
EarlierOf(e, s) == {d \in s : d.visitor = e.visitor /\ Before(d, e)}

StartsSession(e, s) ==
  EarlierOf(e, s) = {} \/ e.time - Largest(EarlierOf(e, s), LAMBDA d : d.time) > SessionTimeout

SessionOf(e, s) ==
  <<e.visitor, Count(EarlierOf(e, s) \cup {e}, LAMBDA d : StartsSession(d, s))>>

Sessions(s) == {{e \in s : SessionOf(e, s) = x} : x \in {SessionOf(e, s) : e \in s}}
Pageviews(s) == Count(s, LAMBDA e : e.isPageview)
Uniques(s) == Cardinality(Column(s, LAMBDA e : e.visitor))
StartOf(session) == Min(Column(session, LAMBDA e : e.time))

Summary(s) ==
  [pageviews |-> Pageviews(s), events |-> Count(s, LAMBDA e : ~e.isPageview),
   visitors |-> Uniques(s), sessions |-> Cardinality(Sessions(s)),
   bounced |-> Count(Sessions(s), LAMBDA x : Pageviews(x) <= 1)]

\* Mutant of BucketsOfSession: every bucket the session touches.
BucketsTouched(session) == {BucketOf(e.time) : e \in session}

BucketsOfSession(session) == {BucketOf(StartOf(session))}

BeaconTimeseries(s) ==
  {LET part == {e \in s : BucketOf(e.time) = b}
   IN  [bucket |-> b, pageviews |-> Pageviews(part), visitors |-> Uniques(part),
        sessions |-> Count(Sessions(s), LAMBDA x : b \in BucketsOfSession(x))] :
   b \in {BucketOf(e.time) : e \in s}}

-----------------------------------------------------------------------------
(* Breakdowns of the events.                                               *)

Breakdown(s, KeyOf(_)) ==
  {LET part == {e \in s : KeyOf(e) = k}
   IN  [key |-> k, pageviews |-> Pageviews(part), visitors |-> Uniques(part)] :
   k \in Column(s, KeyOf)}

Busier(g, h) ==
  \/ g.pageviews > h.pageviews
  \/ g.pageviews = h.pageviews /\ g.visitors > h.visitors
  \/ g.pageviews = h.pageviews /\ g.visitors = h.visitors /\ g.key < h.key

BeaconPaths(s) == Breakdown(s, LAMBDA e : e.path)
Campaigns(s) == Breakdown({e \in s : e.campaign # 0}, LAMBDA e : e.campaign)

NamedEvents(s) ==
  LET named == {e \in s : ~e.isPageview}
  IN  {LET part == {e \in named : e.name = n}
       IN  [name |-> n, count |-> Cardinality(part), visitors |-> Uniques(part)] :
       n \in Column(named, LAMBDA e : e.name)}

\* The first or the last pageview of every session that has one.
Boundary(s, entry) ==
  {CHOOSE e \in x : \A d \in x \ {e} : IF entry THEN Before(e, d) ELSE Before(d, e) :
   x \in {{e \in session : e.isPageview} : session \in Sessions(s)} \ {{}}}

BoundaryPages(s, entry) ==
  LET ends == Boundary(s, entry)
  IN  {[key |-> p, sessions |-> Count(ends, LAMBDA e : e.path = p)] :
       p \in Column(ends, LAMBDA e : e.path)}

\* The newest country the collector has for an address in the range.
ProbedCountry(ip, from, to) ==
  LET known == {r \in Within(snapshots, from, to) : r.ip = ip /\ r.country # 0}
  IN  IF known = {} THEN 0
      ELSE (CHOOSE r \in known : \A q \in known \ {r} : Before(q, r)).country

\* Only an address with an event of no country is asked about.
Probed(s) == {e.ip : e \in {x \in s : x.country = 0}}

ResolvedCountry(e, s, from, to) ==
  IF e.country # 0 THEN e.country
  ELSE IF e.ip \in Probed(s) THEN ProbedCountry(e.ip, from, to) ELSE 0

BeaconCountries(s, from, to) == Breakdown(s, LAMBDA e : ResolvedCountry(e, s, from, to))

-----------------------------------------------------------------------------
(* What the collector saw, by address.                                     *)

PeakScore(s) == Largest(s, LAMBDA r : r.score)
IsKnownBot(s) == \E r \in s : r.knownBot

\* A flagged fingerprint first, then the newest.
RepresentativeRow(s) ==
  CHOOSE r \in s : \A q \in s \ {r} :
    (r.knownBot /\ ~q.knownBot) \/ (r.knownBot = q.knownBot /\ Before(q, r))

RepresentativeJA4(s) ==
  LET printed == {r \in s : r.ja4 # 0}
  IN  IF printed = {} THEN 0 ELSE RepresentativeRow(printed).ja4

Details(s) ==
  [ja4 |-> RepresentativeJA4(s), ja4Count |-> Cardinality(Column(s, LAMBDA r : r.ja4) \ {0}),
   country |-> Largest(s, LAMBDA r : r.country), knownBot |-> IsKnownBot(s)]

AddressesIn(s) == Column(s, LAMBDA r : r.ip)
RowsOf(ip, s) == {r \in s : r.ip = ip}

\* One value for an address, addresses by that value.
GroupAddresses(s, ValueOf(_)) ==
  {LET ips == {ip \in AddressesIn(s) : ValueOf(RowsOf(ip, s)) = k}
   IN  [key |-> k, ips |-> Cardinality(ips),
        bots |-> Count(ips, LAMBDA ip : PeakScore(RowsOf(ip, s)) >= BotScoreMin)] :
   k \in {ValueOf(RowsOf(ip, s)) : ip \in AddressesIn(s)}}

Larger(g, h) == g.ips > h.ips \/ (g.ips = h.ips /\ g.key < h.key)

Countries(s) == GroupAddresses(s, LAMBDA x : Largest(x, LAMBDA r : r.country))
JA4s(s) == GroupAddresses(s, RepresentativeJA4)

Band(score) == Min({score \div 10, 9})
ScoreDistribution(s) ==
  [b \in 0..9 |-> Count(AddressesIn(s), LAMBDA ip : Band(PeakScore(RowsOf(ip, s))) = b)]

TopIPs(s) ==
  {[key |-> ip, score |-> PeakScore(RowsOf(ip, s)), snapshots |-> Cardinality(RowsOf(ip, s)),
    details |-> Details(RowsOf(ip, s))] : ip \in AddressesIn(s)}

\* A site of the overview: one row, and none without traffic.
Overview(s) ==
  IF s = {} THEN {}
  ELSE {LET bots == Count(AddressesIn(s), LAMBDA ip : PeakScore(RowsOf(ip, s)) >= BotScoreMin)
            ips == Cardinality(AddressesIn(s))
        IN  [ips |-> ips, bots |-> bots, humans |-> ips - bots, snapshots |-> Cardinality(s),
             lastSeen |-> Largest(s, LAMBDA r : r.time)]}

Worse(g, h) == g.score > h.score \/ (g.score = h.score /\ g.key < h.key)

Timeseries(s) ==
  {LET part == {r \in s : BucketOf(r.time) = b}
   IN  [bucket |-> b, ips |-> Cardinality(AddressesIn(part)),
        bots |-> Count(AddressesIn(part), LAMBDA ip : PeakScore(RowsOf(ip, part)) >= BotScoreMin)] :
   b \in {BucketOf(r.time) : r \in s}}

-----------------------------------------------------------------------------
(* Both sources at once, joined by the token of the address where a row    *)
(* has one and by the masked network where not.                            *)

JoinKey(r) == IF r.hash # 0 THEN <<"token", r.hash>> ELSE <<"network", r.ip>>
Keys(s) == Column(s, JoinKey)

\* Grouped by the two columns first, merged by the key afterwards.
CollectorPairs(s) ==
  {LET part == {r \in s : r.hash = p[1] /\ r.ip = p[2]}
   IN  [hash |-> p[1], ip |-> p[2], score |-> PeakScore(part), snapshots |-> Cardinality(part)] :
   p \in {<<r.hash, r.ip>> : r \in s}}

CollectorKeys(s) ==
  {LET part == {p \in CollectorPairs(s) : JoinKey(p) = k}
   IN  [key |-> k, score |-> PeakScore(part), snapshots |-> Total(part, LAMBDA p : p.snapshots),
        ips |-> AddressesIn(part)] :
   k \in Keys(CollectorPairs(s))}

Tokenised(keys) == Count(keys, LAMBDA k : k[1] = "token")

Crossover(s, es) ==
  LET joined == CollectorKeys(s)
      ranJS(c) == c.key \in Keys(es)
  IN  [seen |-> Cardinality(joined), ranJS |-> Count(joined, ranJS),
       beaconOnly |-> Cardinality(Keys(es) \ Keys(s)),
       tokenised |-> Tokenised(Keys(s)), beaconTokenised |-> Tokenised(Keys(es)),
       bands |-> [b \in 0..9 |-> Count(joined, LAMBDA c : Band(c.score) = b)],
       jsBands |-> [b \in 0..9 |-> Count(joined, LAMBDA c : Band(c.score) = b /\ ranJS(c))]]

\* The rows of the networks on the page, then those of the key itself.
PageDetails(c, page, s) ==
  Details({r \in s : r.ip \in UNION {x.ips : x \in page} /\ JoinKey(r) = c.key})

Silent(s, es) == {c \in CollectorKeys(s) : c.key \notin Keys(es)}

JSBots(s, es) ==
  {k \in Keys(es) :
     \/ \E e \in es : JoinKey(e) = k /\ e.isBot
     \/ \E c \in CollectorKeys(s) : c.key = k /\ c.score >= BotScoreMin}

-----------------------------------------------------------------------------
(* What the answers to one range have to do with each other.               *)

\* A series, a breakdown and the entry pages are shares of the summary.
SharesOf(s, from, to) ==
  LET all == Summary(s)
      landed == Count(Sessions(s), LAMBDA x : Pageviews(x) > 0)
  IN  /\ Total(BeaconTimeseries(s), LAMBDA b : b.sessions) = all.sessions
      /\ \A groups \in {BeaconPaths(s), BeaconCountries(s, from, to)} :
           Total(groups, LAMBDA g : g.pageviews) = all.pageviews
      /\ \A entry \in BOOLEAN : Total(BoundaryPages(s, entry), LAMBDA p : p.sessions) = landed
      /\ all.sessions - landed <= all.bounced /\ all.visitors <= all.sessions
      /\ \A e \in s : e.country = 0 =>
           ResolvedCountry(e, s, from, to) = ProbedCountry(e.ip, from, to)

\* Every address is in one country, under one fingerprint and in one band, and
\* an address that is flagged shows a fingerprint that flags it.
SharesOfAddresses(r) ==
  LET addresses == Cardinality(AddressesIn(r))
  IN  /\ \A groups \in {Countries(r), JA4s(r)} : Total(groups, LAMBDA g : g.ips) = addresses
      /\ Total(0..9, LAMBDA b : ScoreDistribution(r)[b]) = addresses
      /\ \A o \in Overview(r) :
           /\ o.ips = addresses /\ o.snapshots = Total(TopIPs(r), LAMBDA t : t.snapshots)
           /\ \A groups \in {Countries(r), JA4s(r)} : Total(groups, LAMBDA g : g.bots) = o.bots
      /\ Overview(r) = {} <=> r = {}
      /\ \A t \in TopIPs(r) : t.details.knownBot =>
           \E x \in RowsOf(t.key, r) : x.knownBot /\ x.ja4 = t.details.ja4
      /\ \A b \in Timeseries(r) : b.bots <= b.ips /\ b.ips <= addresses

\* Pages are full but for the last, and together they are the breakdown.
PagesAreWhole(groups, Above(_, _)) ==
  LET pages == 0..((PageTotal(groups) - 1) \div Limit)
  IN  /\ \A n \in pages :
           Cardinality(Page(n, groups, Above)) = Min({Limit, PageTotal(groups) - n * Limit})
      /\ UNION {Page(n, groups, Above) : n \in pages} = groups

\* Grouping twice is grouping once, and what one source alone saw and what
\* both did is all there is.
CrossoverAddsUp(r, es) ==
  LET x == Crossover(r, es)
  IN  /\ \A c \in CollectorKeys(r) :
           LET own == {q \in r : JoinKey(q) = c.key}
           IN  /\ c.score = PeakScore(own) /\ c.snapshots = Cardinality(own)
               /\ PageDetails(c, {c}, r) = Details(own)
      /\ x.seen = Cardinality(Keys(r))
      /\ x.seen - x.ranJS = Cardinality(Silent(r, es))
      /\ x.ranJS + x.beaconOnly = Cardinality(Keys(es))
      /\ Total(0..9, LAMBDA b : x.bands[b]) = x.seen
      /\ Total(0..9, LAMBDA b : x.jsBands[b]) = x.ranJS
      /\ JSBots(r, es) \cap {c.key : c \in Silent(r, es)} = {}

\* The figures of a page add up: the sessions of a series, the shares of a
\* breakdown, the pages of a list and the two sides of the crossover come to
\* the totals beside them, whatever the two writers have stored
\* (store.go, store_beacon.go, store_crossover.go, store_extra.go).
AnswersAddUp ==
  \A w \in Periods :
    LET r == Within(snapshots, w[1], w[2])
        es == Within(events, w[1], w[2])
    IN  /\ \A bots \in {"include", "exclude", "only"}, campaign \in {0, 1} :
             LET s == Filtered(w[1], w[2], bots, campaign)
             IN  SharesOf(s, w[1], w[2]) /\ PagesAreWhole(BeaconPaths(s), Busier)
        /\ SharesOfAddresses(r) /\ PagesAreWhole(Countries(r), Larger)
        /\ PagesAreWhole(JA4s(r), Larger) /\ PagesAreWhole(TopIPs(r), Worse)
        /\ CrossoverAddsUp(r, es)
        /\ Total(NamedEvents(es), LAMBDA n : n.count) = Summary(es).events
        /\ Total(Campaigns(es), LAMBDA g : g.pageviews) = Pageviews({e \in es : e.campaign # 0})

\* The figures of a page add up as soon as a writer has stored something; of
\* tables that are empty there is nothing to see on a page.
FiguresAddUp == snapshots # {} \/ events # {} => AnswersAddUp

=============================================================================
