----------------------------- MODULE MCCollection ----------------------------
(***************************************************************************)
(* What the services write down and look up: the rows of a collector, its  *)
(* rate store on its own over a longer time, the summaries kept of the     *)
(* rows, how long rows are kept, the tables addresses are looked up in,    *)
(* the file of bot fingerprints, and the figures the read API makes of the *)
(* rows.  They share no state of these models, so a behaviour runs one     *)
(* part and the others stand still.                                        *)
(***************************************************************************)
EXTENDS Recording, Rollup, Retention, RangeTable, BotData, ReadApi

SitesDef == {"shop", "blog"}
CollectorDaysDef == [s \in SitesDef |-> IF s = "shop" THEN 1 ELSE 2]
BeaconPerSiteDef == [s \in SitesDef |-> IF s = "shop" THEN 1 ELSE 3]

Row(fields, mixed, s, e, v) ==
  [fields |-> fields, mixed |-> mixed, start |-> s, end |-> e, value |-> v]

\* Rows out of order, one of mixed families, and one that does not parse.
FilesDef == {
  <<Row("right", FALSE, 2, 2, "b"), Row("right", TRUE, 1, 9, "junk2"), Row("right", FALSE, 1, 1, "a")>>,
  <<Row("right", FALSE, 1, 2, "b"), Row("syntax", FALSE, 0, 0, "junk"), Row("right", FALSE, 3, 3, "a")>>}

ArchivesDef == {
  <<[ja4 |-> "j1", type |-> "curl"], [ja4 |-> "", type |-> "tool"]>>,
  <<[ja4 |-> "j1", type |-> "browser"], [ja4 |-> "j2", type |-> "x"]>>,
  <<[ja4 |-> "", type |-> "tool"]>>}

Client(ip, hash, country, ja4, knownBot, score) ==
  [ip |-> ip, hash |-> hash, country |-> country, ja4 |-> ja4, knownBot |-> knownBot,
   score |-> score]
Visit(visitor, isPageview, path, campaign, isBot, ip, hash, country) ==
  [visitor |-> visitor, isPageview |-> isPageview, path |-> path, campaign |-> campaign,
   isBot |-> isBot, ip |-> ip, hash |-> hash, country |-> country,
   name |-> IF isPageview THEN 0 ELSE path]

\* A network stored without a token and with two, a perfect score, and an
\* address whose country or fingerprint changes.
ClientsDef == {
  Client(1, 0, 0, 0, FALSE, 100), Client(1, 1, 1, 1, TRUE, 55),
  Client(1, 2, 1, 2, FALSE, 5), Client(2, 0, 2, 2, FALSE, 55)}
VisitsDef == {
  Visit(1, TRUE, 1, 0, FALSE, 1, 1, 0), Visit(1, TRUE, 2, 1, FALSE, 1, 1, 2),
  Visit(1, FALSE, 1, 0, FALSE, 1, 0, 0), Visit(2, TRUE, 1, 1, TRUE, 2, 0, 0)}

PeriodsDef == {<<0, 4>>, <<1, 3>>}

VARIABLES
  part, \* which part runs
  \* the variables of the rate store on its own
  storeClock, entries, sweeping, asked, asker, askedAt

\* Four requests over five windows, each up to a tick late; windows and TTL
\* in the proportion of the defaults.
Store == INSTANCE RateStore WITH
  Requests <- {"r1", "r2", "r3", "r4"}, IdleTTL <- 5, MaxTime <- 9,
  clock <- storeClock, states <- entries, sweeper <- sweeping,
  phase <- asked, from <- asker, at <- askedAt

ownStoreVars == <<storeClock, entries, sweeping, asked, asker, askedAt>>

CollectionInit ==
  /\ part \in {"recording", "store", "rollup", "retention", "table", "bots", "read"}
  /\ Init /\ Store!StoreInit
  /\ RollupInit /\ (part # "rollup" => cutoff = 2)
  /\ RetentionInit /\ TableInit /\ BotInit /\ ReadInit

CollectionNext ==
  \/ /\ part = "recording" /\ Next
     /\ UNCHANGED <<part, ownStoreVars, readVars, rollupVars, retentionVars, tableVars, botVars>>
  \/ /\ part = "store" /\ Store!StoreNext
     /\ UNCHANGED <<part, vars, readVars, rollupVars, retentionVars, tableVars, botVars>>
  \/ /\ part = "rollup" /\ RollupNext
     /\ UNCHANGED <<part, vars, ownStoreVars, readVars, retentionVars, tableVars, botVars>>
  \/ /\ part = "retention" /\ RetentionNext
     /\ UNCHANGED <<part, vars, ownStoreVars, readVars, rollupVars, tableVars, botVars>>
  \/ /\ part = "table" /\ TableNext
     /\ UNCHANGED <<part, vars, ownStoreVars, readVars, rollupVars, retentionVars, botVars>>
  \/ /\ part = "bots" /\ BotNext
     /\ UNCHANGED <<part, vars, ownStoreVars, readVars, rollupVars, retentionVars, tableVars>>
  \/ /\ part = "read" /\ ReadNext
     /\ UNCHANGED <<part, vars, ownStoreVars, rollupVars, retentionVars, tableVars, botVars>>

CollectionSpec ==
  CollectionInit /\
  [][CollectionNext]_<<part, vars, ownStoreVars, readVars, rollupVars, retentionVars,
                     tableVars, botVars>>

\* Of the store on its own: the counters it reports bracket the requests of
\* the last two windows, although these are recorded out of stamp order
\* (memory.go:99-102), and the sweep forgets an address only when its newest
\* request is older than the TTL, give or take how late a request can be.
StoreRemembers == Store!WindowBrackets /\ Store!ActiveIsKept
=============================================================================
