-------------------------------- MODULE Rollup --------------------------------
(***************************************************************************)
(* The summaries of one site's traffic_snapshots and the reader that       *)
(* merges them with the rows they do not cover: traffic_rollup in buckets  *)
(* (storage/rollup.go, api/rollup.go) and visitor_sketch in days           *)
(* (storage/sketch.go, api/sketch.go).                                     *)
(*                                                                         *)
(* A row is its flush, its address and its bot score.  A bucket holds the  *)
(* set of the rows it sums up and a sketch the set of addresses it counts, *)
(* so that an answer is right when it is the set a scan would give.        *)
(***************************************************************************)
EXTENDS Integers, FiniteSets, FiniteSetsExt

CONSTANTS
  Ips, Scores, Cutoffs,  \* addresses, bot scores, thresholds of the releases
  Bucket, Day,           \* widths of the two summaries
  Settle,                \* rollupSettle and sketchSettle
  Recheck, MaxSpan,      \* of the rollup; the sketches recheck one Day
  Keep,                  \* the retention of the site
  MaxLate,               \* how far behind the clock a row is stamped
  LastTime, MaxRows, MaxKills \* bounds

Down(t, width) == (t \div width) * width
Up(t, width) == Down(t + width - 1, width)

\* A row is not late by more than the settling, and a refresh starts and stops
\* where a bucket does: an hour's recheck and a span of thirty days, over
\* quarters of an hour and over days.
ASSUME RollupAssumption ==
  /\ Bucket \in Nat \ {0} /\ Day \in Nat \ {0} /\ LastTime \in Nat
  /\ Settle \in Nat /\ MaxLate \in Nat /\ MaxLate <= Settle
  /\ Keep \in Nat /\ Recheck \in Nat /\ MaxSpan \in Nat
  /\ Down(Recheck, Bucket) = Recheck
  /\ Down(MaxSpan, Bucket) = MaxSpan /\ Down(MaxSpan, Day) = MaxSpan

VARIABLES
  time, rows,
  rolled, rolledBefore,          \* traffic_rollup by bucket, its watermark
  sketched, sketchState,         \* visitor_sketch by day, its state row
  cutoff,                        \* the threshold of the running collector
  cycle,                         \* the collector's retention cycle
  reader,                        \* what a request has read so far
  kills

rollupVars == <<time, rows, rolled, rolledBefore, sketched, sketchState, cutoff, cycle, reader, kills>>

Starts(width) == {Down(t, width) : t \in 0..LastTime}
Rows(from, to) == {r \in rows : from <= r.time /\ r.time < to}
AddressesOf(s) == {r.ip : r \in s}
BotsOf(s, least) == {r.ip : r \in {x \in s : x.score >= least}}

NoState == [before |-> 0, cutoff |-> 0]
Idle == [at |-> "idle", from |-> 0, to |-> 0]
NoReader == [at |-> "none", before |-> 0, state |-> NoState]
NoVisitors == [ips |-> {}, bots |-> {}]

RollupInit ==
  /\ time = 0 /\ rows = {} /\ kills = 0 /\ cutoff \in Cutoffs
  /\ rolled = [b \in Starts(Bucket) |-> {}] /\ rolledBefore = 0
  /\ sketched = [d \in Starts(Day) |-> NoVisitors] /\ sketchState = NoState
  /\ cycle = Idle /\ reader = NoReader

-----------------------------------------------------------------------------
(* A refresh: where it starts and how far it goes.  Nothing to do is       *)
(* to <= from.                                                             *)

\* Mutant of Horizon: up to the present.
HorizonAtNow(width) == Down(time, width) + width

Horizon(width) == Down(time - Settle, width)

Span(from, horizon) ==
  [from |-> from, to |-> IF from + MaxSpan < horizon THEN from + MaxSpan ELSE horizon]

OldestRow(width) == Down(Min({r.time : r \in rows}), width)

\* From behind the watermark, or from the oldest row when there is none.
RollupSpan ==
  Span(IF rolledBefore > 0 THEN rolledBefore - Recheck ELSE OldestRow(Bucket), Horizon(Bucket))

\* A state row of another threshold is as good as none.
SketchSpan ==
  Span(IF sketchState.before > 0 /\ sketchState.cutoff = cutoff
       THEN sketchState.before - Day ELSE OldestRow(Day), Horizon(Day))

-----------------------------------------------------------------------------
(* The cycle: rollup upsert, watermark, prune; sketch upsert, state,       *)
(* prune.                                                                  *)

\* Without a row and without a watermark there is nothing to roll up, and a
\* watermark would claim what is still to come.
Begin ==
  /\ cycle.at = "idle"
  /\ cycle' = IF (rows # {} \/ rolledBefore > 0) /\ RollupSpan.from < RollupSpan.to
              THEN [at |-> "upsert", from |-> RollupSpan.from, to |-> RollupSpan.to]
              ELSE [Idle EXCEPT !.at = "prune"]
  /\ UNCHANGED <<time, rows, rolled, rolledBefore, sketched, sketchState, cutoff, reader, kills>>

\* Only a bucket that has rows is written.
Upsert ==
  /\ cycle.at = "upsert"
  /\ rolled' = [b \in Starts(Bucket) |->
                  LET part == Rows(b, b + Bucket) \cap Rows(cycle.from, cycle.to)
                  IN  IF part = {} THEN rolled[b] ELSE part]
  /\ cycle' = [cycle EXCEPT !.at = "watermark"]
  /\ UNCHANGED <<time, rows, rolledBefore, sketched, sketchState, cutoff, reader, kills>>

\* Forward only.
Watermark ==
  /\ cycle.at = "watermark"
  /\ rolledBefore' = Max({rolledBefore, cycle.to})
  /\ cycle' = [Idle EXCEPT !.at = "prune"]
  /\ UNCHANGED <<time, rows, rolled, sketched, sketchState, cutoff, reader, kills>>

PruneBefore(width) == Down(time - Keep, width)

Prune ==
  /\ cycle.at = "prune"
  /\ rolled' = [b \in Starts(Bucket) |-> IF b < PruneBefore(Bucket) THEN {} ELSE rolled[b]]
  /\ cycle' = IF rows # {} /\ SketchSpan.from < SketchSpan.to
              THEN [at |-> "sketch", from |-> SketchSpan.from, to |-> SketchSpan.to]
              ELSE [Idle EXCEPT !.at = "sketch prune"]
  /\ UNCHANGED <<time, rows, rolledBefore, sketched, sketchState, cutoff, reader, kills>>

SketchUpsert ==
  /\ cycle.at = "sketch"
  /\ sketched' = [d \in Starts(Day) |->
                    LET part == Rows(d, d + Day) \cap Rows(cycle.from, cycle.to)
                    IN  IF part = {} THEN sketched[d]
                        ELSE [ips |-> AddressesOf(part), bots |-> BotsOf(part, cutoff)]]
  /\ cycle' = [cycle EXCEPT !.at = "state"]
  /\ UNCHANGED <<time, rows, rolled, rolledBefore, sketchState, cutoff, reader, kills>>

\* Forward, or back when the threshold is another.
SketchWatermark ==
  /\ cycle.at = "state"
  /\ sketchState' = IF sketchState.before < cycle.to \/ sketchState.cutoff # cutoff
                    THEN [before |-> cycle.to, cutoff |-> cutoff] ELSE sketchState
  /\ cycle' = [Idle EXCEPT !.at = "sketch prune"]
  /\ UNCHANGED <<time, rows, rolled, rolledBefore, sketched, cutoff, reader, kills>>

SketchPrune ==
  /\ cycle.at = "sketch prune"
  /\ sketched' = [d \in Starts(Day) |-> IF d < PruneBefore(Day) THEN NoVisitors ELSE sketched[d]]
  /\ cycle' = Idle
  /\ UNCHANGED <<time, rows, rolled, rolledBefore, sketchState, cutoff, reader, kills>>

-----------------------------------------------------------------------------
(* A request: the watermark, the figures, the state of the sketches, the   *)
(* visitors.                                                               *)

Read ==
  /\ \/ reader.at = "none" /\ reader' = [NoReader EXCEPT !.at = "sum", !.before = rolledBefore]
     \/ reader.at = "sum" /\ reader' = [NoReader EXCEPT !.at = "count", !.state = sketchState]
     \/ reader.at = "count" /\ reader' = NoReader
  /\ UNCHANGED <<time, rows, rolled, rolledBefore, sketched, sketchState, cutoff, cycle, kills>>

\* The whole units of [from, to) the summary claims; none when stop <= start.
Claimed(from, to, watermark, width) ==
  [start |-> Up(from, width), stop |-> Down(Min({to, watermark}), width)]

\* aggregableOver: the raw head and tail and the buckets between them.
Summed(from, to, watermark) ==
  LET c == Claimed(from, to, watermark, Bucket)
  IN  IF c.start >= c.stop THEN Rows(from, to)
      ELSE Rows(from, c.start) \cup Rows(c.stop, to)
           \cup UNION {rolled[b] : b \in {x \in Starts(Bucket) : c.start <= x /\ x < c.stop}}

Usable(state, least) == state.before > 0 /\ state.cutoff = least

\* visitorsOver, past the budget of rows that can be counted exactly.
Visitors(from, to, state, least) ==
  LET c == Claimed(from, to, state.before, Day)
      edges == IF c.start >= c.stop \/ ~Usable(state, least) THEN Rows(from, to)
               ELSE Rows(from, c.start) \cup Rows(c.stop, to)
      days == IF c.start >= c.stop \/ ~Usable(state, least) THEN {}
              ELSE {sketched[d] : d \in {x \in Starts(Day) : c.start <= x /\ x < c.stop}}
  IN  [ips |-> AddressesOf(edges) \cup UNION {s.ips : s \in days},
       bots |-> BotsOf(edges, least) \cup UNION {s.bots : s \in days}]

-----------------------------------------------------------------------------
(* Around them.                                                            *)

\* A flush that was stamped up to MaxLate ago.
Insert ==
  /\ Cardinality(rows) < MaxRows
  /\ \E ip \in Ips, score \in Scores, t \in Max({0, time - MaxLate})..time :
       rows' = rows \cup {[ip |-> ip, score |-> score, time |-> t]}
  /\ UNCHANGED <<time, rolled, rolledBefore, sketched, sketchState, cutoff, cycle, reader, kills>>

\* The chunk of a day goes when all of it is older than the retention.
DropChunk ==
  /\ rows' = {r \in rows : Down(r.time, Day) + Day > time - Keep}
  /\ rows' # rows
  /\ UNCHANGED <<time, rolled, rolledBefore, sketched, sketchState, cutoff, cycle, reader, kills>>

\* The collector ends in the middle of a cycle, and another release of it,
\* with another threshold, may start.
Replaced ==
  /\ kills < MaxKills /\ kills' = kills + 1
  /\ cycle' = Idle /\ cutoff' \in Cutoffs
  /\ UNCHANGED <<time, rows, rolled, rolledBefore, sketched, sketchState, reader>>

RollupTick ==
  /\ time < LastTime /\ time' = time + 1
  /\ UNCHANGED <<rows, rolled, rolledBefore, sketched, sketchState, cutoff, cycle, reader, kills>>

RollupNext ==
  \/ Begin \/ Upsert \/ Watermark \/ Prune
  \/ SketchUpsert \/ SketchWatermark \/ SketchPrune
  \/ Read \/ Insert \/ DropChunk \/ Replaced \/ RollupTick

RollupSpec == RollupInit /\ [][RollupNext]_rollupVars

-----------------------------------------------------------------------------
(* Properties, over every range a request may ask for: within the          *)
(* retention.                                                              *)

Ranges == {r \in (Max({0, time - Keep})..time) \X (0..(time + 1)) : r[1] < r[2]}

\* Whatever a refresh, a prune, a kill or the retention does between a
\* request's reading of a watermark and its query, the answer is that of the
\* raw rows, none missing at a seam and none counted twice: the figures
\* (api/rollup.go:83-91) and the visitors of the merged sketches
\* (api/sketch.go:216-225).
SummaryIsExact ==
  \A r \in Ranges :
    /\ reader.at = "sum" => Summed(r[1], r[2], reader.before) = Rows(r[1], r[2])
    /\ reader.at = "count" =>
         \A c \in Cutoffs :
           Visitors(r[1], r[2], reader.state, c).ips = AddressesOf(Rows(r[1], r[2]))
=============================================================================
