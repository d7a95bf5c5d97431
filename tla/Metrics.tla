------------------------------- MODULE Metrics -------------------------------
(***************************************************************************)
(* Performance metrics: the per-minute groups of src/metrics/collector.ts, *)
(* the rows a flush inserts in chunks, the sums of src/db/repos/metrics.ts *)
(* and the report of src/metrics/report.ts with the quantiles of           *)
(* histogram.ts.  One kind of sample stands for all, and `failed' for the  *)
(* other counters that are added up as it is.                              *)
(***************************************************************************)
EXTENDS Integers, Sequences, FiniteSets, SequencesExt, FiniteSetsExt, Functions

CONSTANTS
  Subjects,
  Samples,        \* what may be recorded: [ms, failed]
  Bounds,         \* BUCKET_BOUNDS_MS: upper bounds, inclusive, increasing
  MaxGroups, InsertChunk,
  Resolution,     \* minutes of a bucket: METRIC_RANGES
  KeepMinutes,    \* metrics_days
  Window,         \* minutes of the report
  LastMinute, MaxSamples, MaxMetricFaults   \* bounds

VARIABLES
  minute,         \* Date.now() in minutes
  groups,         \* the map of groups: key -> accumulator
  batches,        \* flushes under way: the rows each has still to insert
  rows,           \* dispatch_metrics
  rowId, metricFaults,
  \* history: what was recorded, by key, and what of it was dropped
  asked, dropped

metricVars == <<minute, groups, batches, rows, rowId, metricFaults, asked, dropped>>

Top == Len(Bounds) + 1
Keys == [minute : 0..LastMinute, subject : Subjects]
Sum(S, f(_)) == FoldSet(LAMBDA x, acc : f(x) + acc, 0, S)

\* bucketIndex: the first bound that is not below ms, else the open one.
BucketIndex(ms) ==
  LET fits == {i \in DOMAIN Bounds : ms <= Bounds[i]} IN IF fits = {} THEN Top ELSE Min(fits)

Empty == [count |-> 0, failed |-> 0, sum |-> 0, min |-> 0, max |-> 0, seen |-> FALSE, hist |-> [i \in 1..Top |-> 0]]

\* The accumulator of one sample: count is 0 for a counters-only one.
Sampled(ms, failed) ==
  [count |-> 1, failed |-> IF failed THEN 1 ELSE 0, sum |-> ms, min |-> ms, max |-> ms, seen |-> TRUE,
   hist |-> [i \in 1..Top |-> IF i = BucketIndex(ms) THEN 1 ELSE 0]]
CountersOnly == [Empty EXCEPT !.failed = 1]

\* add, of rows as of samples: sums add up, min and max widen.
Plus(a, b) ==
  [count |-> a.count + b.count, failed |-> a.failed + b.failed, sum |-> a.sum + b.sum,
   min |-> IF ~a.seen THEN b.min ELSE IF ~b.seen THEN a.min ELSE Min({a.min, b.min}),
   max |-> IF ~a.seen THEN b.max ELSE IF ~b.seen THEN a.max ELSE Max({a.max, b.max}),
   seen |-> a.seen \/ b.seen,
   hist |-> [i \in 1..Top |-> a.hist[i] + b.hist[i]]]

Added(accs) == FoldFunction(Plus, Empty, accs)
SumRows(S) == Added([r \in S |-> r.acc])

-----------------------------------------------------------------------------
MetricInit ==
  /\ minute = Window - 1 /\ groups = << >> /\ batches = {} /\ rows = {} /\ rowId = 0 /\ metricFaults = 0
  /\ asked = [k \in Keys |-> Empty] /\ dropped = [k \in Keys |-> Empty]

\* recordMetric: a new group only below the cap.
Record(subject, sample) ==
  LET key == [minute |-> minute, subject |-> subject] IN
  /\ Sum(Keys, LAMBDA k : asked[k].count + asked[k].failed) < MaxSamples
  /\ asked' = [asked EXCEPT ![key] = Plus(@, sample)]
  /\ IF key \in DOMAIN groups \/ Cardinality(DOMAIN groups) < MaxGroups
       THEN groups' = [k \in DOMAIN groups \cup {key} |->
                         IF k # key THEN groups[k]
                         ELSE Plus(IF key \in DOMAIN groups THEN groups[key] ELSE Empty, sample)]
            /\ UNCHANGED dropped
       ELSE dropped' = [dropped EXCEPT ![key] = Plus(@, sample)] /\ UNCHANGED groups
  /\ UNCHANGED <<minute, batches, rows, rowId, metricFaults>>

\* Mutant of Emptied: the groups go on counting from what was flushed.
EmptiedNot == groups

Emptied == << >>

\* flushMetrics, of the timer or of the shutdown: the map is swapped at once, the
\* rows are inserted by statements that follow; flushes may overlap.
Flush ==
  /\ groups # << >>
  /\ batches' = batches \cup {[id |-> rowId, left |->
                    {[id |-> rowId, key |-> k, acc |-> groups[k]] : k \in DOMAIN groups}]}
  /\ rowId' = rowId + 1
  /\ groups' = Emptied
  /\ UNCHANGED <<minute, rows, metricFaults, asked, dropped>>

\* One INSERT of at most INSERT_CHUNK rows.  A failure drops what is left.
Insert(b, chunk, ok) ==
  /\ chunk \subseteq b.left
  /\ Cardinality(chunk) = Min({InsertChunk, Cardinality(b.left)})
  /\ \/ /\ ok
        /\ rows' = rows \cup chunk
        /\ batches' = (batches \ {b}) \cup
             (IF b.left = chunk THEN {} ELSE {[b EXCEPT !.left = @ \ chunk]})
        /\ UNCHANGED <<metricFaults, dropped>>
     \/ /\ ~ok /\ metricFaults < MaxMetricFaults
        /\ metricFaults' = metricFaults + 1
        /\ batches' = batches \ {b}
        /\ dropped' = [k \in Keys |-> Plus(dropped[k], SumRows({r \in b.left : r.key = k}))]
        /\ UNCHANGED rows
  /\ UNCHANGED <<minute, groups, rowId, asked>>

\* A minute passes.
Minute ==
  /\ minute < LastMinute
  /\ minute' = minute + 1
  /\ UNCHANGED <<groups, batches, rows, rowId, metricFaults, asked, dropped>>

\* The sweep.
Prune ==
  LET old == {r \in rows : r.key.minute < minute - KeepMinutes} IN
  /\ old # {}
  /\ rows' = rows \ old
  /\ UNCHANGED <<minute, groups, batches, rowId, metricFaults, asked, dropped>>

MetricNext ==
  \/ \E s \in Subjects, x \in Samples : Record(s, Sampled(x.ms, x.failed))
  \/ \E s \in Subjects : Record(s, CountersOnly)
  \/ Flush \/ Minute \/ Prune
  \/ \E b \in batches : \E chunk \in SUBSET b.left, ok \in BOOLEAN : Insert(b, chunk, ok)

MetricSpec == MetricInit /\ [][MetricNext]_metricVars

-----------------------------------------------------------------------------
\* The report on the window of the last minutes.

FromMinute == minute - Window + 1
InWindow == {r \in rows : FromMinute <= r.key.minute /\ r.key.minute <= minute}
BucketOf(m) == m - (m % Resolution)

FirstBucket == FromMinute - (FromMinute % Resolution)
Buckets == {b \in FirstBucket..minute : (b - FirstBucket) % Resolution = 0}

\* sumMetrics, and groupBy: one accumulator for a bucket of one subject.
Summed(b, s) == SumRows({r \in InWindow : BucketOf(r.key.minute) = b /\ r.key.subject = s})

Totals == SumRows(InWindow)
Point(b) == Added([s \in Subjects |-> Summed(b, s)])
Variable(s) == SumRows({r \in InWindow : r.key.subject = s})

\* Math.round of a quotient of naturals.
Rounded(n, d) == (2 * n + d) \div (2 * d)

\* quantile: q in hundredths.  Linear inside the bucket the rank falls in, and
\* never above the slowest sample.
QuantileUncapped(acc, q) ==
  LET total  == Sum(1..Top, LAMBDA i : acc.hist[i])
      upTo(i) == Sum(1..i, LAMBDA j : acc.hist[j])
      i  == Min({j \in 1..Top : acc.hist[j] > 0 /\ 100 * upTo(j) >= q * total})
      lo == IF i = 1 THEN 0 ELSE Bounds[i - 1]
      hi == IF i < Top THEN Bounds[i] ELSE Max({acc.max, lo})
  IN Rounded(100 * acc.hist[i] * lo + (q * total - 100 * (upTo(i) - acc.hist[i])) * (hi - lo), 100 * acc.hist[i])

Quantile(acc, q) == Min({QuantileUncapped(acc, q), acc.max})

\* stat: the mean per minute, over the buckets with activity (times ten, rounded).
Active == {b \in Buckets : Point(b).count > 0}
PerMinuteAvg == Rounded(10 * Totals.count, Cardinality(Active) * Resolution)

-----------------------------------------------------------------------------
KeepsCount(k) == k.minute >= minute - KeepMinutes

\* Whatever flushes overlap, chunks fail or minutes split, what was recorded is
\* the sum of what waits, what is being written, what is stored and what was
\* dropped at the cap or by a failed insert (collector.ts: reads SUM the rows).
AddsUp ==
  \A k \in {key \in Keys : KeepsCount(key)} :
    LET waiting == IF k \in DOMAIN groups THEN groups[k] ELSE Empty
        writing == SumRows({r \in UNION {b.left : b \in batches} : r.key = k})
        written == SumRows({r \in rows : r.key = k})
    IN Plus(Plus(waiting, writing), Plus(written, dropped[k])) = asked[k]

\* The points of the timeline, and the variables, add up to the totals: the
\* buckets of the sums are those of the timeline (report.ts).
TimelineAddsUp ==
  /\ Added([b \in Buckets |-> Point(b)]) = Totals
  /\ Added([s \in Subjects |-> Variable(s)]) = Totals

\* A percentile lies in the bucket of the sample it stands for, grows with q and
\* never exceeds the slowest sample (histogram.ts: quantile).
QuantilesHold ==
  Totals.seen =>
    \A q \in {50, 95, 99} :
      LET total == Sum(1..Top, LAMBDA i : Totals.hist[i])
          rank  == (q * total + 99) \div 100
          mine  == Min({i \in 1..Top : Sum(1..i, LAMBDA j : Totals.hist[j]) >= rank})
      IN /\ (IF mine = 1 THEN 0 ELSE Bounds[mine - 1]) <= Quantile(Totals, q)
         /\ mine < Top => Quantile(Totals, q) <= Bounds[mine]
         /\ Quantile(Totals, q) <= Totals.max
         /\ Quantile(Totals, 50) <= Quantile(Totals, q)

ReportHolds == AddsUp /\ TimelineAddsUp /\ QuantilesHold

\* report.ts: the mean count per minute is over minutes that had activity.
MeanOverActiveMinutes ==
  Totals.count > 0 =>
    PerMinuteAvg = Rounded(10 * Totals.count,
                           Cardinality({r.key.minute : r \in {x \in InWindow : x.acc.count > 0}}))
=============================================================================
