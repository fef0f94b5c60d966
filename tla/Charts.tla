------------------------------- MODULE Charts --------------------------------
(***************************************************************************)
(* The time series of state.db (store/db.rs) and what a chart makes of     *)
(* them (history.rs).  A process that owns the proxy hands its rows to one *)
(* writer thread, through a queue that drops what it has no room for; any  *)
(* process reads the tables.                                               *)
(*                                                                         *)
(* Times are minutes.  A chart is a sequence of points over a span; a mean *)
(* is a sum and a count, a rate a numerator and a denominator.             *)
(***************************************************************************)
EXTENDS Integers, Sequences, SequencesExt, FiniteSets, FiniteSetsExt

CONSTANTS
  None,
  EndpointOf, \* from a route to what serves it: "default" or a pool
  Capacity,   \* of the queue
  Retain,     \* how long a row is kept
  MaxHold     \* how far a line is carried over a gap

VARIABLES
  now,
  queue,      \* the rows on their way
  table       \* those that have landed, in the order they did

dbVars == <<now, queue, table>>

----------------------------------------------------------------------------
(* store/db.rs *)

\* Each is dropped when the queue is full.
Offered(rows) ==
  FoldLeft(LAMBDA q, row : IF Len(q) < Capacity THEN Append(q, row) ELSE q, queue, rows)

\* record_allowance, for each window of a reading; record_proxied_request.
Samples(key, windows, pct) ==
  [n \in DOMAIN windows |-> [kind |-> "allowance", ts |-> now, of |-> <<key, windows[n]>>, amount |-> pct]]
Request(route, tokens) == [kind |-> "proxied", ts |-> now, of |-> route, amount |-> tokens]

\* The writer thread.
Land ==
  /\ queue # <<>>
  /\ table' = Append(table, Head(queue)) /\ queue' = Tail(queue)
  /\ UNCHANGED now

\* When the database is opened, and once a day.
Prune ==
  /\ table' = SelectSeq(table, LAMBDA row : row.ts >= now - Retain)
  /\ table' # table
  /\ UNCHANGED <<now, queue>>

\* Every sample since then, oldest first; of one minute, as they landed.
AllowanceSince(since) ==
  LET rows == SelectSeq(table, LAMBDA row : row.kind = "allowance" /\ row.ts >= since)
      times == SetToSortSeq({rows[k].ts : k \in DOMAIN rows}, <)
  IN  FlattenSeq([n \in DOMAIN times |-> SelectSeq(rows, LAMBDA row : row.ts = times[n])])

\* What was proxied since then, summed by the bucket and the route; a bucket
\* without traffic is not there.
ProxiedSince(since, bucket) ==
  LET rows == SelectSeq(table, LAMBDA row : row.kind = "proxied" /\ row.ts >= since)
      start(k) == (rows[k].ts \div bucket) * bucket
      groups == {[ts |-> start(k), of |-> rows[k].of] : k \in DOMAIN rows}
      own(g) == {k \in DOMAIN rows : start(k) = g.ts /\ rows[k].of = g.of}
      sum(g) == FoldSet(LAMBDA k, n : n + rows[k].amount, 0, own(g))
  IN  {[ts |-> g.ts, of |-> g.of, tokens |-> sum(g), requests |-> Cardinality(own(g))] : g \in groups}

----------------------------------------------------------------------------
(* history.rs *)

\* The chart bucket of a time, or none of them; `until` is in the last.
BucketOf(ts, since, until, points) ==
  IF ts < since \/ ts > until THEN None
  ELSE Min({((ts - since) * points) \div (until - since), points - 1})

\* resample: the mean of what fell into each bucket, by [ts, value] points.
Resample(series, since, until, points) ==
  [i \in 1..points |->
     LET inside == {k \in DOMAIN series : BucketOf(series[k].ts, since, until, points) = i - 1}
     IN  IF inside = {} THEN None
         ELSE [sum |-> FoldSet(LAMBDA k, n : n + series[k].value, 0, inside), n |-> Cardinality(inside)]]

\* The last known value is carried over a gap of so many buckets.
Held(means, longest) ==
  FoldLeft(LAMBDA h, mean :
             CASE mean # None -> [out |-> Append(h.out, mean), last |-> mean, run |-> 0]
               [] mean = None /\ h.run < longest -> [out |-> Append(h.out, h.last), last |-> h.last, run |-> h.run + 1]
               [] mean = None /\ h.run >= longest -> [out |-> Append(h.out, None), last |-> None, run |-> h.run + 1],
           [out |-> <<>>, last |-> None, run |-> 0], means).out

ResampleHeld(series, since, until, points) ==
  LET width == (until - since) \div points
  IN  Held(Resample(series, since, until, points), IF width > 0 THEN MaxHold \div width ELSE points)

\* Several routes share an endpoint: one point for each of its buckets.
SeriesOf(buckets, endpoint, metric) ==
  LET own == {b \in buckets : EndpointOf[b.of] = endpoint}
      times == SetToSortSeq({b.ts : b \in own}, <)
  IN  [n \in DOMAIN times |->
         [ts |-> times[n], value |-> FoldSet(LAMBDA b, t : t + b[metric], 0, {b \in own : b.ts = times[n]})]]

\* Throughput::rate: per `per` minutes, of buckets that are `bucket` wide.
Rate(buckets, endpoint, metric, bucket, since, until, points, per) ==
  LET means == Resample(SeriesOf(buckets, endpoint, metric), since, until, points)
  IN  [i \in 1..points |-> IF means[i] = None THEN [num |-> 0, den |-> 1]
                           ELSE [num |-> means[i].sum * per, den |-> means[i].n * bucket]]
=============================================================================
