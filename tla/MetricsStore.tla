---------------------------- MODULE MetricsStore ----------------------------
(***************************************************************************)
(* The time series of pods (internal/metrics/store.go): bounded in age by  *)
(* the retention and in number by a cap, written to SQLite through the     *)
(* asynchronous writer and read back when the process starts.  The series  *)
(* of nodes are kept in the same way, without a cap.                       *)
(* A point is the time it was measured at; what was measured is left out.  *)
(***************************************************************************)
EXTENDS Integers, Sequences, FiniteSets, FiniteSetsExt, SequencesExt

CONSTANTS
  Keys,        \* namespace, pod and container of a series
  Cap,         \* maxPodSeriesKeys
  Retention,   \* of the store, and of the metrics tables
  MaxTime,     \* bound on the clock
  MaxPoints    \* bound on the points of one series

ASSUME StoreAssumption ==
  /\ IsFiniteSet(Keys) /\ Cap \in Nat \ {0} /\ Retention \in Nat \ {0} /\ MaxTime \in Nat /\ MaxPoints \in Nat \ {0}

VARIABLES
  clock,
  series,     \* the series in memory; one without points has no key
  rows,       \* the rows of pod_metrics
  queued,     \* the rows handed to the writer and not yet written
  written,    \* history: the rows ever written that have not expired
  evicted,    \* history: series thrown out by the cap since the process started
  loaded      \* history: nothing was recorded or cleaned up since it started

storeVars == <<clock, series, rows, queued, written, evicted, loaded>>

Rows == Keys \X (0 .. MaxTime)

StoreTypeOK ==
  /\ clock \in 0 .. MaxTime
  /\ \A k \in Keys :
       /\ series[k] \in Seq(0 .. clock)
       /\ \A i, j \in 1 .. Len(series[k]) : i < j => series[k][i] <= series[k][j]
  /\ rows \subseteq Rows /\ queued \subseteq Rows /\ written \subseteq Rows
  /\ evicted \subseteq Keys /\ loaded \in BOOLEAN

StoreInit ==
  /\ clock = 0
  /\ series = [k \in Keys |-> <<>>]
  /\ rows = {} /\ queued = {} /\ written = {} /\ evicted = {} /\ loaded = TRUE

-----------------------------------------------------------------------------
Cutoff == clock - Retention
LiveKeys(s) == {k \in Keys : s[k] # <<>>}

\* The points at the front of the series go, up to the first that has not expired.
Evict(points) ==
  LET kept == {i \in 1 .. Len(points) : points[i] >= Cutoff}
  IN  IF kept = {} THEN <<>> ELSE SubSeq(points, Min(kept), Len(points))

\* Mutant of ExpiredSeries: the first point decides.
ExpiredByFirst(points) == points # <<>> /\ points[1] < Cutoff
ExpiredSeries(points) == points # <<>> /\ Last(points) < Cutoff

WithoutExpired(s) == [k \in Keys |-> IF ExpiredSeries(s[k]) THEN <<>> ELSE s[k]]

\* No series is thrown out before one whose last point is older.
Stalest(s, out) ==
  \A k \in out, l \in LiveKeys(s) \ out : Last(s[k]) <= Last(s[l])

\* What the cap may throw out; equally old series are in no order.
Overflow(s) ==
  IF Cardinality(LiveKeys(s)) <= Cap THEN {{}}
  ELSE {out \in SUBSET LiveKeys(s) :
          Cardinality(out) = Cardinality(LiveKeys(s)) - Cap /\ Stalest(s, out)}

\* cleanupLocked.
Cleaned(s) ==
  \E out \in Overflow(WithoutExpired(s)) :
    /\ series' = [k \in Keys |-> IF k \in out THEN <<>> ELSE WithoutExpired(s)[k]]
    /\ evicted' = evicted \union out

-----------------------------------------------------------------------------
\* The metrics server may answer with a sample of the last cycle, or with the
\* same one again, but not with an older one.
MayFollow(k, t) ==
  /\ t \in {clock, clock - 1} /\ t >= 0
  /\ \A r \in rows \union queued : r[1] = k => r[2] <= t
  /\ series[k] # <<>> => Last(series[k]) <= t

\* RecordPodMetrics, for a pod with one container.
RecordPod(k, t) ==
  /\ Len(series[k]) < MaxPoints /\ MayFollow(k, t)
  /\ LET s == [series EXCEPT ![k] = Evict(Append(@, t))]
     IN  IF 10 * Cardinality(LiveKeys(s)) > 12 * Cap
         THEN Cleaned(s)
         ELSE series' = s /\ UNCHANGED evicted
  /\ queued' = queued \union {<<k, t>>}
  /\ loaded' = FALSE
  /\ UNCHANGED <<clock, rows, written>>

\* The hourly cleanup of the store.
CleanupStore ==
  /\ Cleaned(series)
  /\ loaded' = FALSE
  /\ UNCHANGED <<clock, rows, queued, written>>

KeptRows(rs) == {r \in rs : r[2] >= Cutoff}

\* The daily cleanup of the database.
CleanupRows ==
  /\ rows' = KeptRows(rows)
  /\ UNCHANGED <<clock, series, queued, written, evicted, loaded>>

Write ==
  /\ queued # {}
  /\ rows' = rows \union queued /\ queued' = {}
  /\ written' = written \union queued
  /\ UNCHANGED <<clock, series, evicted, loaded>>

\* A set of times as a sequence, the earliest first.
Timeline(ts) ==
  CHOOSE s \in [1 .. Cardinality(ts) -> ts] :
    ToSet(s) = ts /\ \A i, j \in DOMAIN s : i < j => s[i] < s[j]

\* loadFromDB; a sample that was recorded twice is one row here.
Hydrated(k) == Timeline({r[2] : r \in {q \in rows : q[1] = k /\ q[2] >= Cutoff}})

\* The process dies, and what is queued with it, or is stopped after a Write.
RestartStore ==
  /\ series' = [k \in Keys |-> Hydrated(k)]
  /\ queued' = {} /\ evicted' = {} /\ loaded' = TRUE
  /\ UNCHANGED <<clock, rows, written>>

StoreTick ==
  /\ clock < MaxTime /\ clock' = clock + 1
  /\ written' = {r \in written : r[2] >= Cutoff + 1}
  /\ UNCHANGED <<series, rows, queued, evicted, loaded>>

StoreNext ==
  \/ \E k \in Keys, t \in 0 .. MaxTime : RecordPod(k, t)
  \/ CleanupStore \/ CleanupRows \/ Write \/ RestartStore \/ StoreTick

-----------------------------------------------------------------------------
\* A window misses no point of the retention time that was written, or was
\* recorded since the process started, unless the cap has thrown the series
\* out: neither the cleanup of memory nor that of the tables nor a restart
\* takes more than has expired.
WindowsComplete ==
  \A r \in written \union queued :
    r[2] >= Cutoff /\ r[1] \notin evicted => Contains(series[r[1]], r[2])

\* Series are not more than 120 % of the cap as soon as something is recorded
\* or cleaned up.  Just after a start they may be: the rows of series that the
\* cap had thrown out are read back.
CapHolds == loaded \/ 10 * Cardinality(LiveKeys(series)) <= 12 * Cap

\* The cap never throws out a series for the benefit of a staler one.
StalestGoFirst ==
  [][ \A k \in evicted' \ evicted, l \in LiveKeys(series') :
        k \in LiveKeys(series) /\ l \in LiveKeys(series) =>
          Last(series[k]) <= Last(series'[l]) ]_storeVars

\* The store keeps what it should: whole windows, not too many of them, and at
\* the cap the ones that are still written.
SeriesKept == [](WindowsComplete /\ CapHolds) /\ StalestGoFirst
=============================================================================
