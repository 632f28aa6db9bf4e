--------------------------------- MODULE Stats ---------------------------------
(***************************************************************************)
(* The summaries of internal/analyzer/stats/stats.go and the coverage of   *)
(* analyzeHost in recommend.go, over a host's minutes [ts, v] in the order *)
(* of time; ts counts minutes, v is an integer percentage.                 *)
(***************************************************************************)
EXTENDS Integers, Sequences, FiniteSets, SequencesExt, FiniteSetsExt

CONSTANTS
    Values,     \* the values a minute may have
    Gaps,       \* the minutes from one record to the next; 1 when none is missing
    DayLen,     \* minutes of a day
    MaxMinutes  \* bound: the length of the series

ASSUME StatsAssumption ==
    Values \subseteq Nat /\ Gaps \subseteq Nat \ {0} /\ DayLen \in Nat \ {0} /\ MaxMinutes \in Nat

VARIABLES minutes

statsVars == <<minutes>>

GapTolerance == 3   \* 3*time.Minute in analyzeHost

-----------------------------------------------------------------------------
(* Quantiles, in hundredths.                                               *)

\* Place i has the least value that i elements do not exceed.
Sorted(s) ==
    [i \in DOMAIN s |-> Min({v \in Range(s) : Cardinality({k \in DOMAIN s : s[k] <= v}) >= i})]

\* The q-th percentile of a sorted series, interpolated.
Quantile(s, q) ==
    LET pos == q * (Len(s) - 1)
        lo == pos \div 100
        frac == pos % 100
    IN  IF s = <<>> THEN 0
        ELSE IF frac = 0 THEN 100 * s[lo + 1]
        ELSE s[lo + 1] * (100 - frac) + s[lo + 2] * frac

Summarize(s) ==
    LET t == Sorted(s)
    IN  [p50 |-> Quantile(t, 50), p95 |-> Quantile(t, 95), p99 |-> Quantile(t, 99),
         max |-> IF t = <<>> THEN 0 ELSE 100 * Last(t)]

-----------------------------------------------------------------------------
(* The longest run.  A run is [start, end, minutes, peak]; the loop keeps  *)
(* the current one, the best so far, and the total above the threshold.    *)

NoRun == [start |-> 0, end |-> 0, minutes |-> 0, peak |-> 0]
Better(run, best) == IF run.minutes > best.minutes THEN run ELSE best

\* Mutant: a run that a gap breaks is not compared with the best.
MutantForgetsAtGap(acc, m, threshold) ==
    IF m.v < threshold THEN [acc EXCEPT !.best = Better(acc.cur, acc.best), !.cur = NoRun]
    ELSE IF acc.cur # NoRun /\ m.ts - acc.cur.end <= GapTolerance
    THEN [acc EXCEPT !.total = @ + 1,
                     !.cur = [acc.cur EXCEPT !.end = m.ts, !.minutes = @ + 1, !.peak = Max({@, m.v})]]
    ELSE [acc EXCEPT !.total = @ + 1,
                     !.cur = [start |-> m.ts, end |-> m.ts, minutes |-> 1, peak |-> m.v]]

Step(acc, m, threshold) ==
    IF m.v < threshold THEN [acc EXCEPT !.best = Better(acc.cur, acc.best), !.cur = NoRun]
    ELSE IF acc.cur # NoRun /\ m.ts - acc.cur.end <= GapTolerance
    THEN [acc EXCEPT !.total = @ + 1,
                     !.cur = [acc.cur EXCEPT !.end = m.ts, !.minutes = @ + 1, !.peak = Max({@, m.v})]]
    ELSE [total |-> acc.total + 1, best |-> Better(acc.cur, acc.best),
          cur |-> [start |-> m.ts, end |-> m.ts, minutes |-> 1, peak |-> m.v]]

Sustained(s, threshold) ==
    LET acc[i \in 0..Len(s)] == IF i = 0 THEN [best |-> NoRun, cur |-> NoRun, total |-> 0]
                                ELSE Step(acc[i - 1], s[i], threshold)
        r == acc[Len(s)]
    IN  [longest |-> Better(r.cur, r.best), total |-> r.total]

-----------------------------------------------------------------------------
(* How much was observed (analyzeHost).                                    *)

Span(s) == Last(s).ts - Head(s).ts

CoveragePct(s) == Min({100, (Len(s) * 100) \div (Span(s) + 1)})
ObservedDays(s) == Span(s) \div DayLen + 1

-----------------------------------------------------------------------------
StatsInit == minutes = <<>>

Minute ==
    /\ Len(minutes) < MaxMinutes
    /\ \E g \in Gaps, v \in Values :
        minutes' = Append(minutes, [ts |-> IF minutes = <<>> THEN 1 ELSE Last(minutes).ts + g, v |-> v])

StatsNext == Minute
StatsSpec == StatsInit /\ [][StatsNext]_statsVars

-----------------------------------------------------------------------------
(* Properties.                                                             *)

Vs == [i \in DOMAIN minutes |-> minutes[i].v]

\* recommend.go:187-188: coverage is 100 % exactly when no minute is missing,
\* and a host is never credited with more days than its minutes span.
StatsTypeOK ==
    minutes # <<>> =>
        /\ CoveragePct(minutes) = 100 <=> \A i \in 2..Len(minutes) : minutes[i].ts = minutes[i - 1].ts + 1
        /\ (ObservedDays(minutes) - 1) * DayLen <= Span(minutes)

\* stats.go:43 "Quantile over a sorted slice": the percentiles are ordered, and at
\* most the given share of the minutes, one more when the position falls between
\* two, lies above and below each.
QuantilesSplit ==
    minutes # <<>> =>
        LET t == Summarize(Vs)
            n == Len(minutes) - 1
            splits(x, q) ==
                /\ 100 * (Cardinality({i \in DOMAIN minutes : 100 * minutes[i].v > x}) - 1) < n * (100 - q)
                   \/ x = t.max
                /\ 100 * (Cardinality({i \in DOMAIN minutes : 100 * minutes[i].v < x}) - 1) < n * q \/ x = 100 * Min(Range(Vs))
        IN  /\ t.p50 <= t.p95 /\ t.p95 <= t.p99 /\ t.p99 <= t.max
            /\ splits(t.p50, 50) /\ splits(t.p95, 95) /\ splits(t.p99, 99)

\* A run: minutes i to j all above the threshold, with no gap between two of
\* them above the tolerance.
IsRun(i, j, threshold) ==
    /\ \A k \in i..j : minutes[k].v >= threshold
    /\ \A k \in (i + 1)..j : minutes[k].ts - minutes[k - 1].ts <= GapTolerance

\* stats.go:72-73 "the longest run above threshold and total minutes above ...
\* gaps larger than gapTolerance break a run": no run is longer, and the one that
\* is reported is the first of that length.
LongestIsLongest ==
    \A threshold \in Values :
        LET r == Sustained(minutes, threshold)
            runs == {p \in (DOMAIN minutes) \X (DOMAIN minutes) : p[1] <= p[2] /\ IsRun(p[1], p[2], threshold)}
            best == Max({0} \cup {p[2] - p[1] + 1 : p \in runs})
        IN  /\ r.longest.minutes = best
            /\ r.total = Cardinality({i \in DOMAIN minutes : minutes[i].v >= threshold})
            /\ best > 0 => \E p \in runs :
                  /\ p[2] - p[1] + 1 = best /\ \A q \in runs : q[2] - q[1] + 1 = best => p[1] <= q[1]
                  /\ r.longest.start = minutes[p[1]].ts /\ r.longest.end = minutes[p[2]].ts
                  /\ r.longest.peak = Max({minutes[k].v : k \in p[1]..p[2]})

\* The figures of the report are those of the minutes.
FiguresHold == StatsTypeOK /\ QuantilesSplit /\ LongestIsLongest
=============================================================================
