------------------------------- MODULE Recurrence -------------------------------
(***************************************************************************)
(* DetectPatterns of internal/analyzer/recurrence.go: the spike events of  *)
(* a host, clustered by (resource, device) and time of day.  An event is   *)
(* [key, day, min]: the minute of the day in UTC and the day of the year;  *)
(* the events come in the order of their start, as new exports bring them. *)
(***************************************************************************)
EXTENDS Integers, Sequences, FiniteSets, Functions, SequencesExt, FiniteSetsExt

CONSTANTS
    Keys,      \* pairs of resource and device
    Minutes,   \* the minutes of the day at which events start
    MaxDays,   \* bound: the last day
    MaxEvents  \* bound: the number of events

ASSUME RecurrenceAssumption ==
    (\A m \in Minutes : m \in Nat /\ m < 1440) /\ MaxDays \in Nat /\ MaxEvents \in Nat

VARIABLES spikes  \* the host's events, ordered by their start

recurrenceVars == <<spikes>>

Tol == 20   \* recurrenceTolMin

MinuteDist(a, b) == LET d == IF a < b THEN b - a ELSE a - b IN IF d > 720 THEN 1440 - d ELSE d

\* Two events are near in time of day.
Near(evs, i, j) == MinuteDist(evs[i].min, evs[j].min) <= Tol

\* The events of one group, by index, that start a cluster: those that no
\* earlier one has used.
Bases(evs, key) ==
    LET bases[n \in 0..Len(evs)] ==
            IF n = 0 THEN {}
            ELSE IF evs[n].key = key /\ \A b \in bases[n - 1] : ~Near(evs, b, n) THEN bases[n - 1] \cup {n}
            ELSE bases[n - 1]
    IN  bases[Len(evs)]

\* Mutant: a cluster takes what an earlier one has used.
MutantUsedTwice(evs, bases, b) ==
    {i \in b..Len(evs) : evs[i].key = evs[b].key /\ Near(evs, b, i)}

\* What one base takes: the later events near it that no earlier base took.
Cluster(evs, bases, b) ==
    {i \in b..Len(evs) : evs[i].key = evs[b].key /\ Near(evs, b, i) /\ \A c \in bases : c < b => ~Near(evs, c, i)}

Clusters(evs, key) == LET bases == Bases(evs, key) IN {Cluster(evs, bases, b) : b \in bases}

Days(evs, c) == {evs[i].day : i \in c}
MeanMin(evs, c) == SumFunctionOnSet([i \in c |-> evs[i].min], c) \div Cardinality(c)

\* The patterns of the report, with the indices of their events.
DetectPatterns(evs) ==
    UNION {{[key |-> k, ids |-> c, timeOfDay |-> MeanMin(evs, c), days |-> Cardinality(Days(evs, c))] :
            c \in {x \in Clusters(evs, k) : Cardinality(x) >= 3 /\ Cardinality(Days(evs, x)) >= 3}} : k \in Keys}

-----------------------------------------------------------------------------
RecurrenceInit == spikes = <<>>

Later(e, f) == f.day > e.day \/ (f.day = e.day /\ f.min >= e.min)

NewSpike ==
    /\ Len(spikes) < MaxEvents
    /\ \E e \in [key : Keys, day : 1..MaxDays, min : Minutes] :
        /\ spikes # <<>> => Later(Last(spikes), e)
        /\ spikes' = Append(spikes, e)

RecurrenceNext == NewSpike
RecurrenceSpec == RecurrenceInit /\ [][RecurrenceNext]_recurrenceVars

-----------------------------------------------------------------------------
(* Properties.                                                             *)

\* Every pattern has three events at least and its time of day is a time of
\* day; an event is in one pattern at most, so PatternFor (recurrence.go:108)
\* has no choice.
RecurrenceTypeOK ==
    LET ps == DetectPatterns(spikes) IN
    /\ \A p \in ps : p.timeOfDay \in Nat /\ p.timeOfDay < 1440 /\ Cardinality(p.ids) >= p.days
    /\ \A p, q \in ps : p # q => p.ids \cap q.ids = {}

\* recurrence.go:16 and 26: the events of a pattern lie within twice the
\* tolerance of one another on the clock, also around midnight.
PatternIsTight ==
    \A p \in DetectPatterns(spikes) : \A i, j \in p.ids :
        /\ spikes[i].key = spikes[j].key
        /\ Min({(spikes[i].min - spikes[j].min) % 1440, (spikes[j].min - spikes[i].min) % 1440}) <= 2 * Tol

\* recurrence.go:29 "A pattern needs >= 3 occurrences on >= 3 distinct days":
\* and a job that runs at the same minute on three days is found, with all its
\* events in one pattern, whatever else spikes around it.
RegularJobIsFound ==
    \A k \in Keys, m \in Minutes :
        LET job == {i \in DOMAIN spikes : spikes[i].key = k /\ spikes[i].min = m}
        IN  Cardinality({spikes[i].day : i \in job}) >= 3 =>
                \E p \in DetectPatterns(spikes) : p.key = k /\ job \subseteq p.ids

\* The next export never unmakes a pattern: it keeps its events and may gain
\* some (the sort of recurrence.go:39 and the order of the two loops).
PatternsOnlyGrow ==
    spikes # <<>> =>
        \A p \in DetectPatterns(Front(spikes)) :
            \E q \in DetectPatterns(spikes) : q.key = p.key /\ p.ids \subseteq q.ids

\* The patterns are those of the events: tight, complete and stable.
PatternsHold == RecurrenceTypeOK /\ PatternIsTight /\ RegularJobIsFound /\ PatternsOnlyGrow

-----------------------------------------------------------------------------
(* A claim of the documentation that the code does not keep.               *)

\* recurrence.go:97 "spike ... around %s UTC": the time of the pattern is near
\* the time of day of each of its events.
TimeIsNear ==
    \A p \in DetectPatterns(spikes) : \A i \in p.ids :
        MinuteDist(p.timeOfDay, spikes[i].min) <= 2 * Tol
=============================================================================
