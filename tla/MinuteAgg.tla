------------------------------- MODULE MinuteAgg -------------------------------
(***************************************************************************)
(* Minute aggregation: MinuteAgg (Add, FlushPartial, emit) of              *)
(* internal/sampler/sampler.go, as onHostSample and shutdown of            *)
(* internal/agent/agent.go use it, and what normalize of                   *)
(* internal/analyzer/dataset.go makes of the minutes.  The clock is the    *)
(* wall clock: it may be set back.  A sample stands for one gauge (value)  *)
(* and whether its device was there (seen), the two kinds of mean in emit. *)
(***************************************************************************)
EXTENDS Common, Integers, Sequences, FiniteSets, SequencesExt, FiniteSetsExt

CONSTANTS
    Minute,      \* clock units in a minute
    MaxTime,     \* bound: the last moment
    MaxSamples,  \* bound: samples taken
    Values,      \* readings of the gauge
    StepsBack,   \* how far the clock may be set back at once, 0 for not at all
    Stops        \* bound: how often the agent may stop or crash

ASSUME MinuteAggAssumption ==
    /\ Minute \in Nat \ {0} /\ MaxTime \in Nat /\ MaxSamples \in Nat /\ StepsBack \in Nat
    /\ Values \subseteq Nat /\ Stops \in Nat /\ None \notin Nat

VARIABLES
    clock,      \* the wall clock
    alive,    \* the agent runs
    minute,   \* m.minute, or None
    samples,  \* m.samples
    minutes,  \* the host_minute records appended so far
    given,    \* the samples handed to Add so far
    lost,     \* how many of them a crash took
    stops     \* stops and crashes so far

minuteVars == <<clock, alive, minute, samples, minutes, given, lost, stops>>

Reading == [ts : 0..MaxTime, value : Values, seen : BOOLEAN]
MinuteRecord == [ts : Nat, n : Nat \ {0}, of : Seq(Reading), sum : Nat, max : Nat,
           devices : 0..MaxSamples]

MinuteTypeOK ==
    /\ clock \in 0..MaxTime /\ alive \in BOOLEAN /\ minute \in 0..MaxTime \cup {None}
    /\ samples \in Seq(Reading) /\ minutes \in Seq(MinuteRecord)
    /\ given \in 0..MaxSamples /\ lost \in 0..MaxSamples /\ stops \in 0..Stops

-----------------------------------------------------------------------------
Truncate(ts) == ts - (ts % Minute)

\* emit: means over the n samples, maxima, and the mean of a device over the
\* samples that had it (devices of them).
Emit(min, smp) ==
    [ts |-> min, n |-> Len(smp), of |-> smp,
     sum |-> SumFunction([i \in DOMAIN smp |-> smp[i].value]),
     max |-> Max({s.value : s \in Range(smp)} \cup {0}),
     devices |-> Cardinality({i \in DOMAIN smp : smp[i].seen})]

\* Mutant: the record carries the minute of the sample that completes it.
MutantNewMinute(s) ==
    LET min == Truncate(s.ts)
        rolls == minute # None /\ min # minute
    IN  /\ minutes' = IF rolls /\ samples # <<>> THEN Append(minutes, Emit(min, samples)) ELSE minutes
        /\ minute' = min
        /\ samples' = Append(IF minute = None \/ rolls THEN <<>> ELSE samples, s)

\* Mutant: a new minute starts without the sample that opened it.
MutantDropsFirst(s) ==
    LET min == Truncate(s.ts)
        rolls == minute # None /\ min # minute
    IN  /\ minutes' = IF rolls /\ samples # <<>> THEN Append(minutes, Emit(minute, samples)) ELSE minutes
        /\ minute' = min
        /\ samples' = IF rolls THEN <<>> ELSE Append(samples, s)

\* Add: a sample of another minute, later or earlier, completes this one.
Add(s) ==
    LET min == Truncate(s.ts)
        rolls == minute # None /\ min # minute
    IN  /\ minutes' = IF rolls /\ samples # <<>> THEN Append(minutes, Emit(minute, samples)) ELSE minutes
        /\ minute' = min
        /\ samples' = Append(IF minute = None \/ rolls THEN <<>> ELSE samples, s)

FlushPartial ==
    /\ minutes' = IF samples = <<>> THEN minutes ELSE Append(minutes, Emit(minute, samples))
    /\ samples' = <<>>

-----------------------------------------------------------------------------
MinuteInit ==
    /\ clock = 0 /\ alive = TRUE /\ minute = None /\ samples = <<>> /\ minutes = <<>>
    /\ given = 0 /\ lost = 0 /\ stops = 0

\* hostTick: onHostSample.
HostTick(value, seen) ==
    /\ alive /\ given < MaxSamples
    /\ Add([ts |-> clock, value |-> value, seen |-> seen])
    /\ given' = given + 1
    /\ UNCHANGED <<clock, alive, lost, stops>>

Clock(t) ==
    /\ t # clock /\ t >= clock - StepsBack
    /\ clock' = t
    /\ UNCHANGED <<alive, minute, samples, minutes, given, lost, stops>>

Shutdown ==
    /\ alive /\ stops < Stops
    /\ FlushPartial
    /\ alive' = FALSE /\ minute' = None /\ stops' = stops + 1
    /\ UNCHANGED <<clock, given, lost>>

LoseMinute ==
    /\ alive /\ stops < Stops
    /\ alive' = FALSE /\ minute' = None /\ samples' = <<>>
    /\ lost' = lost + Len(samples) /\ stops' = stops + 1
    /\ UNCHANGED <<clock, minutes, given>>

Start ==
    /\ ~alive /\ alive' = TRUE
    /\ UNCHANGED <<clock, minute, samples, minutes, given, lost, stops>>

MinuteNext ==
    \/ \E v \in Values, seen \in BOOLEAN : HostTick(v, seen)
    \/ \E t \in 0..MaxTime : Clock(t)
    \/ Shutdown \/ LoseMinute \/ Start

MinuteSpec == MinuteInit /\ [][MinuteNext]_minuteVars

-----------------------------------------------------------------------------
(* The analyzer's view.                                                    *)

\* normalize: an unstable sort by minute, then the first of each minute is
\* kept; the orders of the copies are all possible.
Normalized ==
    {D \in SUBSET DOMAIN minutes :
        /\ {minutes[i].ts : i \in D} = {minutes[i].ts : i \in DOMAIN minutes}
        /\ \A i, j \in D : minutes[i].ts = minutes[j].ts => i = j}

SamplesOf(D) == SumFunction([i \in D |-> minutes[i].n])

-----------------------------------------------------------------------------
(* Properties.                                                             *)

\* Every sample the agent took is in exactly one record, in the minute under
\* way or lost in a crash, also when the clock is set back over a minute and
\* when the agent stops in the middle of one.
SamplesConserved == given = SamplesOf(DOMAIN minutes) + Len(samples) + lost

\* The minutes are of their types and add up to the samples (sampler.go:250-330).
MinutesAddUp == MinuteTypeOK /\ SamplesConserved

\* A record is about its own minute: every sample in it was taken then.
MinuteHoldsItsOwn ==
    \A i \in DOMAIN minutes : \A s \in Range(minutes[i].of) : Truncate(s.ts) = minutes[i].ts

-----------------------------------------------------------------------------
(* A claim of the documentation that the code does not keep.               *)

\* dataset.go:167-168: normalize "deduplicates minutes that appear in
\* overlapping daily exports".  There is no overlapping export here, so it
\* should leave every sample in the data set.
NothingToDeduplicate == \A D \in Normalized : SamplesOf(D) = SamplesOf(DOMAIN minutes)
=============================================================================
