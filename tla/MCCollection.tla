------------------------------ MODULE MCCollection ------------------------------
(***************************************************************************)
(* The parts of the agent that collect, in small instances for TLC.  They  *)
(* share no variable: what an invariant says of one part holds whatever    *)
(* the others do, so a behaviour exercises one part and the others stand   *)
(* still.                                                                  *)
(***************************************************************************)
EXTENDS SpikeCapture, Attribution, Schedule, HostSampler, MinuteAgg, Health

VARIABLE part   \* the part that this behaviour exercises

captureOnly == <<ring, lastProcSnap, lastProcTick, taken, fails, attributed>>
notCapture == <<attributionVars, scheduleVars, samplerVars, minuteVars, healthVars>>

\* The detector alone is exercised three ways, with its own bounds: one series
\* with a static threshold for long, one that follows its baseline, and both at
\* once for events that overlap.
Detectors == {"static", "baseline", "both"}
Live == [static |-> {1}, baseline |-> {2}, both |-> {1, 2}, capture |-> {1}]
Until == [static |-> 10, baseline |-> 7, both |-> 5, capture |-> 7]
Bounded == /\ now' <= Until[part]
           /\ \A k \in Keys \ Live[part] : UNCHANGED series[k]
           /\ part = "both" => \A k \in Keys : \A x \in Range(seen'[k]) : x.v # 60

\* One rule with a static threshold, as for disk latency in config.go; and one that
\* follows the baseline, as for the CPU.
MCRule == [k \in Keys |-> IF k = 1 THEN [static |-> 84, sustained |-> 1, k |-> 0, floor |-> 0]
                          ELSE [static |-> 84, sustained |-> 1, k |-> 4, floor |-> 40]]

\* A database engine that holds the memory, and a batch program that does not.
MCPrograms == [n \in {"sqlservr", "batch"} |->
    IF n = "sqlservr" THEN [rss |-> 2, unit |-> "mssql"] ELSE [rss |-> 1, unit |-> ""]]

\* Hours of six minutes, days of four hours, weeks of two days; and schedules
\* with lists, ranges, steps and a step that does not start at zero.
MCRadix == <<6, 4, 2>>
Part(lo, hi, step) == [lo |-> lo, hi |-> hi, step |-> step]
MCCrons == {<<m, h, d>> : m \in {{Part(0, 5, 1)}, {Part(0, 0, 1)}, {Part(1, 5, 3)},
                                 {Part(0, 0, 1), Part(5, 5, 1)}},
                          h \in {{Part(0, 3, 1)}, {Part(0, 3, 2)}, {Part(1, 2, 1)}, {Part(3, 3, 1)}},
                          d \in {{Part(0, 1, 1)}, {Part(1, 1, 1)}}}

MCLevels == [k \in Keys |-> IF k = 1 THEN {20, 96} ELSE {20, 60, 96}]

MCCpuDeltas == [user : {0, 3}, system : {1}, steal : {2}, other : {0}, idle : {0, 4}, iowait : {0, 2}]
               \cup [user : {0}, system : {0}, steal : {0}, other : {0}, idle : {0}, iowait : {0}]

Init ==
    /\ part \in Detectors \cup {"capture", "attribution", "schedule", "sampler", "minutes", "health"}
    /\ CaptureInit /\ AttributionInit /\ ScheduleInit /\ SamplerInit /\ MinuteInit /\ HealthInit

Next ==
    \/ part \in Detectors /\ SpikeNext /\ Bounded /\ UNCHANGED <<part, captureOnly, notCapture>>
    \/ part = "capture" /\ CaptureNext /\ Bounded /\ UNCHANGED <<part, notCapture>>
    \/ /\ part = "attribution" /\ AttributionNext
       /\ UNCHANGED <<part, captureVars, scheduleVars, samplerVars, minuteVars, healthVars>>
    \/ /\ part = "schedule" /\ ScheduleNext
       /\ UNCHANGED <<part, captureVars, attributionVars, samplerVars, minuteVars, healthVars>>
    \/ /\ part = "sampler" /\ SamplerNext
       /\ UNCHANGED <<part, captureVars, attributionVars, scheduleVars, minuteVars, healthVars>>
    \/ /\ part = "minutes" /\ MinuteNext
       /\ UNCHANGED <<part, captureVars, attributionVars, scheduleVars, samplerVars, healthVars>>
    \/ /\ part = "health" /\ HealthNext
       /\ UNCHANGED <<part, captureVars, attributionVars, scheduleVars, samplerVars, minuteVars>>

Spec == Init /\ [][Next]_<<part, captureVars, notCapture>>
=============================================================================
