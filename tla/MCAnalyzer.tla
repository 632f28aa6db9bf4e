------------------------------ MODULE MCAnalyzer ------------------------------
(***************************************************************************)
(* What is collected from SQL Server and what the analyzer makes of it, in *)
(* small instances for TLC: the sampler of an instance, the import, the    *)
(* two ladders, the recurring events and the statistics.  The parts share  *)
(* no variable: what an invariant says of one holds whatever the others    *)
(* do, so a behaviour exercises one part and the others stand still.       *)
(***************************************************************************)
EXTENDS SqlCollect, Dataset, Recommend, Recurrence, Stats

VARIABLE part   \* the part that this behaviour exercises

notCollect == <<datasetVars, recommendVars, recurrenceVars, statsVars>>

\* The rows of msdb.
Job(n, r) == [name |-> n, running |-> r]
MCJobLists == {<<>>, <<Job("backup", TRUE)>>, <<Job("backup", FALSE), Job("index", TRUE)>>, <<Job("index", FALSE)>>}

\* Host a ships segment 2 in two bundles, under two keys, the second with a
\* torn segment and a second part of a minute; host b ships one bundle.
Rec(k, t, i) == [kind |-> k, ts |-> t, id |-> i]
Ct(i, k, r, t) == [id |-> i, key |-> k, records |-> r, torn |-> t]
Old == <<Rec("inventory", 2, "v2"), Rec("minute", 1, "m1"), Rec("minute", 2, "m2"), Rec("spike", 1, "e1"),
         Rec("future", 1, "x1")>>
Again == <<Rec("minute", 3, "m3"), Rec("sql", 3, "q3"), Rec("spike", 2, "e2"), Rec("inventory", 1, "v1")>>
New == <<Rec("minute", 3, "p3"), Rec("inventory", 3, "v3"), Rec("sql", 4, "q4")>>
Other == <<Rec("minute", 2, "n2"), Rec("spike", 2, "f2")>>
MCBundles == <<
    [host |-> "a", key |-> "old", pinned |-> <<Ct(1, "old", Old, FALSE), Ct(2, "old", Again, FALSE)>>],
    [host |-> "a", key |-> "new", pinned |-> <<Ct(3, "new", Again, FALSE), Ct(4, "new", New, TRUE)>>],
    [host |-> "b", key |-> "new", pinned |-> <<Ct(5, "new", Other, FALSE)>>]>>
MCKeySets == {{"old", "new"}, {"new"}}

\* Boundary values of every test of the two ladders.
\* Loads: median, P95, P99 of the minutes, P99 and maximum of the peaks.
MCLoads == {<<10, 20, 40, 60, 70>>, <<10, 39, 55, 99, 100>>, <<20, 40, 60, 70, 90>>,
            <<30, 54, 70, 80, 84>>, <<34, 60, 70, 90, 100>>, <<40, 75, 90, 100, 100>>}
MCMemory == {<<50, FALSE, FALSE>>, <<59, FALSE, TRUE>>, <<60, FALSE, FALSE>>, <<74, TRUE, FALSE>>,
             <<79, FALSE, FALSE>>, <<80, FALSE, FALSE>>, <<90, FALSE, FALSE>>}
MCHistory == {<<2, 100>>, <<6, 100>>, <<7, 49>>, <<7, 50>>}
MCHosts ==
    {[days |-> d[1], coverage |-> d[2], roles |-> r, memPct |-> m[1], pressure |-> m[2], paging |-> m[3],
      patterns |-> p, cpu50 |-> l[1], cpu95 |-> l[2], cpu99 |-> l[3], peak99 |-> l[4], peakMax |-> l[5],
      over85 |-> o, steal |-> st, vcpu |-> v, ram |-> 16, used95 |-> (16 * m[1]) \div 100] :
        d \in MCHistory, r \in {<<>>, <<"SECONDARY">>, <<"PRIMARY", "SECONDARY">>, <<"RESOLVING", "SECONDARY">>},
        m \in MCMemory, p \in BOOLEAN, l \in MCLoads, o \in {30, 31}, st \in {5, 6}, v \in {0, 2, 4, 16}}

\* Memory: RAM, configured maximum, latest and largest total, target.
MCSizes == {<<16, NoLimit, 8, 9, 8>>, <<4, NoLimit, 2, 2, 2>>, <<64, 0, 20, 20, 20>>, <<64, 32, 31, 31, 32>>, <<64, 32, 30, 31, 32>>, <<64, 20, 20, 20, 20>>}
MCInstances ==
    {[processOnly |-> po, roles |-> r, others |-> o, ram |-> z[1], max |-> z[2], total |-> z[3],
      peak |-> z[4], target |-> z[5], pressure |-> pr, grants |-> g, uptime |-> u, cpu95 |-> c, ple |-> p] :
        po \in BOOLEAN, r \in {<<>>, <<"SECONDARY">>, <<"SECONDARY", "PRIMARY">>},
        o \in {<<16>>, <<16, 0>>, <<16, NoLimit>>, <<16, 40>>}, z \in MCSizes, pr \in BOOLEAN, g \in {0, 1},
        u \in {2, 3}, c \in {39, 40}, p \in {3600, 3601}}

\* Midnight lies between two of the minutes, and 725 is half a day away.
MCMinutes == {0, 15, 30, 725, 1435}

MCValues == {60, 70, 85}
MCGaps == {1, 2, 3, 4}

-----------------------------------------------------------------------------
Init ==
    /\ part \in {"samples", "inventory", "dataset", "recommend", "recurrence", "stats"}
    /\ CollectInit /\ DatasetInit /\ RecommendInit /\ RecurrenceInit /\ StatsInit
    /\ part # "inventory" => role = ""
    /\ part # "dataset" => identities = {"new"} /\ \A b \in B : order[b] = b

\* Counters are exercised without inventories, and inventories without counters.
Separate == IF part = "samples" THEN inv' = None /\ context' = None ELSE engine' = Zero

Next ==
    \/ part \in {"samples", "inventory"} /\ CollectNext /\ Separate /\ UNCHANGED <<part, notCollect>>
    \/ part = "dataset" /\ DatasetNext /\ UNCHANGED <<part, collectVars, recommendVars, recurrenceVars, statsVars>>
    \/ part = "recommend" /\ RecommendNext /\ UNCHANGED <<part, collectVars, datasetVars, recurrenceVars, statsVars>>
    \/ part = "recurrence" /\ RecurrenceNext /\ UNCHANGED <<part, collectVars, datasetVars, recommendVars, statsVars>>
    \/ part = "stats" /\ StatsNext /\ UNCHANGED <<part, collectVars, datasetVars, recommendVars, recurrenceVars>>

Spec == Init /\ [][Next]_<<part, collectVars, notCollect>>
=============================================================================
