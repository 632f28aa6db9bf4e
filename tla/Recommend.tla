------------------------------- MODULE Recommend -------------------------------
(***************************************************************************)
(* What the analyzer recommends: the ladders classifyHost and classifySQL  *)
(* of internal/analyzer/recommend.go and recommend_sql.go, with            *)
(* suggestCapacity, localHARole and the fleet totals of Build.             *)
(* Percentages and gigabytes are integers; Ceil(a, b) is the ceiling of    *)
(* a/b.  The inputs are boundary values of each test of the ladders.       *)
(***************************************************************************)
EXTENDS Common, Integers, Sequences, FiniteSets, SequencesExt, FiniteSetsExt

CONSTANTS
    Hosts,      \* the hosts of this instance: see HostFields
    Instances   \* the SQL Server instances of this instance

\* A host as analyzeHost sums it up, of a machine with vcpu CPUs and ram GB.
HostFields ==
    [days : Nat, coverage : Nat, roles : Seq(STRING), memPct : Nat, pressure : BOOLEAN,
     paging : BOOLEAN, patterns : BOOLEAN, cpu50 : Nat, cpu95 : Nat, cpu99 : Nat, peak99 : Nat,
     peakMax : Nat, over85 : Nat, steal : Nat, vcpu : Nat, ram : Nat, used95 : Nat]

\* An instance as analyzeSQL sums it up; its latest memory is one of those seen.
InstanceFields ==
    [processOnly : BOOLEAN, roles : Seq(STRING), others : Seq(Nat), ram : Nat, max : Nat,
     total : Nat, peak : Nat, target : Nat, pressure : BOOLEAN, grants : Nat, uptime : Nat,
     cpu95 : Nat, ple : Nat]

ASSUME RecommendAssumption ==
    /\ \A h \in Hosts : h \in HostFields
    /\ \A q \in Instances : q \in InstanceFields /\ q.total <= q.peak

VARIABLES
    host,    \* a host to assess, or None
    sql,     \* an instance to assess, or None
    report   \* what the ladder says

recommendVars == <<host, sql, report>>

Ceil(a, b) == -((-a) \div b)
Max2(a, b) == Max({a, b})

CpuTarget == 70          \* cpuTargetPeakPct
MinVCPU == 2             \* minVCPU
OsReserveMinGB == 4      \* osReserveMinGB

-----------------------------------------------------------------------------
(* The host ladder.                                                        *)

\* h.roles: the roles of the availability groups of the host's instances, in
\* the order in which the loop meets them; a map gives any order.
LocalHARole(roles) ==
    LET known == SelectSeq(roles, LAMBDA r : r \in {"SECONDARY", "PRIMARY"})
    IN  IF known = <<>> THEN "" ELSE Head(known)

\* Mutant: the peak is not looked at.
MutantNoPeak(h) == Max2(Ceil(h.vcpu * h.cpu95, CpuTarget), MinVCPU)

\* The least number of CPUs that holds the load.
NeededVCPU(h) ==
    Max2(Max2(Ceil(h.vcpu * h.cpu95, CpuTarget), Ceil(h.vcpu * h.peak99, 100)), MinVCPU)

SuggestCapacity(h) ==
    LET lo == NeededVCPU(h)
        hi == lo + (h.vcpu - lo) \div 3
        ramLo == Max2(4, Ceil(h.used95 * 130, 100))
        ramHi == Max2(ramLo + 2, Ceil(h.used95 * 1625, 1000))
    IN  IF h.vcpu = 0 \/ h.ram = 0 \/ lo >= h.vcpu THEN None
        ELSE [minVCPU |-> lo, maxVCPU |-> IF hi <= lo THEN lo + 1 ELSE hi,
              minRAM |-> IF ramLo >= h.ram THEN 0 ELSE ramLo,
              maxRAM |-> IF ramLo >= h.ram THEN 0 ELSE ramHi]

\* memPct: P95 of the used memory; paging is one of the kinds of pressure.
MemHigh(h) == h.memPct >= 80 \/ h.pressure \/ h.paging
CpuHigh(h) == h.cpu95 >= 75 \/ h.over85 > 30
DominatedByRecurringSpikes(h) == h.patterns /\ h.cpu50 < 35 /\ (h.peakMax >= 85 \/ h.cpu99 >= 60)

\* The switch of classifyHost: the first case that holds.
Rung(h) ==
    IF h.days < 3 \/ h.coverage < 50 THEN "insufficient_data"
    ELSE IF h.days < 7 THEN "monitor_for_longer"
    ELSE IF LocalHARole(h.roles) = "SECONDARY" THEN "ha_dr_constraint"
    ELSE IF MemHigh(h) THEN IF h.memPct >= 90 THEN "insufficient_os_headroom" ELSE "no_change_recommended"
    ELSE IF DominatedByRecurringSpikes(h) THEN "optimize_recurring_workload_before_rightsizing"
    ELSE IF CpuHigh(h) THEN "no_change_recommended"
    ELSE IF h.cpu95 < 40 /\ h.memPct < 60 /\ ~h.paging THEN "likely_rightsizing_candidate"
    ELSE IF h.cpu95 < 55 /\ h.memPct < 75 THEN "possible_rightsizing_candidate"
    ELSE "no_change_recommended"

Reductions == {"optimize_recurring_workload_before_rightsizing", "likely_rightsizing_candidate",
               "possible_rightsizing_candidate"}

ClassifyHost(h) ==
    LET rung == Rung(h)
    IN  [category |-> IF rung = "likely_rightsizing_candidate" /\ h.steal > 5
                      THEN "possible_rightsizing_candidate" ELSE rung,
         suggested |-> IF rung \in Reductions THEN SuggestCapacity(h) ELSE None]

\* What one host adds to Fleet.PotentialVCPU and Fleet.PotentialRAMGB.
Potential(h, s) ==
    [vcpu |-> IF s # None /\ s.minVCPU > 0 /\ s.minVCPU < h.vcpu THEN h.vcpu - s.maxVCPU ELSE 0,
     ram |-> IF s # None /\ s.minRAM > 0 /\ s.maxRAM < h.ram THEN h.ram - s.maxRAM ELSE 0]

-----------------------------------------------------------------------------
(* The SQL ladder.  q.total is the latest and q.peak the largest Total     *)
(* Server Memory, q.max the configured maximum, all in GB: NoLimit for the *)
(* unlimited default, 0 when it could not be read.  q.others are the maxima*)
(* of all instances of the host.                                           *)

NoLimit == 2097152   \* 2147483647 MB
Unlimited(q) == q.max >= NoLimit
PctOfMax(q) == IF q.max = 0 \/ Unlimited(q) THEN 0 ELSE (q.total * 100) \div q.max
OsReserve(ram) == Max2(OsReserveMinGB, Ceil(ram, 10))
SqlRole(roles) == IF roles = <<>> THEN "standalone" ELSE Last(roles)
MultiInstanceRisk(q) ==
    /\ Len(q.others) > 1 /\ q.ram > 0
    /\ \/ \E m \in Range(q.others) : m >= NoLimit
       \/ FoldLeft(LAMBDA a, m : a + m, 0, q.others) + OsReserve(q.ram) > q.ram

ClassifySQL(q) ==
    IF q.processOnly THEN "monitor_for_longer"
    ELSE IF SqlRole(q.roles) = "SECONDARY" THEN "ha_dr_constraint"
    ELSE IF MultiInstanceRisk(q) THEN "multi_instance_memory_allocation_risk"
    ELSE IF Unlimited(q) THEN "sql_memory_configuration_issue"
    ELSE IF q.pressure \/ q.grants > 0 THEN "insufficient_os_headroom"
    ELSE IF q.uptime >= 3 /\ q.total * 100 < q.target * 95 THEN "monitor_for_longer"
    ELSE IF q.uptime < 3 THEN "monitor_for_longer"
    ELSE IF q.cpu95 < 40 /\ q.ple > 3600 /\ q.grants = 0 /\ PctOfMax(q) > 95
    THEN "possible_rightsizing_candidate"
    ELSE "no_change_recommended"

SuggestedMaxMem(ram) == Max2(2, ram - OsReserve(ram))

\* The memory range of the recommendation, or None.
SuggestMemory(q) ==
    LET lo == Ceil(q.peak * 120, 100)
    IN  CASE ClassifySQL(q) = "sql_memory_configuration_issue" ->
                [min |-> SuggestedMaxMem(q.ram), max |-> SuggestedMaxMem(q.ram)]
          [] ClassifySQL(q) = "possible_rightsizing_candidate" -> [min |-> lo, max |-> Ceil(lo * 125, 100)]
          [] OTHER -> None

-----------------------------------------------------------------------------
(* The report of one host or one instance.                                 *)

RecommendInit == host = None /\ sql = None /\ report = None
AssessHost == /\ host' \in Hosts /\ sql' = None
              /\ report' = ClassifyHost(host')
AssessSQL == /\ sql' \in Instances /\ host' = None
             /\ report' = [category |-> ClassifySQL(sql'), suggested |-> SuggestMemory(sql')]
RecommendNext == report = None /\ (AssessHost \/ AssessSQL)
RecommendSpec == RecommendInit /\ [][RecommendNext]_recommendVars

-----------------------------------------------------------------------------
(* Properties.                                                             *)

HostSuggestion == host # None /\ report.suggested # None
SqlReduction == sql # None /\ report.category = "possible_rightsizing_candidate"

Categories == Reductions \cup
    {"insufficient_data", "monitor_for_longer", "ha_dr_constraint", "insufficient_os_headroom",
     "no_change_recommended", "multi_instance_memory_allocation_risk", "sql_memory_configuration_issue"}

\* The report has one of the categories of analyzer.go, and a range that was
\* proposed is one that a machine can be given: two CPUs and a GB at least.
RecommendTypeOK ==
    /\ host = None \/ sql = None
    /\ report # None => report.category \in Categories
    /\ HostSuggestion => /\ report.suggested.minVCPU >= MinVCPU /\ report.suggested.minRAM >= 0
                         /\ Potential(host, report.suggested).vcpu >= 0
    /\ sql # None /\ report.suggested # None => 1 <= report.suggested.min /\ report.suggested.min <= report.suggested.max

\* ARCHITECTURE.md:115 "never downsize under pressure": nothing smaller is
\* proposed to a host with memory pressure, too short a history or too many
\* gaps, on whichever rung it stands; nor less memory to an instance under
\* pressure, or one that has not been up long enough to have filled its cache.
NoReductionUnderPressure ==
    /\ HostSuggestion => /\ host.memPct < 80 /\ ~host.pressure /\ ~host.paging
                         /\ host.days >= 7 /\ host.coverage >= 50
    /\ SqlReduction => /\ ~sql.pressure /\ sql.grants = 0 /\ ~sql.processOnly
                       /\ sql.uptime >= 3 /\ sql.total * 100 >= sql.target * 95

\* ARCHITECTURE.md:121-122: with the least number of CPUs proposed the P95 load
\* stays within 70 % and the P99 peak within 100 %, and the memory holds the P95
\* use with 30 % to spare.
SuggestionHolds ==
    HostSuggestion =>
        LET s == report.suggested IN
        /\ host.vcpu * host.cpu95 <= CpuTarget * s.minVCPU
        /\ host.vcpu * host.peak99 <= 100 * s.minVCPU
        /\ s.minVCPU <= s.maxVCPU /\ s.maxVCPU <= host.vcpu
        /\ s.minRAM > 0 => s.minRAM * 100 >= host.used95 * 130 /\ s.minRAM <= s.maxRAM /\ s.minRAM < host.ram

\* A machine of the proposed size carries the load that was seen, and nothing
\* smaller is proposed where it was not seen to be enough.
AdviceHolds == RecommendTypeOK /\ NoReductionUnderPressure /\ SuggestionHolds

-----------------------------------------------------------------------------
(* Claims of the documentation that the code does not keep.                *)

\* recommend.go:378: "the observed absolute peak below 100% of the new size".
AbsolutePeakFits ==
    HostSuggestion => host.vcpu * host.peakMax <= 100 * report.suggested.minVCPU

\* ARCHITECTURE.md:114: "AG secondary: sized for failover, never by own load".
SecondaryNotSized == HostSuggestion => "SECONDARY" \notin Range(host.roles)

\* analyzer.go:38 "indicative_vcpu_reduction_upper_bound": no reduction within
\* the proposed range gives back more.
FleetCeiling ==
    HostSuggestion => host.vcpu - report.suggested.minVCPU <= Potential(host, report.suggested).vcpu

\* recommend_sql.go:224: "A staged max-server-memory reduction toward %.0f-%.0f
\* GB may be possible": the range is below the configured maximum.
ReductionReduces == SqlReduction => report.suggested.min < sql.max
=============================================================================
