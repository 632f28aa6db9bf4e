------------------------------- MODULE SqlCollect -------------------------------
(***************************************************************************)
(* The collectors of one SQL Server instance: CollectInventory,            *)
(* CollectSample and CollectSpikeContext of internal/sqlserver/collect.go. *)
(* Any query may fail at any call.  Rates are given per sample interval,   *)
(* not per second, and one operation is more than 0.1 per second.          *)
(***************************************************************************)
EXTENDS Common, Integers, Sequences, FiniteSets, SequencesExt

CONSTANTS
    Families,   \* the counter families that count in this instance: see Work
    MayFail,    \* the queries that may fail
    JobLists,   \* the rows msdb may return: sequences of [name, running]
    MaxOps,     \* bound on the operations of the engine between two restarts
    MaxRestarts

ASSUME SqlCollectAssumption ==
    /\ Families \subseteq {"perf", "waits", "io"}
    /\ JobLists \subseteq Seq([name : STRING, running : BOOLEAN])
    /\ MaxOps \in Nat /\ MaxRestarts \in Nat

VARIABLES
    engine,    \* the instance: its cumulative counters since it started
    role,      \* its role in its availability group, "" without one
    restarts,
    work,      \* what the engine did since the last sample
    prev,      \* SampleState of the last sample, or None
    sample,    \* what the last call returned: the rates of a sample, or None,
    inv,       \* an inventory, or None,
    context,   \* a spike context, or None
    named,     \* the job names exported so far, with the jobs they stand for
    failed,    \* the queries that failed in the last call
    issues     \* the queries it reported

collectVars == <<engine, role, restarts, work, prev, sample, inv, context, named, failed, issues>>
outputs == <<sample, inv, context, named>>

Queries == {"server_props", "sys_info", "configurations", "ag_replicas", "perf_counters",
            "wait_stats", "file_io", "memory_grants", "active_requests", "agent_jobs"}

Zero == [batch |-> 0, waitMS |-> 0, waits |-> 0, reads |-> 0, writes |-> 0, stall |-> 0]

-----------------------------------------------------------------------------
(* CollectSample.                                                          *)

\* Mutant: a failed query keeps the counters of the last success.
MutantKeepsOld(query, fields) ==
    IF query \in failed' THEN IF prev = None THEN None ELSE prev[query]
    ELSE [f \in fields |-> engine[f]]

\* The counters a query leaves in the new state; none when it failed.
Remember(query, fields) == IF query \in failed' THEN None ELSE [f \in fields |-> engine[f]]

State == [perf_counters |-> Remember("perf_counters", {"batch"}),
          wait_stats |-> Remember("wait_stats", {"waitMS", "waits"}),
          file_io |-> Remember("file_io", {"reads", "writes", "stall"})]

Both(query) == prev # None /\ prev[query] # None /\ query \notin failed'
Delta(query, f) == engine[f] - prev[query][f]

PerfRate ==
    IF Both("perf_counters") /\ Delta("perf_counters", "batch") >= 0 THEN Delta("perf_counters", "batch") ELSE 0

WaitDelta ==
    IF Both("wait_stats") /\ Delta("wait_stats", "waitMS") > 0
    THEN [ms |-> Delta("wait_stats", "waitMS"), count |-> Delta("wait_stats", "waits")] ELSE None

\* A file is reported when something was read or written; latency is per read.
FileIO ==
    IF Both("file_io") /\ (Delta("file_io", "reads") > 0 \/ Delta("file_io", "writes") > 0)
    THEN [reads |-> Delta("file_io", "reads"), writes |-> Delta("file_io", "writes"),
          readLat |-> IF Delta("file_io", "reads") > 0
                      THEN Delta("file_io", "stall") \div Delta("file_io", "reads") ELSE 0]
    ELSE None

\* memory_grants has no else branch: its error is not reported.
CollectSample ==
    /\ failed' \in SUBSET (MayFail \cap {"perf_counters", "wait_stats", "file_io", "memory_grants"})
    /\ issues' = failed' \ {"memory_grants"}
    /\ prev' = State
    /\ sample' = [batch |-> PerfRate, wait |-> WaitDelta, io |-> FileIO, done |-> work]
    /\ work' = Zero /\ inv' = None /\ context' = None
    /\ UNCHANGED <<engine, role, restarts, named>>

-----------------------------------------------------------------------------
(* CollectInventory.                                                       *)

\* Mutant: a start time that was not read is the beginning of time.
MutantUptime == 30

\* Days up; the model's engine has been up for a month.
Uptime == IF "sys_info" \in failed' THEN 0 ELSE 30

CollectInventory ==
    /\ failed' \in SUBSET (MayFail \cap {"server_props", "sys_info", "configurations", "ag_replicas"})
    /\ inv' = IF "server_props" \in failed' THEN None
              ELSE [max |-> IF "configurations" \in failed' THEN 0 ELSE 32,
                    uptime |-> Uptime,
                    roles |-> IF role = "" \/ "ag_replicas" \in failed' THEN <<>> ELSE <<role>>,
                    was |-> role,
                    unread |-> failed']
    /\ issues' = IF "server_props" \in failed' THEN {}
                 ELSE failed' \ (IF role = "" THEN {"ag_replicas"} ELSE {})
    /\ sample' = None /\ context' = None
    /\ UNCHANGED <<engine, role, restarts, work, prev, named>>

-----------------------------------------------------------------------------
(* CollectSpikeContext in privacy mode.                                    *)

CorrelationLevel(requests, jobs) ==
    IF \E j \in Range(jobs) : j.running THEN "agent_job"
    ELSE IF requests THEN "active_request" ELSE "process_only"

\* Row i is exported as job-00i.
CollectSpikeContext ==
    /\ failed' \in SUBSET (MayFail \cap {"active_requests", "agent_jobs"})
    /\ \E requests \in BOOLEAN, rows \in JobLists :
        LET jobs == IF "agent_jobs" \in failed' THEN <<>> ELSE rows
            seen == requests /\ "active_requests" \notin failed'
        IN  /\ context' = [level |-> CorrelationLevel(seen, jobs), requests |-> seen, jobs |-> jobs]
            /\ named' = named \cup {<<i, jobs[i].name>> : i \in DOMAIN jobs}
    /\ issues' = failed'
    /\ sample' = None /\ inv' = None
    /\ UNCHANGED <<engine, role, restarts, work, prev>>

-----------------------------------------------------------------------------
(* The instance, and the agent's restart.                                  *)

Add(c, fs) == [f \in DOMAIN c |-> IF f \in DOMAIN fs THEN c[f] + fs[f] ELSE c[f]]

Work ==
    /\ \E fs \in (IF "perf" \in Families THEN {[batch |-> 1]} ELSE {}) \cup
                 (IF "waits" \in Families THEN {[waits |-> 1, waitMS |-> 1], [waits |-> 1, waitMS |-> 4]} ELSE {}) \cup
                 (IF "io" \in Families THEN {[reads |-> 1, stall |-> 1], [reads |-> 1, stall |-> 4], [writes |-> 1]} ELSE {}) :
        /\ engine.batch + engine.waits + engine.reads + engine.writes < MaxOps
        /\ work.batch + work.waits + work.reads + work.writes < MaxOps
        /\ engine' = Add(engine, fs) /\ work' = Add(work, fs)
    /\ UNCHANGED <<role, restarts, prev, failed, issues, outputs>>

EngineRestart ==
    /\ restarts < MaxRestarts /\ restarts' = restarts + 1
    /\ engine' = Zero
    /\ UNCHANGED <<role, work, prev, failed, issues, outputs>>

Failover ==
    /\ role' \in {"PRIMARY", "SECONDARY"} /\ role # "" /\ role' # role
    /\ UNCHANGED <<engine, restarts, work, prev, failed, issues, outputs>>

AgentRestart ==
    /\ prev' = None /\ work' = Zero /\ sample' = None
    /\ UNCHANGED <<engine, role, restarts, inv, context, named, failed, issues>>

CollectInit ==
    /\ engine = Zero /\ role \in {"", "PRIMARY", "SECONDARY"} /\ restarts = 0 /\ work = Zero
    /\ prev = None /\ sample = None /\ inv = None /\ context = None /\ named = {}
    /\ failed = {} /\ issues = {}

CollectNext ==
    \/ CollectSample \/ CollectInventory \/ CollectSpikeContext
    \/ Work \/ EngineRestart \/ Failover \/ AgentRestart

CollectSpec == CollectInit /\ [][CollectNext]_collectVars

-----------------------------------------------------------------------------
(* Properties.                                                             *)

CollectTypeOK ==
    /\ failed \subseteq Queries /\ issues \subseteq failed
    /\ sample # None => sample.batch \in Nat /\ (sample.wait # None => sample.wait.ms > 0)
    /\ inv # None => inv.roles \in Seq({"PRIMARY", "SECONDARY"}) /\ inv.uptime \in Nat

\* ARCHITECTURE.md:100-101 "emits deltas/rates": whatever query fails in between
\* and however often instance and agent restart, a sample never reports more
\* than the engine did since the sample before.
NeverOverstated ==
    sample # None =>
        /\ sample.batch <= sample.done.batch
        /\ sample.wait # None => sample.wait.ms <= sample.done.waitMS
        /\ sample.io # None => sample.io.reads <= sample.done.reads /\ sample.io.writes <= sample.done.writes

\* A sample is of its types and of what the engine did.
SamplesAreReal == CollectTypeOK /\ NeverOverstated

\* SQL_PERMISSIONS.md:40-41: the level of a spike context is what its own rows
\* show, also when one of the two queries is denied.
LevelIsEvidence ==
    context # None =>
        /\ context.level = "agent_job" <=> \E j \in Range(context.jobs) : j.running
        /\ context.level = "active_request" => context.requests

Ladder == INSTANCE Recommend WITH Hosts <- {}, Instances <- {}, host <- None, sql <- None, report <- None

\* The last inventory with samples that ask for nothing, as the analyzer sees it.
Quiet == [processOnly |-> FALSE, roles |-> inv.roles, others |-> <<inv.max>>, ram |-> 64, max |-> inv.max,
          total |-> 32, peak |-> 32, target |-> 32, pressure |-> FALSE, grants |-> 0,
          uptime |-> inv.uptime, cpu95 |-> 5, ple |-> 9000]

\* SQL_PERMISSIONS.md:37 "Every query degrades independently": an inventory with
\* a hole where uptime or configuration should be never leads to the advice to
\* give the instance less memory.
HoleIsNoAdvice ==
    inv # None /\ inv.unread \cap {"sys_info", "configurations"} # {} =>
        Ladder!ClassifySQL(Quiet) # "possible_rightsizing_candidate"

\* What could not be asked is not taken for an answer: neither in the inventory
\* nor about a spike.
SilenceIsNoEvidence == LevelIsEvidence /\ HoleIsNoAdvice

-----------------------------------------------------------------------------
(* Claims of the documentation that the code does not keep.                *)

\* ARCHITECTURE.md:114 "AG secondary: sized for failover, never by own load".
SecondaryIsKnown ==
    inv # None /\ inv.was = "SECONDARY" => Ladder!ClassifySQL(Quiet) = "ha_dr_constraint"

\* DATA_DICTIONARY.md:76-77 "read/write latency + rate from
\* sys.dm_io_virtual_file_stats deltas": rates and latencies are not negative.
FileRatesAreRates ==
    sample # None /\ sample.io # None =>
        sample.io.reads >= 0 /\ sample.io.writes >= 0 /\ sample.io.readLat >= 0

\* DATA_DICTIONARY.md:75 "wait_deltas{} (top waits, ms + count since previous
\* sample)": the count is one.
WaitCountIsCount == sample # None /\ sample.wait # None => sample.wait.count > 0

\* SQL_PERMISSIONS.md:41-42 "All denials appear in permission_issues".
DenialsReported == sample # None => issues = failed

\* CONFIGURATION.md:16 "pseudonymize SQL Agent job names": a pseudonym stands for
\* one job.
PseudonymNamesOneJob == \A x, y \in named : x[1] = y[1] => x[2] = y[2]
=============================================================================
