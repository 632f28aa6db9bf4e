----------------------------- MODULE Attribution -----------------------------
(***************************************************************************)
(* What a process snapshot keeps (Collector.Snapshot in                    *)
(* internal/proctop/proctop.go) and what is concluded from several         *)
(* (attribute and rankProcesses in internal/agent/attribution.go), beside  *)
(* the processes themselves: they consume CPU time, exit, and their number *)
(* may be given to another process.  Sorting is unstable in the code and   *)
(* maps are iterated in any order: where values tie, any choice is made.   *)
(* Confidence is in hundredths.                                            *)
(***************************************************************************)
EXTENDS Integers, Sequences, FiniteSets, FiniteSetsExt, Functions

CONSTANTS
    Pids,
    Programs,   \* name -> its resident memory and service unit ("" when none)
    TopN,       \* proc_top_n
    Burst,      \* bound: CPU time a process consumes between two snapshots
    MaxSnaps,   \* bound: snapshots taken
    Reuse       \* whether the number of a process that exits is given again

ASSUME AttributionAssumption ==
    /\ IsFiniteSet(Pids)
    /\ IsFiniteSet(DOMAIN Programs)
    /\ Programs \in [DOMAIN Programs -> [rss : Nat, unit : STRING]]
    /\ TopN \in Nat \ {0} /\ Burst \in Nat /\ MaxSnaps \in Nat /\ Reuse \in BOOLEAN

VARIABLES
    live,     \* the processes of the host: pid -> name and CPU time
    prevProcs,     \* Collector.prev: pid -> CPU time at the last snapshot
    history,  \* Collector.history: what the snapshots kept
    burnt,    \* history: CPU time consumed per name since the first snapshot
    born      \* history: the pids that have had a process

attributionVars == <<live, prevProcs, history, burnt, born>>

Names == DOMAIN Programs
Proc == [name : Names, cpu : Nat]
ProcSample == [pid : Pids, name : Names, cpuPct : Nat, cpuTime : Nat, rss : Nat, unit : STRING]

-----------------------------------------------------------------------------
(* Snapshot.                                                               *)

\* CPU since the previous snapshot, never negative: a smaller CPU time means
\* that the number has a new process.
CpuPct(pid, procs) ==
    IF pid \notin DOMAIN prevProcs \/ procs[pid].cpu < prevProcs[pid] THEN 0
    ELSE procs[pid].cpu - prevProcs[pid]

SampleOf(pid, procs) ==
    LET n == procs[pid].name
    IN  [pid |-> pid, name |-> n, cpuPct |-> CpuPct(pid, procs), cpuTime |-> procs[pid].cpu,
         rss |-> Programs[n].rss, unit |-> Programs[n].unit]

\* The sets of n elements of S, none of which is less by the function measure
\* than one left out.
Largest(S, n, measure) ==
    {T \in SUBSET S : /\ Cardinality(T) = IF Cardinality(S) < n THEN Cardinality(S) ELSE n
                      /\ \A a \in T, b \in S \ T : measure[a] >= measure[b]}

\* Mutant: the second pass takes the same number of processes in all.
MutantSharedQuota(all) ==
    Largest(all, TopN, [s \in all |-> s.cpuPct])

\* The first TopN by CPU, then the first TopN by memory not taken yet.
Kept(all) ==
    LET cpuPct == [s \in all |-> s.cpuPct]
        rss == [s \in all |-> s.rss]
    IN  UNION {{A \cup B : B \in Largest(all \ A, TopN, rss)} : A \in Largest(all, TopN, cpuPct)}

-----------------------------------------------------------------------------
(* rankProcesses and attribute, for a CPU event that covers the snapshots  *)
(* of snaps.                                                               *)

SeenPids(snaps) == {s.pid : s \in UNION Range(snaps)}
Sightings(snaps, pid) == {i \in DOMAIN snaps : \E s \in snaps[i] : s.pid = pid}
In(top, pid) == CHOOSE s \in top : s.pid = pid

\* One accumulator per number: the name of the first sample, and the CPU time
\* between the first and the last.
Merged(snaps, pid) ==
    LET at == Sightings(snaps, pid)
        sample(i) == In(snaps[i], pid)
        units == {i \in at : sample(i).unit # ""}
    IN  [pid |-> pid, name |-> sample(Min(at)).name,
         used |-> sample(Max(at)).cpuTime - sample(Min(at)).cpuTime,
         unit |-> IF units = {} THEN "" ELSE sample(Max(units)).unit]

CoreSeconds(snaps, n) ==
    SumFunctionOnSet([p \in SeenPids(snaps) |-> Merged(snaps, p).used],
                     {p \in SeenPids(snaps) : /\ Merged(snaps, p).name = n
                                              /\ Merged(snaps, p).used > 0})

\* Mutant: the process with the most memory is named.
MutantByMemory(snaps) ==
    {p \in SeenPids(snaps) : \A q \in SeenPids(snaps) :
        Programs[Merged(snaps, p).name].rss >= Programs[Merged(snaps, q).name].rss}

\* The processes that may come first in the ranking.
Tops(snaps) ==
    {p \in SeenPids(snaps) : \A q \in SeenPids(snaps) :
        CoreSeconds(snaps, Merged(snaps, p).name) >= CoreSeconds(snaps, Merged(snaps, q).name)}

Dominates(snaps, n) ==
    2 * CoreSeconds(snaps, n) > SumFunction([m \in Names |-> CoreSeconds(snaps, m)])

Unattributed == [name |-> "none", confidence |-> 0, unit |-> "", sql |-> FALSE]

\* Every result attribute can have; job says whether a scheduled job matches
\* the start, sqlPids are the numbers the SQL manager knows.
Attribute(snaps, job, sqlPids) ==
    LET conclude(p) ==
          LET m == Merged(snaps, p)
              sum == 30 + (IF Dominates(snaps, m.name) THEN 20 ELSE 0)
                        + (IF m.unit # "" THEN 15 ELSE 0) + (IF job THEN 20 ELSE 0)
          IN  [name |-> m.name, unit |-> m.unit,
               confidence |-> IF sum > 90 THEN 90 ELSE sum,
               sql |-> p \in sqlPids \/ m.name = "sqlservr"]
    IN  IF SeenPids(snaps) = {} THEN {Unattributed}
        ELSE {conclude(p) : p \in Tops(snaps)}

-----------------------------------------------------------------------------
AttributionInit ==
    /\ live = <<>> /\ prevProcs = <<>> /\ history = <<>> /\ born = {}
    /\ burnt = [n \in Names |-> 0]

\* Between two snapshots every process goes on or exits, and others start.
Later(pid) ==
    (IF pid \in DOMAIN live
       THEN {[live[pid] EXCEPT !.cpu = @ + d] : d \in {0, Burst}}
       ELSE {})
    \cup (IF pid \in born /\ ~Reuse THEN {} ELSE [name : Names, cpu : {0, Burst}])

Spent(procs, p) ==
    IF p \in DOMAIN live /\ live[p].name = procs[p].name /\ live[p].cpu <= procs[p].cpu
      THEN procs[p].cpu - live[p].cpu ELSE procs[p].cpu

Consumed(procs, n) ==
    IF history = <<>> THEN 0
    ELSE SumFunctionOnSet([p \in DOMAIN procs |-> Spent(procs, p)],
                          {p \in DOMAIN procs : procs[p].name = n})

TakeSnapshot ==
    /\ Len(history) < MaxSnaps
    /\ \E here \in SUBSET Pids :
          \E procs \in [here -> UNION {Later(p) : p \in here}] :
              /\ \A p \in here : procs[p] \in Later(p)
              /\ live' = procs
              /\ prevProcs' = [p \in here |-> procs[p].cpu]
              /\ \E top \in Kept({SampleOf(p, procs) : p \in here}) :
                    history' = Append(history, top)
              /\ burnt' = [n \in Names |-> burnt[n] + Consumed(procs, n)]
              /\ born' = born \cup here

AttributionNext == TakeSnapshot
AttributionSpec == AttributionInit /\ [][AttributionNext]_attributionVars

-----------------------------------------------------------------------------
(* Properties.                                                             *)

AttributionTypeOK ==
    /\ DOMAIN live \subseteq Pids /\ \A p \in DOMAIN live : live[p] \in Proc
    /\ DOMAIN prevProcs = DOMAIN live
    /\ \A i \in DOMAIN history : history[i] \subseteq ProcSample

\* A snapshot is bounded, and still none of the TopN processes by memory is
\* missing because others lead by CPU.
TopKept ==
    [][\A i \in DOMAIN history' \ DOMAIN history :
         LET top == history'[i]
             heavier(p) == {q \in DOMAIN live' : q # p /\
                 Programs[live'[q].name].rss >= Programs[live'[p].name].rss}
         IN  /\ Cardinality(top) <= 2 * TopN
             /\ \A p \in DOMAIN live' : Cardinality(heavier(p)) < TopN
                    => p \in {s.pid : s \in top}]_history

\* No program is charged with more core-seconds than its processes consumed
\* between the first and the last snapshot.
ChargedAtMostConsumed ==
    \A n \in Names : CoreSeconds(history, n) <= burnt[n]

\* When one program consumed more than half of what was observed, it is the
\* one that is named, in whatever order equal processes come.
DominantIsNamed ==
    \A n \in Names : Dominates(history, n) =>
        \A r \in Attribute(history, FALSE, {}) : r.name = n

\* A program is named for the work it did, and for no more (attribution.go:89-150).
NamedForItsWork == AttributionTypeOK /\ ChargedAtMostConsumed /\ DominantIsNamed

-----------------------------------------------------------------------------
(* A claim of the documentation that the code does not keep.               *)

\* docs/ARCHITECTURE.md:86-89: confidence "is additive from independent
\* signals: ... + schedule match (0.2) + SQL evidence".
SqlEvidenceCounts ==
    \A a \in Attribute(history, FALSE, {}), b \in Attribute(history, FALSE, Pids) :
        a.name = b.name /\ ~a.sql /\ b.sql => b.confidence > a.confidence
=============================================================================
