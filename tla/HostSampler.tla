------------------------------ MODULE HostSampler ------------------------------
(***************************************************************************)
(* The host sampler: Sampler.Sample of internal/sampler/sampler.go, with   *)
(* rate and cpuDeltaPct.  One device's cumulative counters stand for all   *)
(* of them; a tick of the ticker is one unit of time.  Counters are 64-bit *)
(* unsigned in the agent and start again when a device is removed and      *)
(* added; the kernel keeps the time fields of /proc/diskstats in 32 bits.  *)
(* The widths are the constants Width and TimeWidth.                       *)
(***************************************************************************)
EXTENDS Common, Integers, FiniteSets

CONSTANTS
    Width,        \* one more than the largest count the agent can hold
    TimeWidth,    \* one more than the largest time the kernel can hold
    MaxCount,     \* bound: the largest count reached
    MaxOps,       \* bound: operations of one interval
    CpuDeltas,    \* what the CPU counters can gain in one interval; none goes back
    Resets,       \* may the device be removed and added again?
    ProbeFails    \* may reading the counters fail?

ASSUME HostSamplerAssumption ==
    /\ Width \in Nat /\ TimeWidth \in Nat \ {0} /\ MaxCount \in Nat /\ MaxOps \in Nat
    /\ TimeWidth <= Width /\ MaxCount < Width
    /\ CpuDeltas \subseteq [user : Nat, system : Nat, steal : Nat, other : Nat, idle : Nat, iowait : Nat]
    /\ Resets \in BOOLEAN /\ ProbeFails \in BOOLEAN

VARIABLES
    dev,     \* the kernel's counters of the device: [count, time]
    work,    \* history: what the device did since it was last read: [count, time]
    behind,  \* history: the last probe failed
    back,    \* history: a counter was lower at the last reading than before
    primed,  \* s.prevTS is set
    prevDisk,    \* s.prevDisk: the counters read last, or None
    out      \* what the last call returned, or None

samplerVars == <<dev, work, behind, back, primed, prevDisk, out>>

Counters == [count : 0..(Width - 1), time : 0..(Width - 1)]

SamplerTypeOK ==
    /\ dev \in Counters /\ primed \in BOOLEAN /\ prevDisk \in Counters \cup {None}
    /\ out # None => /\ out.disk # None => out.disk.iops \in Nat /\ out.disk.lat \in Nat
                     /\ \A f \in DOMAIN out.cpu : out.cpu[f] \in 0..100

-----------------------------------------------------------------------------
(* The arithmetic.                                                         *)

\* Unsigned subtraction.
Minus(a, b) == (a - b) % Width

\* Per interval of one unit of time; a counter that went back gives no rate.
Rate(cur, old) == IF cur < old THEN 0 ELSE cur - old

ClampPct(v) == IF v < 0 THEN 0 ELSE IF v > 100 THEN 100 ELSE v

\* d: the gains of the CPU counters since they were last read.
CpuDeltaPct(d) ==
    LET busy == d.user + d.system + d.steal + d.other
        all == busy + d.idle + d.iowait
        pct(v) == IF all <= 0 THEN 0 ELSE ClampPct((v * 100) \div all)
    IN  [total |-> pct(busy), user |-> pct(d.user), system |-> pct(d.system),
         iowait |-> pct(d.iowait), steal |-> pct(d.steal)]

\* Mutant: the time since the device was added is taken for that of the interval.
MutantWholeTime(cur) ==
    LET ops == Minus(cur.count, prevDisk.count)
    IN  [iops |-> Rate(cur.count, prevDisk.count), lat |-> IF ops > 0 THEN cur.time \div ops ELSE 0]

\* The rates of a device: its latency is not guarded against a reset.
DiskRates(cur) ==
    LET ops == Minus(cur.count, prevDisk.count)
    IN  [iops |-> Rate(cur.count, prevDisk.count),
         lat |-> IF ops > 0 THEN Minus(cur.time, prevDisk.time) \div ops ELSE 0]

-----------------------------------------------------------------------------
(* One interval: the device works, then the sampler reads it.              *)

SamplerInit ==
    /\ dev = [count |-> 0, time |-> 0] /\ work = dev /\ behind = FALSE /\ back = FALSE
    /\ primed = FALSE /\ prevDisk = None /\ out = None

Works(base, ops, time) ==
    /\ base.count + ops <= MaxCount
    /\ ops = 0 => time = 0
    /\ dev' = [count |-> base.count + ops, time |-> (base.time + time) % TimeWidth]
    /\ work' = IF behind THEN [count |-> work.count + ops, time |-> work.time + time]
                         ELSE [count |-> ops, time |-> time]

\* Sample reads every probe; the first call primes them and returns nil.
SampleHost(cpu) ==
    /\ primed' = TRUE
    /\ prevDisk' = dev' /\ behind' = FALSE
    /\ back' = (prevDisk # None /\ (dev'.count < prevDisk.count \/ dev'.time < prevDisk.time))
    /\ out' = IF ~primed THEN None
              ELSE [cpu |-> CpuDeltaPct(cpu),
                    disk |-> IF prevDisk = None THEN None ELSE DiskRates(dev')]

\* disk.IOCounters fails: the old counters stay, the time of the call does not.
SampleWithoutDisk(cpu) ==
    /\ primed' = TRUE
    /\ out' = IF ~primed THEN None ELSE [cpu |-> CpuDeltaPct(cpu), disk |-> None]
    /\ behind' = TRUE /\ UNCHANGED <<prevDisk, back>>

Interval(ops, time, cpu) == Works(dev, ops, time) /\ SampleHost(cpu)
Replug(ops, time, cpu) ==
    Resets /\ Works([count |-> 0, time |-> 0], ops, time) /\ SampleHost(cpu)
FailedProbe(ops, time, cpu) ==
    ProbeFails /\ Works(dev, ops, time) /\ SampleWithoutDisk(cpu)

SamplerNext ==
    \E ops, time \in 0..MaxOps, cpu \in CpuDeltas :
        Interval(ops, time, cpu) \/ Replug(ops, time, cpu) \/ FailedProbe(ops, time, cpu)

SamplerSpec == SamplerInit /\ [][SamplerNext]_samplerVars

-----------------------------------------------------------------------------
(* Properties.                                                             *)

Disk == out # None /\ out.disk # None

\* A rate never claims more operations than the device had since its counters
\* were read last, whatever they did before: no reset, no first reading and no
\* failed probe makes work up or counts it twice.  (The rate is per second of the
\* last interval, sampler.go:93: after a failed probe it is too high.)
RateIsDone == Disk => out.disk.iops <= work.count

\* A latency is an average of the operations since the last reading, so it is no
\* longer than their whole time, as long as no counter went back.
LatencyIsReal == Disk /\ ~back => out.disk.lat <= work.time

\* The shares of the CPU are shares of one whole: the parts of the busy time
\* stay within it, and it leaves room for the wait.  (One point is lost to
\* rounding in each part.)
SharesAddUp ==
    out # None =>
        /\ out.cpu.user + out.cpu.system + out.cpu.steal <= out.cpu.total
        /\ out.cpu.total + out.cpu.iowait <= 100

\* No figure of a host sample is more than the host did.
RatesAreReal == SamplerTypeOK /\ RateIsDone /\ LatencyIsReal /\ SharesAddUp

-----------------------------------------------------------------------------
(* A claim of the documentation that the code does not keep.               *)

\* sampler.go:2 "computes rates from counter deltas": also when a device comes
\* back or the kernel's time field wraps, which rate() looks at and the latency
\* does not.
LatencyIsAlwaysReal == Disk => out.disk.lat <= work.time
=============================================================================
