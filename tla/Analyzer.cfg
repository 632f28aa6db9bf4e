SPECIFICATION Spec
CONSTANTS
    None = None
    Families = {"perf", "waits", "io"}
    MayFail = {"server_props", "sys_info", "configurations", "ag_replicas", "perf_counters", "wait_stats", "file_io", "active_requests", "agent_jobs", "memory_grants"}
    JobLists <- MCJobLists
    MaxOps = 2
    MaxRestarts = 1
    Bundles <- MCBundles
    KeySets <- MCKeySets
    Garbage = Garbage
    MaxFaults = 2
    Hosts <- MCHosts
    Instances <- MCInstances
    Keys = {cpu, disk}
    Minutes <- MCMinutes
    MaxDays = 3
    MaxEvents = 5
    Values <- MCValues
    Gaps <- MCGaps
    DayLen = 5
    MaxMinutes = 5
INVARIANTS
    SamplesAreReal
    SilenceIsNoEvidence
    ImportIsHonest
    OverlapIsHarmless
    AdviceHolds
    PatternsHold
    
CHECK_DEADLOCK FALSE
