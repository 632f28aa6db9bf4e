SPECIFICATION Spec
CONSTANTS
    None = None
    Keys = {1, 2}
    Rule <- MCRule
    Levels <- MCLevels
    PreCap = 3
    MaxPre = 3
    MaxDuring = 4
    MaxPost = 2
    CloseBelow = 1
    PostCapture = 1
    Cooldown = 2
    BaselineWindow = 4
    BaselineMinSamples = 3
    RecomputeEvery = 2
    MaxGap = 1
    Horizon = 10
    ProcEvery = 3
    Window = 1
    MaxFails = 1
    HistCap = 6
    Pids = {1, 2, 3}
    Programs <- MCPrograms
    TopN = 1
    Burst = 2
    MaxSnaps = 3
    Reuse = FALSE
    Radix <- MCRadix
    Tol = 1
    Offset = 0
    Crons <- MCCrons
    Width = 64
    TimeWidth = 8
    MaxCount = 4
    MaxOps = 2
    CpuDeltas <- MCCpuDeltas
    Resets = TRUE
    ProbeFails = TRUE
    Minute = 2
    MaxTime = 5
    MaxSamples = 3
    Values = {1}
    StepsBack = 3
    Stops = 2
    Collectors = {host, proc}
    Errors = {e1, denied}
    Permission = {denied}
    MaxRecent = 1
    MaxMinutes = 1
    MaxDeleted = 1
INVARIANTS
    CooldownHolds
    EventsFollowRule
    SpikesAreEvents
    
    NamedForItsWork
    ScheduleMatches
    RatesAreReal
    MinutesAddUp
    MinuteHoldsItsOwn
    
PROPERTIES
    TopKept
CHECK_DEADLOCK FALSE
