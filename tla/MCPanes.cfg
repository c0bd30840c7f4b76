SPECIFICATION PanesSpec
CONSTANTS
    p1 = p1
    p2 = p2
    p3 = p3
    extDb = extDb
    Procs = {p1, p2}
    NumServices = 2
    External <- MCExternal
    DependsOn <- MCDependsOn
    Retries <- MCRetries
    LaunchRank <- MCLaunchRank
    Layouts <- MCLayouts
    Jobs <- MixedJobs
    MaxPolls = 1
    MaxPid = 4
    Roots <- MCRoots
    Guarded = {3}
    Ladders = {0, 1, 3}
    Top = 3
    RotateSize = 3
    Sizes = {1, 2, 4}
    MaxLines = 6
CHECK_DEADLOCK FALSE
INVARIANTS
    SegmentsOrdered
    SizesBounded
PROPERTIES
    EveryCommandEnds
    Cleared
    NeverOverwrites
    KeepsPromise
