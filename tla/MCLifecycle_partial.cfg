CONSTANTS
    p1 = p1
    p2 = p2
    p3 = p3
    extDb = extDb
    Procs = {p1, p2}
    NumServices = 2
    External <- MCExternal
    DependsOn <- MCDependsOn
    Retries <- MCRetries
    LaunchRank <- MCLaunchRank
    Layouts <- MCLayouts
    Jobs <- PartialUps
    MaxPolls = 1
SPECIFICATION Spec
PROPERTY PartialUpIdempotent
CHECK_DEADLOCK FALSE
