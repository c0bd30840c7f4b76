CONSTANTS
    p1 = p1
    p2 = p2
    p3 = p3
    extDb = extDb
    Procs = {p1, p2, p3}
    NumServices = 2
    External <- MCExternal
    DependsOn <- MCDependsOn
    Retries <- MCRetries
    LaunchRank <- MCLaunchRank
    Layouts <- MCLayouts
    Jobs <- MixedJobs
    MaxPolls = 0
SPECIFICATION Spec
INVARIANTS
    TypeOK
    GatedLaunch
    RefusedUntouched
    UpReapsOnlyItsOwn
    LinesBounded
    UpOkIsTrue
    RestartRelaunches
    DownRemovesSession
    OwnTeardown
    NoStacking
SYMMETRY Symmetry
CHECK_DEADLOCK FALSE
