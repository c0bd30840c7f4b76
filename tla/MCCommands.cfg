SPECIFICATION CommandsSpec
CONSTANTS
    alpha = alpha
    zeta = zeta
    workspace = workspace
    api = api
    web = web
    db = db
    Workspace = workspace
    Envs <- MCEnvs
    Services <- MCServices
    Listing <- MCListing
    Manifests <- MCManifests
    Commands <- MCCommands
    MaxTurns = 2
    Names <- MCNames
    Begins <- MCBegins
    Own <- MCOwn
    Ends <- MCEnds
    Calls <- MCCalls
    MaxVisits = 2
    Log <- MCLog
    Probe <- MCProbe
    MaxSessions = 2
    MaxLaunches = 1
    MaxPid = 5
    Roots <- MCRoots
    Guarded = {5}
    Parts = {"selection", "door", "status", "reap"}
CHECK_DEADLOCK FALSE
INVARIANTS
    TypeOK
    AllPreflightedBeforeAny
    OkMeansAll
    DeadMeansDead
    LaterScopesGoOn
    LossReported
    OnlyAsked
    DestroyedUnlessFailed
    RowsWereTrue
    FailsOnlyOnLoss
    OnlyDescendants
    NoneOverlooked
    GraceBeforeKill
