SPECIFICATION CommandsSpec
CONSTANTS
    alpha = alpha
    zeta = zeta
    workspace = workspace
    api = api
    web = web
    db = db
    Workspace = workspace
    Envs <- MCEnvs
    Services <- MCServices
    Listing <- MCListing
    Manifests <- MCManifests
    Commands <- MCCommands
    MaxTurns = 2
    Names <- MCNames
    Begins <- MCBegins
    Own <- MCOwn
    Ends <- MCEnds
    Calls <- HookCalls
    MaxVisits = 2
    Log <- MCLog
    Probe <- MCProbe
    MaxSessions = 2
    MaxLaunches = 1
    MaxPid = 5
    Roots <- MCRoots
    Guarded = {5}
    Parts = {"door"}
CHECK_DEADLOCK FALSE
INVARIANT DownSparesOthers
