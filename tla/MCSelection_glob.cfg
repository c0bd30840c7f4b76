SPECIFICATION Spec
CONSTANTS
    alpha = alpha
    zeta = zeta
    workspace = workspace
    api = api
    web = web
    db = db
    Workspace = workspace
    Envs <- MCEnvs
    Services <- MCServices
    Listing <- MCListing
    Manifests <- MCManifests
    Commands <- GlobCommands
    MaxTurns = 0
CHECK_DEADLOCK FALSE
INVARIANTS
    GlobsLeaveWorkspaceAlone
