SPECIFICATION FilesSpec
CONSTANTS
    NumServices = 3
    DepLists <- MCDepLists
    Committed <- MCCommitted
    Overlays <- MCOverlays
    Extensions <- MCExtensions
    Streams <- MCStreams
    Queries <- MCQueries
    All = All
    Ladders = {2}
    Top = 2
    RotateSize = 2
    Sizes = {1, 2}
    MaxLines = 5
    ConcurrentUps = FALSE
    Retentions = {0, 7}
    Parts = {"order", "manifest", "logs", "backlog"}
CHECK_DEADLOCK FALSE
INVARIANTS
    OrderCorrect
    CycleReportExact
    AcceptedNeverDeadlocks
    OverlayWins
    NoNameTwice
    RetentionTypeOK
    EmittedInOrder
    NewestPrinted
PROPERTIES
    QuietReadIsComplete
    PrunesOnlyExpired
    PrunesAllExpired
