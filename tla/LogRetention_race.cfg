CONSTANTS
    Ladders = {2}
    Top = 2
    RotateSize = 2
    Sizes = {1, 2}
    MaxLines = 4
    ConcurrentUps = TRUE
    Retentions = {7}
SPECIFICATION RetentionSpec
PROPERTY PrunesOnlyExpired
CHECK_DEADLOCK FALSE
