CONSTANTS
    Ladders = {2}
    Top = 2
    RotateSize = 2
    Sizes = {1, 2}
    MaxLines = 4
    ConcurrentUps = FALSE
    Retentions = {0}
SPECIFICATION RetentionSpec
PROPERTY ZeroRetentionKeeps
CHECK_DEADLOCK FALSE
