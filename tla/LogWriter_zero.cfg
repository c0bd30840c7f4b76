CONSTANTS
    Ladders = {0}
    Top = 1
    RotateSize = 3
    Sizes = {1, 2, 4}
    MaxLines = 4
SPECIFICATION LogSpec
PROPERTY ZeroKeepsEverything
CHECK_DEADLOCK FALSE
