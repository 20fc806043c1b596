SPECIFICATION Spec
CONSTANTS
    Workspaces = {w1, w2}
    Hub = Hub
    Global = Global
    MaxMoves = 3
    MaxRefusals = 1
    MaxChanges = 2
SYMMETRY Symmetry
INVARIANTS ListsAreOwn ListsAreFresh
CHECK_DEADLOCK FALSE
