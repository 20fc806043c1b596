SPECIFICATION IngestionSpec
CONSTANTS
    Imports = {i1, i2}
    Files <- MCFiles
    Deliveries <- MCDeliveries
    Documents <- MCDocuments
    Alike <- MCAlike
    WordsIn <- MCWordsIn
    z1 = z1
    z2 = z2
    Unreadable <- MCUnreadable
    Day = 4
    Window = 1
    MinAmount = 1
    ChunkSize = 2
    MaxTime = 2
    MaxDocuments = 1
    MaxFaults = 1
    MaxReviews = 1
SYMMETRY Symmetry
INVARIANTS NoLineIsLost CountsAreTrue LinesComeOnce
CHECK_DEADLOCK FALSE
