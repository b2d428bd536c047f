SPECIFICATION Spec
CONSTANTS
    b1 = b1
    Device = {1, 2}
    Time = {1, 2}
    Cutoff = {}
    ItemId = {i1}
    Val <- MCVal
    BlobId = {}
    BlobsOf <- NoPhotos
    MaxRev = 8
    PageLimit = 2
    BatchLimit = 2
    MaxWrites = 2
    MaxCuts = 0
    MaxEvents = 2
    Unreadable = {}
    LostFiles = {}
    SignOuts = {}
    GC = {}
PROPERTIES
    NoWinningEditLost
