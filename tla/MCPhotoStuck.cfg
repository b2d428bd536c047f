SPECIFICATION LiveSpec
CONSTANTS
    b1 = b1
    Device = {1, 2}
    Time = {1}
    Cutoff = {}
    ItemId = {i1}
    Val <- MCVal
    BlobId = {b1}
    BlobsOf <- OnePhoto
    MaxRev = 8
    PageLimit = 2
    BatchLimit = 2
    MaxWrites = 3
    MaxCuts = 0
    MaxEvents = 3
    Unreadable = {}
    LostFiles = {}
    SignOuts = {}
    GC = {"orphaned"}
PROPERTIES
    Converges
