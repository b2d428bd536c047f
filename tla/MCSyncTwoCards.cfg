SPECIFICATION MiddleSpec
CONSTANTS
    b1 = b1
    Device = {1, 2}
    Time = {1, 2}
    Cutoff = {}
    ItemId = {i1, i2}
    Val <- MCVal
    BlobId = {b1}
    BlobsOf <- ThirdPhoto
    MaxRev = 8
    PageLimit = 1
    BatchLimit = 1
    MaxWrites = 3
    MaxCuts = 1
    MaxEvents = 4
    Unreadable = {}
    LostFiles = {}
    SignOuts = {}
    GC = {}
INVARIANTS
    SyncTypeOK
    NothingMissed
    RefusalIsCurable
    BatchIsSettled
PROPERTIES
    PagesMoveOn
    Converges
