SPECIFICATION Spec
CONSTANTS
    b1 = b1
    Device = {1, 2}
    Time = {1}
    Cutoff = {2}
    ItemId = {i1}
    Val <- MCVal
    BlobId = {b1}
    BlobsOf <- SecondPhoto
    MaxRev = 8
    PageLimit = 1
    BatchLimit = 1
    MaxWrites = 3
    MaxCuts = 1
    MaxEvents = 3
    Unreadable = {3}
    LostFiles = {b1}
    SignOuts = {2}
    GC = {"unreferenced", "orphaned"}
INVARIANTS
    CleanRowsAgree
    DevicesAgree
    NothingMissed
PROPERTIES
    NeverBackwards
    LossIsDecided
