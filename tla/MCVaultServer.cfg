SPECIFICATION ServerSpec
CONSTANTS
    b1 = b1
    Device = {1, 2}
    Time = {1, 2}
    Cutoff = {2, 3}
    ItemId = {i1, i2}
    Val = {1, 2}
    BlobId = {b1}
    BlobsOf <- MCBlobsOf
    MaxRev = 3
    PageLimit = 1
INVARIANTS
    ServerTypeOK
    RevisionsSound
    RefsRegistered
PROPERTIES
    ImplementsLog
    PushMakesExact
