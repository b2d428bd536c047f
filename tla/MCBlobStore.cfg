SPECIFICATION BlobSpec
CONSTANTS
    Device = {1}
    Time = {1}
    Cutoff = {}
    ItemId = {i1}
    Val = {1, 2}
    BlobId = {b1}
    BlobsOf <- MCBlobsOf
    MaxRev = 4
    PageLimit = 1
    Handler = {h1, h2}
INVARIANTS
    BlobTypeOK
    LivePhotosServed
    RowHasFile
    BackupUsable
SYMMETRY Requests
