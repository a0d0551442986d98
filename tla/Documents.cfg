SPECIFICATION FairSpec
CONSTANTS
    u1 = u1
    u2 = u2
    u3 = u3
    d1 = d1
    d2 = d2
    f = f
    g = g
    Uploads <- MCUploads
    Deletes <- MCDeletes
    Files <- MCFiles
    Nothing = nothing
INVARIANTS
    DocumentInv
    StoresAgree
    DeletedIsNotFound
PROPERTY UploadEnds
CHECK_DEADLOCK FALSE
