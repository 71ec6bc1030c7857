SPECIFICATION FairSpec
CONSTANTS
    Files = {f1}
    Deleters = {d1}
    Reconciler = Reconciler
    Purger = Purger
    MaxDeleteAttempts = 2
    MaxPurgeAttempts = 2
    NoFile = NoFile
INVARIANTS
    TypeOK
    LiveFilesReadable
    ErasedIsGone
PROPERTIES
    RetainedFilesSpec
    DeletedFilesErased
CHECK_DEADLOCK FALSE
