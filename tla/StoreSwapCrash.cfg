CONSTANTS
    Commits = {h1, h2}
    None = None
    MaxCrashes = 3
    MaxMoves = 2
    MaxSyncErrors = 1
    MaxOpenErrors = 1
    MaxRenameErrors = 0
    InPlaceSyncs = 0
SPECIFICATION FairSpec
INVARIANT NeverHalfWritten
INVARIANT RecoveryFindsWhole
PROPERTY Implements
PROPERTY StoreComesBack
