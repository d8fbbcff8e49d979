CONSTANTS
    Commits = {h1, h2}
    None = None
    MaxCrashes = 1
    MaxMoves = 1
    MaxSyncErrors = 0
    MaxOpenErrors = 0
    MaxRenameErrors = 0
    InPlaceSyncs = 1
SPECIFICATION Spec
INVARIANT NeverHalfWritten
