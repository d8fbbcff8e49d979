CONSTANTS
    Commits = {h1, h2}
    None = None
    MaxCrashes = 2
    MaxMoves = 1
    MaxSyncErrors = 1
    MaxOpenErrors = 1
    MaxRenameErrors = 2
    InPlaceSyncs = 1
SPECIFICATION Spec
INVARIANT HandleInPlace
