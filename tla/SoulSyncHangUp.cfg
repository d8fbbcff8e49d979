CONSTANTS
    h1 = h1
    h2 = h2
    h3 = h3
    NoCommit = NoCommit
    Commits = {h1, h2}
    Moves <- CommitAndReset
    Trailing <- AllStateFacts
    Clients = {c1, c2}
    Ops = {"nudge", "forget"}
    MaxMoves = 0
    MaxFailures = 0
    LexMayVanish = FALSE
    MayHangUp = TRUE
SPECIFICATION FairSpec
PROPERTY Retires
CHECK_DEADLOCK FALSE
