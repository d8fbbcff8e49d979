CONSTANTS
    h1 = h1
    h2 = h2
    h3 = h3
    NoCommit = NoCommit
    Commits = {h1, h2}
    Moves <- CommitAndReset
    Trailing <- AllStateFacts
    Clients = {c1, c2}
    Ops = {"sync", "forget"}
    MaxMoves = 0
    MaxFailures = 0
    LexMayVanish = FALSE
    MayHangUp = FALSE
SPECIFICATION FairSpec
PROPERTY WaitersAnswered
CHECK_DEADLOCK FALSE
