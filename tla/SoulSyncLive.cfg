CONSTANTS
    h1 = h1
    h2 = h2
    h3 = h3
    NoCommit = NoCommit
    Commits = {h1, h2}
    Moves <- OneCommit
    Trailing <- AllStateFacts
    Clients = {c1}
    Ops = {"sync", "query", "forget"}
    MaxMoves = 1
    MaxFailures = 1
    LexMayVanish = TRUE
    MayHangUp = FALSE
SPECIFICATION FairSpec
PROPERTY RequestsAnswered
PROPERTY CatchesUp
PROPERTY Retires
CHECK_DEADLOCK FALSE
