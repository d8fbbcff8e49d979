CONSTANTS
    h1 = h1
    h2 = h2
    h3 = h3
    NoCommit = NoCommit
    Commits = {h1, h2}
    Moves <- CommitAndReset
    Trailing <- SecondStatesNone
    Clients = {c1, c2}
    Ops = {"sync", "query", "forget"}
    MaxMoves = 1
    MaxFailures = 1
    LexMayVanish = TRUE
    MayHangUp = TRUE
SPECIFICATION Spec
INVARIANT TicketsHonest
INVARIANT StatusTellsStore
INVARIANT ForgottenStaysClosed
INVARIANT AnswersFresh
CHECK_DEADLOCK FALSE
SYMMETRY Symmetry
CONSTRAINT FewDisturbances
