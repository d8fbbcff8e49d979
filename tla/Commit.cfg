CONSTANTS
    i1 = i1
    i2 = i2
    i3 = i3
    thing = thing
    referrer = referrer
    prose = prose
    rejected = rejected
    broken = broken
    p3 = p3
    p1 = p1
    p2 = p2
    Start <- Saved
    Paths = {p1, p2, p3}
    Targets = {p1}
    Bodies = {thing, referrer, prose, rejected, broken}
    Ids = {i1, i2, i3}
    IdOf <- Claims
    RefOf <- RefersTo
    Plain = {prose}
    Broken = {broken}
    Quoted = {p2}
    Chunks <- AllAtOnce
    Invalid = {rejected}
    None = None
    Restamps = {FALSE}
    MaxEdits = 2
    MaxCommands = 2
    Others = TRUE
SPECIFICATION Spec
INVARIANT SaveNotStuck
PROPERTY PairsCommitted
PROPERTY NoOrphansCommitted
PROPERTY GatesHold
PROPERTY DatesKept
PROPERTY LinksFollow
PROPERTY NotesFollowCommit
CHECK_DEADLOCK FALSE
