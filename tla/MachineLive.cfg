CONSTANTS
    d1 = d1
    d2 = d2
    n1 = n1
    n2 = n2
    a1 = a1
    Procs = {p1, p2}
    Dirs = {d1}
    Names = {n1}
    DirOf <- LeadsTo
    GenesisOf <- Unrelated
    None = None
    Legacy = {n1}
    FirstNames <- RealPath
    Daemons = {b1, b2}
    CmdOps = {"save", "sync", "restart"}
    OldRepos = {d1}
    Synced = {}
    Started = {b1}
    Impatient = FALSE
SPECIFICATION MFairSpec
PROPERTY SyncedHere
PROPERTY CommandsEnd
PROPERTY StoresCatchUp
CHECK_DEADLOCK FALSE
