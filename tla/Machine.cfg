CONSTANTS
    d1 = d1
    d2 = d2
    n1 = n1
    n2 = n2
    a1 = a1
    Procs = {p1, p2}
    Dirs = {d1, d2}
    Names = {n1, a1, n2}
    DirOf <- LeadsTo
    GenesisOf <- Clones
    None = None
    Legacy = {a1}
    FirstNames <- RealPath
    Daemons = {b1, b2}
    CmdOps = {"init", "save", "query", "sync", "kit", "nuke", "stop", "restart"}
    OldRepos = {d1}
    Synced = {d1}
    Started = {}
    Impatient = TRUE
SPECIFICATION MSpec
INVARIANT RowsKept
INVARIANT OneSoulPerGenesis
CHECK_DEADLOCK FALSE
SYMMETRY Symmetry
