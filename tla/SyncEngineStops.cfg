SPECIFICATION Spec
CONSTANTS
    s1 = s1
    s2 = s2
    s3 = s3
    d1 = d1
    d2 = d2
    Sidecars = {s1, s2}
    Plain = {}
    DocOf <- TwoDocuments
    Props = {p}
    Thing = thing
    OnCopy = FALSE
    MaxCommits = 3
    MaxResets = 1
    MaxStops = 2
INVARIANT MarkerIsEarned
INVARIANT RebuildIsFresh
INVARIANT HistoryOnBranch
INVARIANT SyncedIsCoherent
