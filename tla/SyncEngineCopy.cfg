SPECIFICATION Spec
CONSTANTS
    s1 = s1
    s2 = s2
    s3 = s3
    d1 = d1
    d2 = d2
    Sidecars = {s1, s2, s3}
    Plain = {s3}
    DocOf <- PlainSidecar
    Props = {p}
    Thing = thing
    OnCopy = TRUE
    MaxCommits = 3
    MaxResets = 1
    MaxStops = 1
INVARIANT SyncedIsFresh
INVARIANT AlreadyIsTrue
INVARIANT NeverDamaged
