SPECIFICATION Spec
CONSTANTS
    s1 = s1
    s2 = s2
    s3 = s3
    d1 = d1
    d2 = d2
    Sidecars = {s1, s2}
    Plain = {}
    DocOf <- TwoDocuments
    Props = {"p", "q"}
    Thing = thing
    OnCopy = FALSE
    MaxCommits = 5
    MaxResets = 0
    MaxStops = 2
CONSTRAINT OnScript
INVARIANT ProvesOrAborts
