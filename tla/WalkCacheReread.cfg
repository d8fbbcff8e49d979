CONSTANTS
    a = a
    b = b
    plain = plain
    linking = linking
    broken = broken
    c1 = c1
    c2 = c2
    Docs = {a, b}
    Texts = {plain, linking, broken}
    Mentions <- Names
    Broken = {broken}
    Nameless = {}
    Contexts = {c1, c2}
    Walkers = {w1}
    None = None
    Kinds = {"save", "query"}
    MaxEdits = 2
    MaxWalks = 3
SPECIFICATION Spec
SYMMETRY AnyContext
INVARIANT SidecarsRightReread
CHECK_DEADLOCK FALSE
