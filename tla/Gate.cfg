CONSTANTS
    Classes <- AllClasses
    Properties <- InTextOrder
    DomainKit = "soul"
    Thing <- ThingC
    Integer <- Whole
    Bounded <- OneToFive
    Enumerated <- Moods
    Values <- AllValues
    None = None
    Installed <- Kits
    Menu <- AllAxioms
    Orders <- TwoOrders
    MaxChanges = 3
    MaxValues = 2
SPECIFICATION Spec
INVARIANT GateAgrees
INVARIANT Authorable
