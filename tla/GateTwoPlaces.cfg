CONSTANTS
    Classes <- TwoPlaces
    Properties <- InTextOrder
    DomainKit = "soul"
    Thing <- ThingC
    Integer <- Whole
    Bounded <- OneToFive
    Enumerated <- Moods
    Values <- EitherPlace
    None = None
    Installed <- Kits
    Menu <- AllAxioms
    Orders <- OneOrder
    MaxChanges = 3
    MaxValues = 2
SPECIFICATION Spec
INVARIANT ReadsTheClass
