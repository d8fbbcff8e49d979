CONSTANTS
    base = base
    soul = soul
    copia = copia
    recall = recall
    remember = remember
    moment = moment
    era = era
    scene = scene
    journal = journal
    own = own
    Order <- Order3
    Newest <- LastOf
    Hooks <- ShipHooks
    Classes <- ShipClasses
    Skills <- ShipSkills
    Composing = {soul, copia}
    HomeOf <- Homes
    BaseOf <- Bases
    Broken <- Unparsable
    Odd <- NotOptional
    LocalHooks = {own}
    OwnHooks = {}
    OwnSkills = {journal}
    Substrates = {"claude"}
    Named = TRUE
    None = None
    MaxCommands = 2
    MaxEdits = 1
SPECIFICATION Spec
INVARIANT ReceiptNotAhead
PROPERTY Converged
PROPERTY ShapesFollow
PROPERTY UserWorkKept
CHECK_DEADLOCK FALSE
