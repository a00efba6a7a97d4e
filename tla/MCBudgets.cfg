\* One client that sends every kind of request, or two whose transactions overlap.
CONSTANTS
    Clients = {"c1", "c2"}
    Teams <- SmallTeams
    Last = 2
    Categories = {k1, k2}
    MovementIds = {"m1", "m2"}
    FixedIds = {"f1"}
    Kinds = {"income", "recognized"}
    Amounts = {3}
    Percentages = {50}
    Requirements = {2}
    NotCreated = NotCreated
    Gone = Gone
    Idle = Idle
SPECIFICATION Spec
INVARIANTS
    SpentFollowsMovements
    OneAlertPerPeriod
    
PROPERTIES
    LimitsFollowSources
    DeficitIsAlerted
\* A run may stop when every id has been used: ids are not used again.
CHECK_DEADLOCK FALSE
SYMMETRY AnyCategory
CONSTRAINT OneCategoryAlone
