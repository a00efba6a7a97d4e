\* Two clients whose transactions overlap.
CONSTANTS
    Clients = {"c1", "c2"}
    Teams <- Overlapping
    Last = 2
    Categories = {"k1"}
    MovementIds = {"m1", "m2"}
    FixedIds = {"f1"}
    Kinds = {"income", "recognized"}
    Amounts = {3}
    Percentages = {50}
    Requirements = {2}
    NotCreated = NotCreated
    Gone = Gone
    Idle = Idle
SPECIFICATION Spec
INVARIANTS
    LedgersFollowMovements
\* A run may stop when every id has been used: ids are not used again.
CHECK_DEADLOCK FALSE
