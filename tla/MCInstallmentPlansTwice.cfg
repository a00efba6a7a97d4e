\* Two clients.
CONSTANTS
    Clients = {c1, c2}
    PlanIds = {"p1"}
    MaxCount = 3
    Plans <- EveryPlan
    Patches <- EveryPatch
    Periods <- EveryPeriod
    Categories = {"FOOD", "HOME"}
    MaxMonth = 3
    Anchor = 0
    Versions = {1, 2, 3, 4}
    Scopes <- Pair
    NotCreated = NotCreated
    Gone = Gone
    Idle = Idle
    Unchanged = Unchanged
    Null = Null
    NoRow <- NoExpense
SPECIFICATION Spec
SYMMETRY AnyClient
\* A run may stop when every id has been used: ids are not used again.
INVARIANTS
    PrincipalChargedOnce
CHECK_DEADLOCK FALSE
