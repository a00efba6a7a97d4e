\* Requests one after the other, or two clients whose reads and writes interleave.
CONSTANTS
    Clients = {c1, c2}
    PlanIds = {"p1"}
    MaxCount = 3
    Plans <- EveryPlan
    Patches <- EveryPatch
    Periods <- EveryPeriod
    Categories = {"FOOD", "HOME"}
    MaxMonth = 3
    Anchor = 0
    Versions = {1, 2, 3, 4}
    Scopes <- AloneAndTogether
    NotCreated = NotCreated
    Gone = Gone
    Idle = Idle
    Unchanged = Unchanged
    Null = Null
    NoRow <- NoExpense
SPECIFICATION Spec
SYMMETRY AnyClient
\* A run may stop when every id has been used: ids are not used again.
INVARIANTS
    PlansStayValid
    SettlementIsRecorded
    ChargedOnceOneByOne
    FinishedIsRecognized
CHECK_DEADLOCK FALSE
