\* Requests one after the other, two clients whose reads and writes interleave, or
\* a card day by day.
CONSTANTS
    Clients = {c1, c2}
    AccountIds = {"a1", "a2"}
    MovementIds = {"m1"}
    Bodies <- AllBodies
    Patches <- AllPatches
    MovementTypes = {"EXPENSE", "TRANSFER"}
    Amounts = {1}
    Limits = {1, 2}
    Today = 1
    MaxHistory = 3
    Cycles <- AllCycles
    Scopes <- AllScopes
    NoLimit = NoLimit
    NoCycle = NoCycle
    NotCreated = NotCreated
    Gone = Gone
    Idle = Idle
    Unchanged = Unchanged
SPECIFICATION Spec
SYMMETRY AnyClient
INVARIANTS
    ProductsFit
    HistoryIsAChain
    RevertRestores
    LatestExplainsAnchor
    NoPaymentIsSkipped
    PlansFollowTheirCard
    InstallmentsStayCharged
PROPERTIES
    TransfersKeepNetWorth
CHECK_DEADLOCK FALSE
