CONSTANTS
    Clients = {"c1", "c2"}
    Plays <- Together
    GoalIds = {g1, g2}
    ContributionIds = {k1, k2, k3}
    Last = 2
    Targets = {3, 5}
    Currents = {0}
    Amounts = {1, 3}
    Dues = {1, 4}
    Days = {0, 1, 2, 4}
    DaysInMonth = 2
    Unit = 2
    NotCreated = NotCreated
    Gone = Gone
    Idle = Idle
    Outside = Outside
SPECIFICATION Spec
SYMMETRY AnyIds
CONSTRAINT FewGoals
INVARIANTS
    SavingsFollowContributions
    PlansReachTheirTarget
PROPERTIES
    AmountsFollowContributions
    CompletedWhenReached
\* A run may stop when every id has been used: ids are not used again.
CHECK_DEADLOCK FALSE
