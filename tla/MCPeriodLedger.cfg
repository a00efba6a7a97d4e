\* Two transactions and the contributions to a goal, in two scopes.
CONSTANTS
    DayLength <- MCDayLength
    Bootstrap = Bootstrap
    Null = Null
    TxIds = {1, 2}
    Instants <- MCInstants
    Types <- AllTypes
    Amounts = {1}
    ContributionIds = {"c1", "c2"}
    Goals = {"g1"}
    Scopes <- LongAndBroad
SPECIFICATION Spec
INVARIANTS
    LedgersMatchMovements
    ClosingIsRunningBalance
PROPERTIES
    RowsSpec
