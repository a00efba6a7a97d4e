\* Loans dated at midnight too, over three days.
CONSTANTS
    DayLength <- MCDayLength
    Bootstrap = Bootstrap
    Null = Null
    TxIds = {1, 2}
    Instants <- ThreeDays
    Types <- AllTypes
    Amounts = {1}
    ContributionIds = {"c1", "c2"}
    Goals = {"g1"}
    Scopes <- Midnight
SPECIFICATION Spec
INVARIANTS
    LedgersMatchMovements
