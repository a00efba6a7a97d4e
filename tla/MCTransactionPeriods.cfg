\* Three transactions over three days of two instants.
CONSTANTS
    DayLength <- MCDayLength
    Bootstrap = Bootstrap
    Null = Null
    TxIds <- MCTxIds
    Instants <- MCInstants
SPECIFICATION Spec
INVARIANTS
    TypeOK
    PeriodsPartition
    TransactionsInTheirPeriod
    AnchorsFollowSalaries
PROPERTIES
    OnlySalariesMoveOthers
    MigrationKeepsAssignments
