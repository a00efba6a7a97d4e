CONSTANTS
    DayLength = 1
    Bootstrap = Bootstrap
    Null = Null
    Clients = {"c1", "c2"}
    Plays <- Together
    TxIds = {1, 2}
    Instants = {0, 1, 2}
    Before = "before"
    Absent = Absent
    Idle = Idle
SPECIFICATION MCSpec
CONSTRAINT
    EditsTakeTwoInstants
INVARIANTS
    RequestsAloneGoOn
PROPERTIES
    RequestsAreSteps
    RebuildsAloneRepair
