\* Two clients whose reads and writes interleave, one of them or none.
CONSTANTS
    Clients = {"c1", "c2"}
    LoanIds = {"l1"}
    RepaymentIds = {"r1", "r2", "r3"}
    Amounts = {1, 2}
    Days = {1, 2}
    NotCreated = NotCreated
    Gone = Gone
    Idle = Idle
    Silent = Silent
    Unchanged = Unchanged
SPECIFICATION Spec
INVARIANTS
    RepaidIsSumOfRepayments
    MovementsFollowLoans
    StatusFollowsRepaid
\* A run may stop when every id has been used: ids are not used again.
CHECK_DEADLOCK FALSE
