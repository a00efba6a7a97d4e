------------------------------- MODULE Loans -------------------------------
(***************************************************************************)
(* LoansService: money lent to others, its repayments, and the             *)
(* transactions that record both.                                          *)
(*                                                                         *)
(* A request first reads the loan outside any database transaction, checks *)
(* it and computes the new status from what it read; only then it writes,  *)
(* in one transaction.  Read and write are two steps here, and requests of *)
(* several clients interleave between them.  A write is one step: its      *)
(* first statement locks the row of the loan or of the repayment, or       *)
(* depends on it by a foreign key.  A write that finds its row gone fails  *)
(* and rolls back.                                                         *)
(*                                                                         *)
(* The period of the movements is the business of TransactionPeriods and   *)
(* PeriodLedger (RecordLoanMovement, MoveLoan, DropLoanMovement).          *)
(***************************************************************************)
EXTENDS Integers, FiniteSetsExt

CONSTANTS
    Clients,        \* who sends requests, one at a time each
    LoanIds, RepaymentIds,
    Amounts,        \* amounts lent or repaid
    Days,           \* financial days a loan or a repayment is dated
    NotCreated,     \* an id not yet in its table
    Gone,           \* an id whose row was deleted; ids are not used again
    Idle,           \* a client without a request in progress
    Silent,         \* a client that sends no request
    Unchanged       \* a field a PATCH does not send

ASSUME AmountsAssumption == Amounts \subseteq Nat \ {0}
ASSUME RepaymentIdsAssumption == IsFiniteSet(RepaymentIds)
ASSUME DaysAssumption == Days \subseteq Nat

VARIABLES
    loans,      \* loans: id -> [amount, repaid, status, day]
    repayments, \* loan_repayments: id -> [loan, amount, day]
    given,      \* the LOAN_GIVEN of each loan: loan id -> [amount, day]
    returned,   \* the LOAN_REPAYMENT of each repayment: id -> [amount, day]
    requests    \* client -> the request it has read for and not yet written

vars == <<loans, repayments, given, returned, requests>>

Status == {"ACTIVE", "PARTIALLY_PAID", "PAID"}
Loan == [amount : Amounts, repaid : Int, status : Status, day : Days]
Repayment == [loan : LoanIds, amount : Amounts, day : Days]
Movement == [amount : Amounts, day : Days]

\* What a request keeps of what it read
UpdateRequest == [op : {"update"}, loan : LoanIds, amount : Amounts \union {Unchanged},
                  day : Days \union {Unchanged}, status : Status \union {Unchanged}]
RemoveRequest == [op : {"remove"}, loan : LoanIds]
AddRequest == [op : {"addRepayment"}, loan : LoanIds, amount : Amounts, day : Days,
               status : Status]
RemoveRepaymentRequest == [op : {"removeRepayment"}, loan : LoanIds,
                           repayment : RepaymentIds, amount : Amounts, status : Status]
Request == UpdateRequest \union RemoveRequest \union AddRequest \union RemoveRepaymentRequest

ASSUME RowsAssumption ==
    /\ NotCreated # Gone
    /\ \A absent \in {NotCreated, Gone} :
          absent \notin Loan /\ absent \notin Repayment /\ absent \notin Movement
ASSUME RequestsAssumption ==
    /\ Idle # Silent
    /\ \A quiet \in {Idle, Silent} : quiet \notin Request
    /\ Unchanged \notin Amounts /\ Unchanged \notin Days /\ Unchanged \notin Status

Exists(table, id) == table[id] \notin {NotCreated, Gone}

RepaymentsOf(l) == {r \in RepaymentIds : Exists(repayments, r) /\ repayments[r].loan = l}

loanStatusFor(repaid, amount) ==
    CASE repaid >= amount                -> "PAID"
      [] repaid < amount /\ repaid > 0   -> "PARTIALLY_PAID"
      [] repaid < amount /\ repaid <= 0  -> "ACTIVE"

Init ==
    /\ loans      = [l \in LoanIds |-> NotCreated]
    /\ repayments = [r \in RepaymentIds |-> NotCreated]
    /\ given      = [l \in LoanIds |-> NotCreated]
    /\ returned   = [r \in RepaymentIds |-> NotCreated]
    /\ requests \in [Clients -> {Idle, Silent}]

-----------------------------------------------------------------------------
(* create: nothing to read, one transaction *)

CreateLoan(l, amount, day) ==
    /\ loans[l] = NotCreated
    /\ loans' = [loans EXCEPT ![l] = [amount |-> amount, repaid |-> 0,
                                      status |-> "ACTIVE", day |-> day]]
    /\ given' = [given EXCEPT ![l] = [amount |-> amount, day |-> day]]
    /\ UNCHANGED <<repayments, returned, requests>>

-----------------------------------------------------------------------------
(* What a request reads, checks and computes before it writes *)

Begin(c, request) ==
    /\ requests[c] = Idle
    /\ requests' = [requests EXCEPT ![c] = request]
    /\ UNCHANGED <<loans, repayments, given, returned>>

\* The amount may not be lower than what is repaid, the date not after the
\* first repayment; the status changes only with the amount.
BeginUpdate(c, l, amount, day) ==
    /\ Exists(loans, l)
    /\ amount # Unchanged => amount >= loans[l].repaid
    /\ day # Unchanged => \A r \in RepaymentsOf(l) : day <= repayments[r].day
    /\ Begin(c, [op |-> "update", loan |-> l, amount |-> amount, day |-> day,
                 status |-> IF amount = Unchanged THEN Unchanged
                            ELSE loanStatusFor(loans[l].repaid, amount)])

\* A loan with something repaid is not deleted.
BeginRemove(c, l) ==
    /\ Exists(loans, l)
    /\ loans[l].repaid <= 0
    /\ Begin(c, [op |-> "remove", loan |-> l])

BeginAddRepayment(c, l, amount, day) ==
    /\ Exists(loans, l)
    /\ loans[l].day <= day
    /\ Begin(c, [op |-> "addRepayment", loan |-> l, amount |-> amount, day |-> day,
                 status |-> loanStatusFor(loans[l].repaid + amount, loans[l].amount)])

\* Mutant: the status of the loan as if the repayment stayed.
BeginRemoveRepaymentWithStatus(c, r) ==
    /\ Exists(repayments, r)
    /\ LET l == repayments[r].loan
       IN  Begin(c, [op |-> "removeRepayment", loan |-> l, repayment |-> r,
                     amount |-> repayments[r].amount,
                     status |-> loanStatusFor(loans[l].repaid, loans[l].amount)])

BeginRemoveRepayment(c, r) ==
    /\ Exists(repayments, r)
    /\ LET l == repayments[r].loan
           amount == repayments[r].amount
       IN  Begin(c, [op |-> "removeRepayment", loan |-> l, repayment |-> r,
                     amount |-> amount,
                     status |-> loanStatusFor(loans[l].repaid - amount, loans[l].amount)])

-----------------------------------------------------------------------------
(* What it writes *)

Writes(c, op) == requests[c] \notin {Idle, Silent} /\ requests[c].op = op

Answer(c) == requests' = [requests EXCEPT ![c] = Idle]

Sent(value, stored) == IF value = Unchanged THEN stored ELSE value

\* loan.update, then syncGivenTransaction
Update(c) ==
    /\ Writes(c, "update")
    /\ LET q == requests[c]
           l == q.loan
       IN  /\ Exists(loans, l)
           /\ loans' = [loans EXCEPT ![l].amount = Sent(q.amount, @),
                                     ![l].day    = Sent(q.day, @),
                                     ![l].status = Sent(q.status, @)]
           /\ given' = [given EXCEPT ![l].amount = Sent(q.amount, @),
                                     ![l].day    = Sent(q.day, @)]
    /\ Answer(c)
    /\ UNCHANGED <<repayments, returned>>

\* Mutant: the movements of the repayments stay (ON DELETE SET NULL).
RemoveLeavingReturned(c) ==
    /\ Writes(c, "remove")
    /\ LET l == requests[c].loan
       IN  /\ Exists(loans, l)
           /\ loans' = [loans EXCEPT ![l] = Gone]
           /\ given' = [given EXCEPT ![l] = Gone]
           /\ repayments' = [r \in RepaymentIds |->
                               IF r \in RepaymentsOf(l) THEN Gone ELSE repayments[r]]
    /\ Answer(c)
    /\ UNCHANGED returned

\* The foreign keys delete the repayments and the transactions of the loan.
Remove(c) ==
    /\ Writes(c, "remove")
    /\ LET l == requests[c].loan
       IN  /\ Exists(loans, l)
           /\ loans' = [loans EXCEPT ![l] = Gone]
           /\ given' = [given EXCEPT ![l] = Gone]
           /\ repayments' = [r \in RepaymentIds |->
                               IF r \in RepaymentsOf(l) THEN Gone ELSE repayments[r]]
           /\ returned' = [r \in RepaymentIds |->
                               IF r \in RepaymentsOf(l) THEN Gone ELSE returned[r]]
    /\ Answer(c)

AddRepayment(c, r) ==
    /\ Writes(c, "addRepayment")
    /\ LET q == requests[c]
           l == q.loan
       IN  /\ Exists(loans, l)
           /\ repayments[r] = NotCreated
           /\ repayments' = [repayments EXCEPT ![r] =
                               [loan |-> l, amount |-> q.amount, day |-> q.day]]
           /\ returned' = [returned EXCEPT ![r] = [amount |-> q.amount, day |-> q.day]]
           /\ loans' = [loans EXCEPT ![l].repaid = @ + q.amount,
                                     ![l].status = q.status]
    /\ Answer(c)
    /\ UNCHANGED given

\* Mutant: deletes the repayment if it is still there (deleteMany), and takes
\* it from the loan in any case.
RemoveRepaymentIfThere(c) ==
    /\ Writes(c, "removeRepayment")
    /\ LET q == requests[c]
           r == q.repayment
       IN  /\ Exists(loans, q.loan)
           /\ repayments' = [repayments EXCEPT ![r] = Gone]
           /\ returned' = [returned EXCEPT ![r] = Gone]
           /\ loans' = [loans EXCEPT ![q.loan].repaid = @ - q.amount,
                                     ![q.loan].status = q.status]
    /\ Answer(c)
    /\ UNCHANGED given

RemoveRepayment(c) ==
    /\ Writes(c, "removeRepayment")
    /\ LET q == requests[c]
           r == q.repayment
       IN  /\ Exists(repayments, r)
           /\ repayments' = [repayments EXCEPT ![r] = Gone]
           /\ returned' = [returned EXCEPT ![r] = Gone]
           /\ loans' = [loans EXCEPT ![q.loan].repaid = @ - q.amount,
                                     ![q.loan].status = q.status]
    /\ Answer(c)
    /\ UNCHANGED given

\* The row to write to is gone, or the server stopped before the commit: the
\* transaction leaves nothing.
Fail(c) ==
    /\ requests[c] \notin {Idle, Silent}
    /\ Answer(c)
    /\ UNCHANGED <<loans, repayments, given, returned>>

Next ==
    \/ \E l \in LoanIds, amount \in Amounts, day \in Days : CreateLoan(l, amount, day)
    \/ \E c \in Clients, l \in LoanIds :
          \/ \E amount \in Amounts \union {Unchanged}, day \in Days \union {Unchanged} :
                BeginUpdate(c, l, amount, day)
          \/ BeginRemove(c, l)
          \/ \E amount \in Amounts, day \in Days : BeginAddRepayment(c, l, amount, day)
    \/ \E c \in Clients, r \in RepaymentIds : BeginRemoveRepayment(c, r) \/ AddRepayment(c, r)
    \/ \E c \in Clients : Update(c) \/ Remove(c) \/ RemoveRepayment(c) \/ Fail(c)

Spec == Init /\ [][Next]_vars

-----------------------------------------------------------------------------
(* Properties *)

TypeOK ==
    /\ loans \in [LoanIds -> Loan \union {NotCreated, Gone}]
    /\ repayments \in [RepaymentIds -> Repayment \union {NotCreated, Gone}]
    /\ given \in [LoanIds -> Movement \union {NotCreated, Gone}]
    /\ returned \in [RepaymentIds -> Movement \union {NotCreated, Gone}]
    /\ requests \in [Clients -> Request \union {Idle, Silent}]

\* What a loan says was repaid is the sum of its repayments, whatever requests
\* interleave: repaid is incremented and decremented in the database, never
\* written from what a request read.
RepaidIsSumOfRepayments ==
    \A l \in LoanIds : Exists(loans, l) =>
        loans[l].repaid = SumFunction([r \in RepaymentsOf(l) |-> repayments[r].amount])

\* The transactions are those of the loans and the repayments that exist, one
\* each, with their amounts and their dates, and no repayment outlives its
\* loan: the balance of an account counts what the loans count.
MovementsFollowLoans ==
    /\ \A l \in LoanIds :
          given[l] = IF Exists(loans, l)
                     THEN [amount |-> loans[l].amount, day |-> loans[l].day] ELSE loans[l]
    /\ \A r \in RepaymentIds :
          /\ Exists(repayments, r) => Exists(loans, repayments[r].loan)
          /\ returned[r] = IF Exists(repayments, r)
                           THEN [amount |-> repayments[r].amount, day |-> repayments[r].day]
                           ELSE repayments[r]

\* One client or none: every request is answered before the next one is read.
OneByOne == \A c, d \in Clients : requests[c] = Silent \/ requests[d] = Silent \/ c = d

\* The status of a loan says how much of it is repaid ("Estado de un prestamo
\* segun lo abonado frente al monto prestado", loanStatusFor), as long as
\* requests do not overlap: of two clients each may write the status it
\* computed from what it had read.
StatusFollowsRepaid == OneByOne =>
    \A l \in LoanIds : Exists(loans, l) =>
        loans[l].status = loanStatusFor(loans[l].repaid, loans[l].amount)

=============================================================================
