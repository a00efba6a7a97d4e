----------------------------- MODULE LoansProofs -----------------------------
(***************************************************************************)
(* What is proved of Loans for any number of clients, loans and            *)
(* repayments and any amounts: types, the movements follow the loans       *)
(* however requests interleave, and the status of a loan follows what is   *)
(* repaid when they do not.                                                *)
(*                                                                         *)
(* The invariant adds what a request under way knows: the repayment it is  *)
(* going to delete is the one it read, or is gone; and of a request that   *)
(* is alone, the status it is going to write is the right one.             *)
(***************************************************************************)
EXTENDS Loans, FiniteTheorems, TLAPS

\* A repayment that is still there is as it was read.
AsRead(c) ==
    requests[c] \in RemoveRepaymentRequest =>
        LET r == requests[c].repayment
        IN  /\ repayments[r] # NotCreated
            /\ Exists(repayments, r) => /\ repayments[r].loan = requests[c].loan
                                        /\ repayments[r].amount = requests[c].amount

RepaymentsAsRead == \A c \in Clients : AsRead(c)

\* What a request that is alone is going to write is right for the loan as it is.
WritesRightStatus(q) ==
    /\ loans[q.loan] # NotCreated
    /\ q \in UpdateRequest =>
         IF q.amount = Unchanged THEN q.status = Unchanged
         ELSE q.status = loanStatusFor(loans[q.loan].repaid, q.amount)
    /\ q \in AddRequest =>
         q.status = loanStatusFor(loans[q.loan].repaid + q.amount, loans[q.loan].amount)
    /\ q \in RemoveRepaymentRequest =>
         q.status = loanStatusFor(loans[q.loan].repaid - q.amount, loans[q.loan].amount)

StatusInv ==
    OneByOne =>
        /\ StatusFollowsRepaid
        /\ \A c \in Clients : requests[c] \in Request => WritesRightStatus(requests[c])

MovementsInv == TypeOK /\ MovementsFollowLoans /\ RepaymentsAsRead

-----------------------------------------------------------------------------
(* Types *)

\* An amount is an integer.
LEMMA AmountsAreInt == \A amount \in Amounts : amount \in Int
BY AmountsAssumption

\* A status is one of the three.
LEMMA StatusOfLoan ==
  ASSUME NEW repaid \in Int, NEW amount \in Int
  PROVE  loanStatusFor(repaid, amount) \in Status
BY DEF loanStatusFor, Status

\* What exists is a row, and conversely.
LEMMA RowsExist ==
  ASSUME TypeOK
  PROVE  /\ \A l \in LoanIds : Exists(loans, l) <=> loans[l] \in Loan
         /\ \A r \in RepaymentIds : Exists(repayments, r) <=> repayments[r] \in Repayment
BY RowsAssumption DEF TypeOK, Exists

\* A request under way is a record of its kind.
LEMMA RequestOfKind ==
  ASSUME TypeOK, NEW c \in Clients, NEW op, Writes(c, op)
  PROVE  /\ requests[c] \in Request
         /\ op = "update" => requests[c] \in UpdateRequest
         /\ op = "remove" => requests[c] \in RemoveRequest
         /\ op = "addRepayment" => requests[c] \in AddRequest
         /\ op = "removeRepayment" => requests[c] \in RemoveRepaymentRequest
<1>1. requests[c] \in Request /\ requests[c].op = op
  BY DEF TypeOK, Writes
<1>2. QED
  BY <1>1 DEF Request, UpdateRequest, RemoveRequest, AddRequest, RemoveRepaymentRequest

\* What a request reads and keeps is of its type.
LEMMA ReadRequests ==
  ASSUME TypeOK
  PROVE  /\ \A c \in Clients, l \in LoanIds, amount \in Amounts \union {Unchanged},
               day \in Days \union {Unchanged} :
              BeginUpdate(c, l, amount, day) =>
                \E q \in UpdateRequest :
                    /\ Begin(c, q) /\ q.loan = l /\ q.amount = amount /\ Exists(loans, l)
                    /\ q.status = IF amount = Unchanged THEN Unchanged
                                  ELSE loanStatusFor(loans[l].repaid, amount)
         /\ \A c \in Clients, l \in LoanIds :
              BeginRemove(c, l) =>
                \E q \in RemoveRequest : Begin(c, q) /\ q.loan = l /\ Exists(loans, l)
         /\ \A c \in Clients, l \in LoanIds, amount \in Amounts, day \in Days :
              BeginAddRepayment(c, l, amount, day) =>
                \E q \in AddRequest :
                    /\ Begin(c, q) /\ q.loan = l /\ q.amount = amount /\ Exists(loans, l)
                    /\ q.status = loanStatusFor(loans[l].repaid + amount, loans[l].amount)
<1>1. ASSUME NEW c \in Clients, NEW l \in LoanIds, NEW amount \in Amounts \union {Unchanged},
             NEW day \in Days \union {Unchanged}, BeginUpdate(c, l, amount, day)
      PROVE  \E q \in UpdateRequest :
                /\ Begin(c, q) /\ q.loan = l /\ q.amount = amount /\ Exists(loans, l)
                /\ q.status = IF amount = Unchanged THEN Unchanged
                              ELSE loanStatusFor(loans[l].repaid, amount)
  <2> DEFINE status == IF amount = Unchanged THEN Unchanged
                       ELSE loanStatusFor(loans[l].repaid, amount)
             q == [op |-> "update", loan |-> l, amount |-> amount, day |-> day,
                   status |-> status]
  <2>1. loans[l] \in Loan /\ Exists(loans, l) /\ Begin(c, q)
    BY <1>1, RowsExist DEF BeginUpdate
  <2>2. status \in Status \union {Unchanged}
    BY <2>1, StatusOfLoan, AmountsAssumption DEF Loan
  <2>3. q \in UpdateRequest
    BY <2>2 DEF UpdateRequest
  <2>4. QED
    BY <2>1, <2>3
<1>2. ASSUME NEW c \in Clients, NEW l \in LoanIds, BeginRemove(c, l)
      PROVE  \E q \in RemoveRequest : Begin(c, q) /\ q.loan = l /\ Exists(loans, l)
  BY <1>2 DEF BeginRemove, RemoveRequest
<1>3. ASSUME NEW c \in Clients, NEW l \in LoanIds, NEW amount \in Amounts, NEW day \in Days,
             BeginAddRepayment(c, l, amount, day)
      PROVE  \E q \in AddRequest :
                /\ Begin(c, q) /\ q.loan = l /\ q.amount = amount /\ Exists(loans, l)
                /\ q.status = loanStatusFor(loans[l].repaid + amount, loans[l].amount)
  <2> DEFINE status == loanStatusFor(loans[l].repaid + amount, loans[l].amount)
             q == [op |-> "addRepayment", loan |-> l, amount |-> amount, day |-> day,
                   status |-> status]
  <2>1. loans[l] \in Loan /\ Exists(loans, l) /\ Begin(c, q)
    BY <1>3, RowsExist DEF BeginAddRepayment
  <2>2. status \in Status
    BY <2>1, StatusOfLoan, AmountsAssumption DEF Loan
  <2>3. q \in AddRequest
    BY <2>2 DEF AddRequest
  <2>4. QED
    BY <2>1, <2>3
<1>4. QED
  BY <1>1, <1>2, <1>3

LEMMA ReadRemoval ==
  ASSUME TypeOK, MovementsFollowLoans, NEW c \in Clients, NEW r \in RepaymentIds,
         BeginRemoveRepayment(c, r)
  PROVE  \E q \in RemoveRepaymentRequest :
            /\ Begin(c, q) /\ q.repayment = r /\ Exists(repayments, r)
            /\ q.loan = repayments[r].loan /\ q.amount = repayments[r].amount
            /\ Exists(loans, q.loan)
            /\ q.status = loanStatusFor(loans[q.loan].repaid - q.amount, loans[q.loan].amount)
<1> DEFINE l == repayments[r].loan
           amount == repayments[r].amount
           status == loanStatusFor(loans[l].repaid - amount, loans[l].amount)
           q == [op |-> "removeRepayment", loan |-> l, repayment |-> r,
                 amount |-> amount, status |-> status]
<1>1. Exists(repayments, r) /\ Begin(c, q)
  BY DEF BeginRemoveRepayment
<1>2. repayments[r] \in Repayment /\ Exists(loans, l)
  BY <1>1, RowsExist DEF MovementsFollowLoans
<1>3. l \in LoanIds /\ amount \in Amounts /\ loans[l] \in Loan
  BY <1>2, RowsExist DEF Repayment
<1>4. status \in Status
  <2> HIDE DEF amount, l
  <2>1. loans[l].repaid - amount \in Int /\ loans[l].amount \in Int
    BY <1>3, AmountsAssumption DEF Loan
  <2>2. QED
    BY <2>1, StatusOfLoan
<1>5. q \in RemoveRepaymentRequest
  BY <1>3, <1>4 DEF RemoveRepaymentRequest
<1>6. QED
  BY <1>1, <1>2, <1>5

-----------------------------------------------------------------------------
(* Movements *)

LEMMA InitMovementsInv == Init => MovementsInv
BY RowsAssumption, RequestsAssumption
   DEF Init, MovementsInv, TypeOK, MovementsFollowLoans, RepaymentsAsRead, AsRead, Exists, Request

\* A request that reads changes no row.
LEMMA MovementsOfBegin ==
  ASSUME MovementsInv, NEW c \in Clients, NEW q \in Request, Begin(c, q),
         q \in RemoveRepaymentRequest =>
            /\ repayments[q.repayment] # NotCreated
            /\ repayments[q.repayment].loan = q.loan
            /\ repayments[q.repayment].amount = q.amount
  PROVE  MovementsInv'
<1>1. TypeOK'
  BY DEF MovementsInv, TypeOK, Begin
<1>2. MovementsFollowLoans'
  BY DEF MovementsInv, MovementsFollowLoans, Begin, Exists
<1>3. RepaymentsAsRead'
  <2>1. \A d \in Clients : requests'[d] = IF d = c THEN q ELSE requests[d]
    BY DEF MovementsInv, TypeOK, Begin
  <2>2. QED
    BY <2>1 DEF MovementsInv, RepaymentsAsRead, AsRead, Begin, Exists
<1>4. QED
  BY <1>1, <1>2, <1>3 DEF MovementsInv

\* An answer leaves nothing under way of its client.
LEMMA AnswerKeepsRequests ==
  ASSUME TypeOK, NEW c \in Clients, Answer(c)
  PROVE  /\ requests' \in [Clients -> Request \union {Idle, Silent}]
         /\ requests'[c] = Idle
         /\ \A d \in Clients : requests'[d] \in Request =>
              d # c /\ requests'[d] = requests[d]
BY RequestsAssumption DEF TypeOK, Answer

LEMMA MovementsOfCreateLoan ==
  ASSUME MovementsInv, NEW l \in LoanIds, NEW amount \in Amounts, NEW day \in Days,
         CreateLoan(l, amount, day)
  PROVE  MovementsInv'
<1> DEFINE row == [amount |-> amount, repaid |-> 0, status |-> "ACTIVE", day |-> day]
           movement == [amount |-> amount, day |-> day]
<1>1. /\ row \in Loan /\ movement \in Movement
      /\ loans' = [loans EXCEPT ![l] = row] /\ given' = [given EXCEPT ![l] = movement]
  BY DEF CreateLoan, Loan, Movement, Status
<1>2. TypeOK'
  BY <1>1 DEF CreateLoan, MovementsInv, TypeOK
<1>3. /\ \A k \in LoanIds : Exists(loans, k)' <=> (k = l \/ Exists(loans, k))
      /\ \A k \in LoanIds \ {l} : loans'[k] = loans[k] /\ given'[k] = given[k]
      /\ loans'[l] = row /\ given'[l] = movement
  BY <1>1, RowsAssumption DEF Exists, MovementsInv, TypeOK
<1>4. MovementsFollowLoans'
  <2>1. \A r \in RepaymentIds : Exists(repayments, r) => repayments[r].loan \in LoanIds
    BY RowsExist DEF MovementsInv, Repayment
  <2>2. QED
    BY <1>3, <2>1 DEF CreateLoan, MovementsInv, MovementsFollowLoans, Exists
<1>5. RepaymentsAsRead'
  BY DEF CreateLoan, MovementsInv, RepaymentsAsRead, AsRead, Exists
<1>6. QED
  BY <1>2, <1>4, <1>5 DEF MovementsInv

LEMMA MovementsOfUpdate ==
  ASSUME MovementsInv, NEW c \in Clients, Update(c)
  PROVE  MovementsInv'
<1> DEFINE q == requests[c]
           l == q.loan
           amount == Sent(q.amount, loans[l].amount)
           day == Sent(q.day, loans[l].day)
           status == Sent(q.status, loans[l].status)
           row == [amount |-> amount, repaid |-> loans[l].repaid, status |-> status, day |-> day]
           movement == [amount |-> amount, day |-> day]
<1>1. /\ Exists(loans, l) /\ Answer(c) /\ UNCHANGED <<repayments, returned>>
      /\ q \in UpdateRequest
  BY RequestOfKind DEF Update, MovementsInv
<1>2. l \in LoanIds /\ loans[l] \in Loan /\ given[l] = [amount |-> loans[l].amount, day |-> loans[l].day]
  BY <1>1, RowsExist DEF UpdateRequest, MovementsInv, MovementsFollowLoans
<1>3. /\ amount \in Amounts /\ day \in Days /\ status \in Status
      /\ row \in Loan /\ movement \in Movement
  BY <1>1, <1>2 DEF UpdateRequest, Loan, Movement, Sent
<1>4. /\ loans' = [loans EXCEPT ![l] = row]
      /\ given' = [given EXCEPT ![l] = movement]
  <2>1. /\ loans' = [loans EXCEPT ![l].amount = amount, ![l].day = day, ![l].status = status]
        /\ given' = [given EXCEPT ![l].amount = Sent(q.amount, @), ![l].day = Sent(q.day, @)]
    BY DEF Update
  <2> HIDE DEF q, l, amount, day, status
  <2>2. /\ loans' = [loans EXCEPT ![l] = loans'[l]] /\ given' = [given EXCEPT ![l] = given'[l]]
        /\ loans'[l].amount = amount /\ loans'[l].day = day /\ loans'[l].status = status
        /\ loans'[l].repaid = loans[l].repaid
    BY <1>2, <2>1 DEF MovementsInv, TypeOK, Loan
  <2>3. loans'[l] \in Loan
    BY <1>2, <1>3, <2>1 DEF MovementsInv, TypeOK, Loan
  <2>4. given'[l].amount = Sent(q.amount, given[l].amount) /\ given'[l].day = Sent(q.day, given[l].day)
    BY <1>2, <2>1 DEF MovementsInv, TypeOK
  <2>5. given'[l].amount = amount /\ given'[l].day = day
    BY <1>2, <2>4 DEF amount, day
  <2>6. given'[l] \in Movement
    BY <1>2, <1>3, <2>1, <2>5 DEF MovementsInv, TypeOK, Movement
  <2>7. loans'[l] = row
    BY <2>2, <2>3 DEF Loan
  <2>8. given'[l] = movement
    BY <2>5, <2>6 DEF Movement
  <2>9. QED
    BY <2>2, <2>7, <2>8
<1> HIDE DEF row, movement
<1>5. TypeOK'
  BY <1>1, <1>3, <1>4, AnswerKeepsRequests DEF MovementsInv, TypeOK
<1>6. /\ \A k \in LoanIds : Exists(loans, k)' <=> Exists(loans, k)
      /\ \A k \in LoanIds \ {l} : loans'[k] = loans[k] /\ given'[k] = given[k]
      /\ loans'[l] = row /\ given'[l] = movement
  BY <1>1, <1>2, <1>3, <1>4, RowsAssumption DEF Exists, MovementsInv, TypeOK
<1>7. MovementsFollowLoans'
  <2>1. \A r \in RepaymentIds : Exists(repayments, r) => repayments[r].loan \in LoanIds
    BY RowsExist DEF MovementsInv, Repayment
  <2>2. QED
    BY <1>1, <1>6, <2>1 DEF MovementsInv, MovementsFollowLoans, Exists, row, movement
<1>8. RepaymentsAsRead'
  BY <1>1, AnswerKeepsRequests DEF MovementsInv, RepaymentsAsRead, AsRead, Exists, Request
<1>9. QED
  BY <1>5, <1>7, <1>8 DEF MovementsInv

LEMMA MovementsOfRemove ==
  ASSUME MovementsInv, NEW c \in Clients, Remove(c)
  PROVE  MovementsInv'
<1> DEFINE l == requests[c].loan
<1>1. /\ Exists(loans, l) /\ Answer(c) /\ l \in LoanIds
      /\ loans' = [loans EXCEPT ![l] = Gone]
      /\ given' = [given EXCEPT ![l] = Gone]
      /\ repayments' = [r \in RepaymentIds |->
                          IF r \in RepaymentsOf(l) THEN Gone ELSE repayments[r]]
      /\ returned' = [r \in RepaymentIds |->
                          IF r \in RepaymentsOf(l) THEN Gone ELSE returned[r]]
  BY RequestOfKind DEF Remove, MovementsInv, RemoveRequest
<1> HIDE DEF l
<1>2. TypeOK'
  BY <1>1, AnswerKeepsRequests DEF MovementsInv, TypeOK
<1>3. /\ \A k \in LoanIds \ {l} : loans'[k] = loans[k] /\ given'[k] = given[k]
      /\ loans'[l] = Gone /\ given'[l] = Gone
  BY <1>1 DEF MovementsInv, TypeOK
<1>4. \A r \in RepaymentIds :
         /\ Exists(repayments, r)' <=> (Exists(repayments, r) /\ repayments[r].loan # l)
         /\ Exists(repayments, r) /\ repayments[r].loan # l =>
              repayments'[r] = repayments[r] /\ returned'[r] = returned[r]
         /\ ~ Exists(repayments, r) => repayments'[r] = repayments[r] /\ returned'[r] = returned[r]
         /\ Exists(repayments, r) /\ repayments[r].loan = l =>
              repayments'[r] = Gone /\ returned'[r] = Gone
  BY <1>1 DEF RepaymentsOf, Exists
<1>5. MovementsFollowLoans'
  <2>1. \A r \in RepaymentIds : Exists(repayments, r) => repayments[r].loan \in LoanIds
    BY RowsExist DEF MovementsInv, Repayment
  <2>2. ASSUME NEW k \in LoanIds
        PROVE  given'[k] = IF Exists(loans, k)'
                           THEN [amount |-> loans'[k].amount, day |-> loans'[k].day]
                           ELSE loans'[k]
    BY <1>3 DEF MovementsInv, MovementsFollowLoans, Exists
  <2>3. ASSUME NEW r \in RepaymentIds
        PROVE  /\ Exists(repayments, r)' => Exists(loans, repayments[r].loan)'
               /\ returned'[r] = IF Exists(repayments, r)'
                                 THEN [amount |-> repayments'[r].amount, day |-> repayments'[r].day]
                                 ELSE repayments'[r]
    BY <1>3, <1>4, <2>1 DEF MovementsInv, MovementsFollowLoans, Exists
  <2>4. QED
    BY <2>2, <2>3 DEF MovementsFollowLoans, Exists
<1>6. RepaymentsAsRead'
  <2> SUFFICES ASSUME NEW d \in Clients, requests'[d] \in RemoveRepaymentRequest
               PROVE  AsRead(d)'
    BY DEF RepaymentsAsRead, AsRead
  <2>1. requests'[d] = requests[d] /\ requests[d].repayment \in RepaymentIds
    <3>1. requests'[d] \in Request
      BY DEF Request
    <3>2. requests'[d] = requests[d]
      BY <1>1, <3>1, AnswerKeepsRequests DEF MovementsInv
    <3>3. QED
      BY <3>2 DEF RemoveRepaymentRequest
  <2> DEFINE r == requests[d].repayment
  <2>2. /\ repayments[r] # NotCreated
        /\ Exists(repayments, r) => /\ repayments[r].loan = requests[d].loan
                                    /\ repayments[r].amount = requests[d].amount
    BY <2>1 DEF MovementsInv, RepaymentsAsRead, AsRead
  <2>3. r \in RepaymentIds
    BY <2>1
  <2> HIDE DEF r
  <2>4. /\ repayments'[r] # NotCreated
        /\ repayments'[r] \notin {NotCreated, Gone} =>
             repayments'[r].loan = requests[d].loan /\ repayments'[r].amount = requests[d].amount
    BY <1>4, <2>2, <2>3, RowsAssumption DEF Exists
  <2>5. QED
    BY <2>1, <2>4 DEF r, AsRead, Exists
<1>7. QED
  BY <1>2, <1>5, <1>6 DEF MovementsInv

\* What a repayment, added or removed, makes of its loan.
LEMMA RepaidLoan ==
  ASSUME TypeOK, NEW l \in LoanIds, loans[l] \in Loan, NEW repaid \in Int, NEW status \in Status,
         loans' = [loans EXCEPT ![l].repaid = repaid, ![l].status = status]
  PROVE  /\ loans' = [loans EXCEPT ![l] = loans'[l]]
         /\ loans'[l] \in Loan
         /\ loans'[l].amount = loans[l].amount /\ loans'[l].day = loans[l].day
         /\ loans'[l].repaid = repaid /\ loans'[l].status = status
<1>1. /\ loans' = [loans EXCEPT ![l] = loans'[l]]
      /\ loans'[l].amount = loans[l].amount /\ loans'[l].day = loans[l].day
      /\ loans'[l].repaid = repaid /\ loans'[l].status = status
  BY DEF TypeOK, Loan
<1>2. loans'[l] \in Loan
  BY DEF TypeOK, Loan
<1>3. QED
  BY <1>1, <1>2

\* The loans of a step that changes one of them and not its amount or its date.
LEMMA MovementsOfRepaid ==
  ASSUME TypeOK, MovementsFollowLoans, NEW l \in LoanIds, loans[l] \in Loan, loans'[l] \in Loan,
         loans' = [loans EXCEPT ![l] = loans'[l]], UNCHANGED given,
         loans'[l].amount = loans[l].amount, loans'[l].day = loans[l].day
  PROVE  /\ \A k \in LoanIds : Exists(loans, k)' <=> Exists(loans, k)
         /\ \A k \in LoanIds :
              given'[k] = IF Exists(loans, k)'
                          THEN [amount |-> loans'[k].amount, day |-> loans'[k].day] ELSE loans'[k]
<1>1. \A k \in LoanIds : k # l => loans'[k] = loans[k]
  BY DEF TypeOK
<1>2. loans[l] \notin {NotCreated, Gone} /\ loans'[l] \notin {NotCreated, Gone}
  BY RowsAssumption
<1>3. \A k \in LoanIds : Exists(loans, k)' <=> Exists(loans, k)
  BY <1>1, <1>2 DEF Exists
<1>4. QED
  BY <1>1, <1>2, <1>3 DEF MovementsFollowLoans, Exists

LEMMA MovementsOfAddRepayment ==
  ASSUME MovementsInv, NEW c \in Clients, NEW r \in RepaymentIds, AddRepayment(c, r)
  PROVE  MovementsInv'
<1> DEFINE q == requests[c]
           l == q.loan
           repaid == loans[l].repaid + q.amount
           row == [loan |-> l, amount |-> q.amount, day |-> q.day]
           movement == [amount |-> q.amount, day |-> q.day]
<1>1. /\ Exists(loans, l) /\ Answer(c) /\ UNCHANGED given
      /\ repayments[r] = NotCreated
      /\ repayments' = [repayments EXCEPT ![r] = row]
      /\ returned' = [returned EXCEPT ![r] = movement]
      /\ loans' = [loans EXCEPT ![l].repaid = repaid, ![l].status = q.status]
      /\ q \in AddRequest
  BY RequestOfKind DEF AddRepayment, MovementsInv
<1>2. l \in LoanIds /\ q.amount \in Amounts /\ q.day \in Days /\ q.status \in Status
  BY <1>1 DEF AddRequest
<1>3. loans[l] \in Loan
  BY <1>1, <1>2, RowsExist DEF MovementsInv
<1>4. row \in Repayment /\ movement \in Movement /\ repaid \in Int
  <2>1. row \in Repayment /\ movement \in Movement
    BY <1>2 DEF Repayment, Movement
  <2> HIDE DEF q, l
  <2>2. loans[l].repaid \in Int
    BY <1>3 DEF Loan
  <2>3. q.amount \in Int
    BY <1>2, AmountsAreInt
  <2>4. QED
    BY <2>1, <2>2, <2>3
<1>5. row.loan = l /\ movement = [amount |-> row.amount, day |-> row.day]
  OBVIOUS
<1> HIDE DEF l, repaid, row, movement
<1>6. /\ loans' = [loans EXCEPT ![l] = loans'[l]] /\ loans'[l] \in Loan
      /\ loans'[l].amount = loans[l].amount /\ loans'[l].day = loans[l].day
  BY <1>1, <1>2, <1>3, <1>4, RepaidLoan DEF MovementsInv
<1>7. TypeOK'
  BY <1>1, <1>2, <1>4, <1>6, AnswerKeepsRequests DEF MovementsInv, TypeOK
<1>8. /\ \A k \in LoanIds : Exists(loans, k)' <=> Exists(loans, k)
      /\ \A k \in LoanIds :
           given'[k] = IF Exists(loans, k)'
                       THEN [amount |-> loans'[k].amount, day |-> loans'[k].day] ELSE loans'[k]
  BY <1>1, <1>2, <1>3, <1>6, MovementsOfRepaid DEF MovementsInv
<1>9. /\ \A s \in RepaymentIds : s # r => repayments'[s] = repayments[s] /\ returned'[s] = returned[s]
      /\ repayments'[r] = row /\ returned'[r] = movement
      /\ repayments'[r] \notin {NotCreated, Gone}
  BY <1>1, <1>4, RowsAssumption DEF MovementsInv, TypeOK
<1>10. MovementsFollowLoans'
  <2>1. ASSUME NEW s \in RepaymentIds
        PROVE  /\ Exists(repayments, s)' => Exists(loans, repayments[s].loan)'
               /\ returned'[s] = IF Exists(repayments, s)'
                                 THEN [amount |-> repayments'[s].amount, day |-> repayments'[s].day]
                                 ELSE repayments'[s]
    <3>1. CASE s = r
      <4>1. loans'[l] \notin {NotCreated, Gone}
        BY <1>6, RowsAssumption
      <4>2. repayments'[s] = row /\ returned'[s] = movement
        BY <1>9, <3>1
      <4>3. Exists(loans, repayments[s].loan)'
        BY <1>5, <4>1, <4>2 DEF Exists
      <4>4. Exists(repayments, s)'
        BY <1>9, <3>1 DEF Exists
      <4>5. QED
        BY <1>5, <4>2, <4>3, <4>4
    <3>2. CASE s # r
      <4>1. Exists(repayments, s) => repayments[s].loan \in LoanIds
        BY RowsExist DEF MovementsInv, Repayment
      <4>2. QED
        BY <1>8, <1>9, <3>2, <4>1 DEF MovementsInv, MovementsFollowLoans, Exists
    <3>3. QED
      BY <3>1, <3>2
  <2>2. QED
    BY <1>8, <2>1 DEF MovementsFollowLoans, Exists
<1>11. RepaymentsAsRead'
  <2> SUFFICES ASSUME NEW d \in Clients, requests'[d] \in RemoveRepaymentRequest
               PROVE  AsRead(d)'
    BY DEF RepaymentsAsRead, AsRead
  <2>1. requests'[d] = requests[d] /\ requests[d].repayment \in RepaymentIds
    <3>1. requests'[d] \in Request
      BY DEF Request
    <3>2. requests'[d] = requests[d]
      BY <1>1, <3>1, AnswerKeepsRequests DEF MovementsInv
    <3>3. QED
      BY <3>2 DEF RemoveRepaymentRequest
  <2>2. AsRead(d) /\ repayments[requests[d].repayment] # NotCreated
    BY <2>1 DEF MovementsInv, RepaymentsAsRead, AsRead
  <2>3. repayments'[requests[d].repayment] = repayments[requests[d].repayment]
    BY <1>1, <1>9, <2>1, <2>2
  <2>4. QED
    BY <2>1, <2>2, <2>3 DEF AsRead, Exists
<1>12. QED
  BY <1>7, <1>10, <1>11 DEF MovementsInv

LEMMA MovementsOfRemoveRepayment ==
  ASSUME MovementsInv, NEW c \in Clients, RemoveRepayment(c)
  PROVE  MovementsInv'
<1> DEFINE q == requests[c]
           r == q.repayment
           l == q.loan
           repaid == loans[l].repaid - q.amount
<1>1. /\ Exists(repayments, r) /\ Answer(c) /\ UNCHANGED given
      /\ repayments' = [repayments EXCEPT ![r] = Gone]
      /\ returned' = [returned EXCEPT ![r] = Gone]
      /\ loans' = [loans EXCEPT ![l].repaid = repaid, ![l].status = q.status]
      /\ q \in RemoveRepaymentRequest
  BY RequestOfKind DEF RemoveRepayment, MovementsInv
<1>2. r \in RepaymentIds /\ l \in LoanIds /\ q.amount \in Amounts /\ q.status \in Status
  BY <1>1 DEF RemoveRepaymentRequest
<1>3. repayments[r].loan = l
  BY <1>1 DEF MovementsInv, RepaymentsAsRead, AsRead
<1>4. loans[l] \in Loan
  BY <1>1, <1>2, <1>3, RowsExist DEF MovementsInv, MovementsFollowLoans
<1>5. repaid \in Int
  <2> HIDE DEF q, l
  <2>1. loans[l].repaid \in Int
    BY <1>4 DEF Loan
  <2>2. q.amount \in Int
    BY <1>2, AmountsAreInt
  <2>3. QED
    BY <2>1, <2>2
<1> HIDE DEF l, r, repaid
<1>6. /\ loans' = [loans EXCEPT ![l] = loans'[l]] /\ loans'[l] \in Loan
      /\ loans'[l].amount = loans[l].amount /\ loans'[l].day = loans[l].day
  BY <1>1, <1>2, <1>4, <1>5, RepaidLoan DEF MovementsInv
<1>7. TypeOK'
  BY <1>1, <1>2, <1>6, AnswerKeepsRequests DEF MovementsInv, TypeOK
<1>8. /\ \A k \in LoanIds : Exists(loans, k)' <=> Exists(loans, k)
      /\ \A k \in LoanIds :
           given'[k] = IF Exists(loans, k)'
                       THEN [amount |-> loans'[k].amount, day |-> loans'[k].day] ELSE loans'[k]
  BY <1>1, <1>2, <1>4, <1>6, MovementsOfRepaid DEF MovementsInv
<1>9. /\ \A s \in RepaymentIds : s # r => repayments'[s] = repayments[s] /\ returned'[s] = returned[s]
      /\ repayments'[r] = Gone /\ returned'[r] = Gone
  BY <1>1, <1>2 DEF MovementsInv, TypeOK
<1>10. MovementsFollowLoans'
  <2>1. ASSUME NEW s \in RepaymentIds
        PROVE  /\ Exists(repayments, s)' => Exists(loans, repayments[s].loan)'
               /\ returned'[s] = IF Exists(repayments, s)'
                                 THEN [amount |-> repayments'[s].amount, day |-> repayments'[s].day]
                                 ELSE repayments'[s]
    <3>1. CASE s = r
      BY <1>9, <3>1 DEF Exists
    <3>2. CASE s # r
      <4>1. Exists(repayments, s) => repayments[s].loan \in LoanIds
        BY RowsExist DEF MovementsInv, Repayment
      <4>2. QED
        BY <1>8, <1>9, <3>2, <4>1 DEF MovementsInv, MovementsFollowLoans, Exists
    <3>3. QED
      BY <3>1, <3>2
  <2>2. QED
    BY <1>8, <2>1 DEF MovementsFollowLoans, Exists
<1>11. RepaymentsAsRead'
  <2> SUFFICES ASSUME NEW d \in Clients, requests'[d] \in RemoveRepaymentRequest
               PROVE  AsRead(d)'
    BY DEF RepaymentsAsRead, AsRead
  <2>1. requests'[d] = requests[d] /\ requests[d].repayment \in RepaymentIds
    <3>1. requests'[d] \in Request
      BY DEF Request
    <3>2. requests'[d] = requests[d]
      BY <1>1, <3>1, AnswerKeepsRequests DEF MovementsInv
    <3>3. QED
      BY <3>2 DEF RemoveRepaymentRequest
  <2>2. AsRead(d)
    BY DEF MovementsInv, RepaymentsAsRead
  <2>3. CASE requests[d].repayment = r
    BY <1>9, <2>1, <2>3, RowsAssumption DEF AsRead, Exists
  <2>4. CASE requests[d].repayment # r
    BY <1>9, <2>1, <2>2, <2>4 DEF AsRead, Exists
  <2>5. QED
    BY <2>3, <2>4
<1>12. QED
  BY <1>7, <1>10, <1>11 DEF MovementsInv

\* A step that changes nothing that is stored.
LEMMA MovementsOfFail ==
  ASSUME MovementsInv, NEW c \in Clients, Answer(c),
         UNCHANGED <<loans, repayments, given, returned>>
  PROVE  MovementsInv'
<1>1. TypeOK'
  BY AnswerKeepsRequests DEF MovementsInv, TypeOK
<1>2. MovementsFollowLoans'
  BY DEF MovementsInv, MovementsFollowLoans, Exists
<1>3. ASSUME NEW d \in Clients, requests'[d] \in RemoveRepaymentRequest
      PROVE  AsRead(d)'
  <2>1. requests'[d] = requests[d]
    BY <1>3, AnswerKeepsRequests DEF MovementsInv, Request
  <2>2. QED
    BY <2>1 DEF MovementsInv, RepaymentsAsRead, AsRead, Exists
<1>4. RepaymentsAsRead'
  BY <1>3 DEF RepaymentsAsRead, AsRead
<1>5. QED
  BY <1>1, <1>2, <1>4 DEF MovementsInv

LEMMA NextMovementsInv == MovementsInv /\ [Next]_vars => MovementsInv'
<1> SUFFICES ASSUME MovementsInv, [Next]_vars PROVE MovementsInv'
  OBVIOUS
<1>1. ASSUME NEW l \in LoanIds, NEW amount \in Amounts, NEW day \in Days,
             CreateLoan(l, amount, day)
      PROVE  MovementsInv'
  BY <1>1, MovementsOfCreateLoan
<1>2. ASSUME NEW c \in Clients, NEW l \in LoanIds, NEW amount \in Amounts \union {Unchanged},
             NEW day \in Days \union {Unchanged}, BeginUpdate(c, l, amount, day)
      PROVE  MovementsInv'
  <2>1. PICK q \in UpdateRequest : Begin(c, q)
    BY <1>2, ReadRequests DEF MovementsInv
  <2>2. q \in Request /\ q \notin RemoveRepaymentRequest
    BY DEF Request, UpdateRequest, RemoveRepaymentRequest
  <2>3. QED
    BY <2>1, <2>2, MovementsOfBegin
<1>3. ASSUME NEW c \in Clients, NEW l \in LoanIds, BeginRemove(c, l)
      PROVE  MovementsInv'
  <2>1. PICK q \in RemoveRequest : Begin(c, q)
    BY <1>3, ReadRequests DEF MovementsInv
  <2>2. q \in Request /\ q \notin RemoveRepaymentRequest
    BY DEF Request, RemoveRequest, RemoveRepaymentRequest
  <2>3. QED
    BY <2>1, <2>2, MovementsOfBegin
<1>4. ASSUME NEW c \in Clients, NEW l \in LoanIds, NEW amount \in Amounts, NEW day \in Days,
             BeginAddRepayment(c, l, amount, day)
      PROVE  MovementsInv'
  <2>1. PICK q \in AddRequest : Begin(c, q)
    BY <1>4, ReadRequests DEF MovementsInv
  <2>2. q \in Request /\ q \notin RemoveRepaymentRequest
    BY DEF Request, AddRequest, RemoveRepaymentRequest
  <2>3. QED
    BY <2>1, <2>2, MovementsOfBegin
<1>5. ASSUME NEW c \in Clients, NEW r \in RepaymentIds, BeginRemoveRepayment(c, r)
      PROVE  MovementsInv'
  <2>1. PICK q \in RemoveRepaymentRequest :
           /\ Begin(c, q) /\ q.repayment = r /\ Exists(repayments, r)
           /\ q.loan = repayments[r].loan /\ q.amount = repayments[r].amount
    BY <1>5, ReadRemoval DEF MovementsInv
  <2>2. q \in Request /\ repayments[q.repayment] # NotCreated
    BY <2>1 DEF Request, Exists
  <2>3. QED
    BY <2>1, <2>2, MovementsOfBegin
<1>6. ASSUME NEW c \in Clients, Fail(c)
      PROVE  MovementsInv'
  BY <1>6, MovementsOfFail DEF Fail
<1>7. CASE UNCHANGED vars
  BY <1>7 DEF vars, MovementsInv, TypeOK, MovementsFollowLoans, RepaymentsAsRead, AsRead, Exists
<1>8. QED
  BY <1>1, <1>2, <1>3, <1>4, <1>5, <1>6, <1>7, MovementsOfUpdate, MovementsOfRemove,
     MovementsOfAddRepayment, MovementsOfRemoveRepayment DEF Next

\* The rows of loans, repayments and movements are of their types.
THEOREM TypeCorrect == Spec => []TypeOK
<1>1. MovementsInv => TypeOK
  BY DEF MovementsInv
<1>2. QED
  BY <1>1, InitMovementsInv, NextMovementsInv, PTL DEF Spec

\* However requests interleave, and whichever of them fail, the transactions are
\* those of the loans and the repayments that exist.
THEOREM MovementsAlwaysFollowLoans == Spec => []MovementsFollowLoans
<1>1. MovementsInv => MovementsFollowLoans
  BY DEF MovementsInv
<1>2. QED
  BY <1>1, InitMovementsInv, NextMovementsInv, PTL DEF Spec

-----------------------------------------------------------------------------
(* Status *)

LEMMA InitStatusInv == Init => StatusInv
BY RequestsAssumption, RowsAssumption DEF Init, StatusInv, StatusFollowsRepaid, Exists

\* A client that sends no request never does.
LEMMA SilenceOfBegin ==
  ASSUME TypeOK, NEW c \in Clients, NEW q \in Request, Begin(c, q)
  PROVE  /\ \A d \in Clients : requests'[d] = IF d = c THEN q ELSE requests[d]
         /\ OneByOne' => OneByOne
         /\ OneByOne' => \A d \in Clients \ {c} : requests[d] = Silent
<1>1. /\ \A d \in Clients : requests'[d] = IF d = c THEN q ELSE requests[d]
      /\ requests[c] = Idle
  BY DEF Begin, TypeOK
<1>2. q # Silent /\ Idle # Silent
  BY RequestsAssumption
<1>3. QED
  BY <1>1, <1>2 DEF OneByOne

LEMMA SilenceOfAnswer ==
  ASSUME TypeOK, NEW c \in Clients, requests[c] \notin {Idle, Silent}, Answer(c)
  PROVE  /\ OneByOne' => OneByOne
         /\ OneByOne' => \A d \in Clients : requests'[d] \notin Request
<1>1. \A d \in Clients : requests'[d] = IF d = c THEN Idle ELSE requests[d]
  BY DEF Answer, TypeOK
<1>2. Idle # Silent /\ Idle \notin Request /\ Silent \notin Request
  BY RequestsAssumption
<1>3. QED
  BY <1>1, <1>2 DEF OneByOne

LEMMA StatusOfBegin ==
  ASSUME MovementsInv, StatusInv, NEW c \in Clients, NEW q \in Request, Begin(c, q),
         WritesRightStatus(q)
  PROVE  StatusInv'
<1> SUFFICES ASSUME OneByOne'
             PROVE  /\ StatusFollowsRepaid'
                    /\ \A d \in Clients : (requests[d] \in Request)' =>
                          WritesRightStatus(requests[d])'
  BY DEF StatusInv
<1>1. /\ OneByOne /\ \A d \in Clients \ {c} : requests[d] = Silent
      /\ \A d \in Clients : requests'[d] = IF d = c THEN q ELSE requests[d]
  BY SilenceOfBegin DEF MovementsInv
<1>2. StatusFollowsRepaid'
  BY <1>1 DEF StatusInv, StatusFollowsRepaid, Begin, Exists
<1>3. ASSUME NEW d \in Clients, requests'[d] \in Request
      PROVE  WritesRightStatus(requests[d])'
  <2>1. requests'[d] = q
    BY <1>1, <1>3, RequestsAssumption
  <2>2. QED
    BY <2>1 DEF WritesRightStatus, Begin
<1>4. QED
  BY <1>2, <1>3

\* A step that answers leaves no request under way, if that one was alone.
LEMMA StatusOfAnswer ==
  ASSUME MovementsInv, StatusInv, NEW c \in Clients, requests[c] \notin {Idle, Silent}, Answer(c),
         OneByOne => \A l \in LoanIds : Exists(loans, l)' =>
            loans'[l].status = loanStatusFor(loans'[l].repaid, loans'[l].amount)
  PROVE  StatusInv'
<1>1. /\ OneByOne' => OneByOne
      /\ OneByOne' => \A d \in Clients : requests'[d] \notin Request
  BY SilenceOfAnswer DEF MovementsInv
<1>2. OneByOne' => StatusFollowsRepaid'
  BY <1>1 DEF StatusFollowsRepaid, Exists
<1>3. QED
  BY <1>1, <1>2 DEF StatusInv

LEMMA StatusOfCreateLoan ==
  ASSUME MovementsInv, StatusInv, NEW l \in LoanIds, NEW amount \in Amounts, NEW day \in Days,
         CreateLoan(l, amount, day)
  PROVE  StatusInv'
<1>1. /\ loans[l] = NotCreated /\ requests' = requests
      /\ loans'[l].repaid = 0 /\ loans'[l].amount = amount /\ loans'[l].status = "ACTIVE"
      /\ \A k \in LoanIds \ {l} : loans'[k] = loans[k]
  BY DEF CreateLoan, MovementsInv, TypeOK
<1>2. loanStatusFor(0, amount) = "ACTIVE"
  BY AmountsAssumption DEF loanStatusFor
<1>3. OneByOne' <=> OneByOne
  BY <1>1 DEF OneByOne
<1>4. OneByOne' => StatusFollowsRepaid'
  BY <1>1, <1>2, <1>3 DEF StatusInv, StatusFollowsRepaid, Exists
<1>5. ASSUME OneByOne, NEW d \in Clients, requests[d] \in Request
      PROVE  WritesRightStatus(requests[d])'
  <2>1. WritesRightStatus(requests[d])
    BY <1>5 DEF StatusInv
  <2>2. requests[d].loan \in LoanIds
    BY <1>5 DEF Request, UpdateRequest, RemoveRequest, AddRequest, RemoveRepaymentRequest
  <2>3. loans'[requests[d].loan] = loans[requests[d].loan]
    BY <1>1, <2>1, <2>2 DEF WritesRightStatus
  <2>4. QED
    BY <1>1, <2>1, <2>3 DEF WritesRightStatus
<1>6. QED
  BY <1>1, <1>3, <1>4, <1>5 DEF StatusInv

LEMMA StatusOfUpdate ==
  ASSUME MovementsInv, StatusInv, NEW c \in Clients, Update(c)
  PROVE  StatusInv'
<1> DEFINE q == requests[c]
           l == q.loan
<1>1. /\ requests[c] \notin {Idle, Silent} /\ Answer(c) /\ Exists(loans, l) /\ q \in UpdateRequest
      /\ q \in Request
      /\ loans' = [loans EXCEPT ![l].amount = Sent(q.amount, @), ![l].day = Sent(q.day, @),
                                ![l].status = Sent(q.status, @)]
  BY RequestOfKind DEF Update, Writes, MovementsInv
<1>2. l \in LoanIds /\ q.amount \in Amounts \union {Unchanged}
  BY <1>1 DEF UpdateRequest
<1>3. loans[l] \in Loan
  BY <1>1, <1>2, RowsExist DEF MovementsInv
<1>4. /\ \A k \in LoanIds : k # l => loans'[k] = loans[k]
      /\ loans'[l].amount = Sent(q.amount, loans[l].amount)
      /\ loans'[l].status = Sent(q.status, loans[l].status)
      /\ loans'[l].repaid = loans[l].repaid
  <2> HIDE DEF q, l
  <2>1. QED
    BY <1>1, <1>2, <1>3 DEF MovementsInv, TypeOK, Loan
<1>5. ASSUME OneByOne
      PROVE  loans'[l].status = loanStatusFor(loans'[l].repaid, loans'[l].amount)
  <2>1. /\ loans[l].status = loanStatusFor(loans[l].repaid, loans[l].amount)
        /\ IF q.amount = Unchanged THEN q.status = Unchanged
           ELSE q.status = loanStatusFor(loans[l].repaid, q.amount)
    BY <1>1, <1>2, <1>5 DEF StatusInv, StatusFollowsRepaid, WritesRightStatus
  <2>2. CASE q.amount = Unchanged
    BY <1>4, <2>1, <2>2 DEF Sent
  <2>3. CASE q.amount # Unchanged
    <3>1. loans[l].repaid \in Int
      BY <1>3 DEF Loan
    <3>2. q.amount \in Int
      BY <1>2, <2>3, AmountsAreInt
    <3>3. q.status # Unchanged
      BY <2>1, <2>3, <3>1, <3>2, StatusOfLoan, RequestsAssumption
    <3>4. QED
      BY <1>4, <2>1, <2>3, <3>3 DEF Sent
  <2>4. QED
    BY <2>2, <2>3
<1>6. OneByOne => \A k \in LoanIds : Exists(loans, k)' =>
         loans'[k].status = loanStatusFor(loans'[k].repaid, loans'[k].amount)
  BY <1>4, <1>5 DEF StatusInv, StatusFollowsRepaid, Exists
<1>7. QED
  BY <1>1, <1>6, StatusOfAnswer

LEMMA StatusOfRemove ==
  ASSUME MovementsInv, StatusInv, NEW c \in Clients, Remove(c)
  PROVE  StatusInv'
<1>1. /\ requests[c] \notin {Idle, Silent} /\ Answer(c)
      /\ loans' = [loans EXCEPT ![requests[c].loan] = Gone]
  BY DEF Remove, Writes
<1>2. \A k \in LoanIds : loans'[k] \in {Gone, loans[k]}
  BY <1>1 DEF MovementsInv, TypeOK
<1>3. OneByOne => \A k \in LoanIds : Exists(loans, k)' =>
         loans'[k].status = loanStatusFor(loans'[k].repaid, loans'[k].amount)
  BY <1>2 DEF StatusInv, StatusFollowsRepaid, Exists
<1>4. QED
  BY <1>1, <1>3, StatusOfAnswer

\* A write of what is repaid, with the status for it.
LEMMA StatusOfRepaid ==
  ASSUME MovementsInv, StatusInv, NEW c \in Clients, requests[c] \notin {Idle, Silent}, Answer(c),
         NEW l \in LoanIds, loans[l] \in Loan, NEW repaid \in Int, NEW status \in Status,
         loans' = [loans EXCEPT ![l].repaid = repaid, ![l].status = status],
         OneByOne => status = loanStatusFor(repaid, loans[l].amount)
  PROVE  StatusInv'
<1>1. /\ loans' = [loans EXCEPT ![l] = loans'[l]]
      /\ loans'[l].amount = loans[l].amount
      /\ loans'[l].repaid = repaid /\ loans'[l].status = status
  BY DEF MovementsInv, TypeOK, Loan
<1>2. \A k \in LoanIds : k # l => loans'[k] = loans[k]
  BY <1>1 DEF MovementsInv, TypeOK
<1>3. OneByOne => \A k \in LoanIds : Exists(loans, k)' =>
         loans'[k].status = loanStatusFor(loans'[k].repaid, loans'[k].amount)
  BY <1>1, <1>2 DEF StatusInv, StatusFollowsRepaid, Exists
<1>4. QED
  BY <1>3, StatusOfAnswer

LEMMA StatusOfAddRepayment ==
  ASSUME MovementsInv, StatusInv, NEW c \in Clients, NEW r \in RepaymentIds, AddRepayment(c, r)
  PROVE  StatusInv'
<1> DEFINE q == requests[c]
           l == q.loan
           repaid == loans[l].repaid + q.amount
<1>1. /\ requests[c] \notin {Idle, Silent} /\ Answer(c) /\ Exists(loans, l) /\ q \in AddRequest
      /\ q \in Request
      /\ loans' = [loans EXCEPT ![l].repaid = repaid, ![l].status = q.status]
  BY RequestOfKind DEF AddRepayment, Writes, MovementsInv
<1>2. l \in LoanIds /\ q.amount \in Amounts /\ q.status \in Status
  BY <1>1 DEF AddRequest
<1>3. loans[l] \in Loan
  BY <1>1, <1>2, RowsExist DEF MovementsInv
<1>4. loans[l].repaid \in Int /\ q.amount \in Int
  BY <1>2, <1>3, AmountsAreInt DEF Loan
<1>5. OneByOne => q.status = loanStatusFor(repaid, loans[l].amount)
  BY <1>1 DEF StatusInv, WritesRightStatus
<1> HIDE DEF q, l
<1>6. repaid \in Int
  BY <1>4
<1> HIDE DEF repaid
<1>7. QED
  BY <1>1, <1>2, <1>3, <1>5, <1>6, StatusOfRepaid

LEMMA StatusOfRemoveRepayment ==
  ASSUME MovementsInv, StatusInv, NEW c \in Clients, RemoveRepayment(c)
  PROVE  StatusInv'
<1> DEFINE q == requests[c]
           l == q.loan
           repaid == loans[l].repaid - q.amount
<1>1. /\ requests[c] \notin {Idle, Silent} /\ Answer(c) /\ Exists(repayments, q.repayment)
      /\ q \in RemoveRepaymentRequest /\ q \in Request
      /\ loans' = [loans EXCEPT ![l].repaid = repaid, ![l].status = q.status]
  BY RequestOfKind DEF RemoveRepayment, Writes, MovementsInv
<1>2. l \in LoanIds /\ q.amount \in Amounts /\ q.status \in Status /\ q.repayment \in RepaymentIds
  BY <1>1 DEF RemoveRepaymentRequest
<1>3. repayments[q.repayment].loan = l
  BY <1>1 DEF MovementsInv, RepaymentsAsRead, AsRead
<1>4. loans[l] \in Loan
  BY <1>1, <1>2, <1>3, RowsExist DEF MovementsInv, MovementsFollowLoans
<1>5. loans[l].repaid \in Int /\ q.amount \in Int
  BY <1>2, <1>4, AmountsAreInt DEF Loan
<1>6. OneByOne => q.status = loanStatusFor(repaid, loans[l].amount)
  BY <1>1 DEF StatusInv, WritesRightStatus
<1> HIDE DEF q, l
<1>7. repaid \in Int
  BY <1>5
<1> HIDE DEF repaid
<1>8. QED
  BY <1>1, <1>2, <1>4, <1>6, <1>7, StatusOfRepaid

LEMMA NextStatusInv == MovementsInv /\ StatusInv /\ [Next]_vars => StatusInv'
<1> SUFFICES ASSUME MovementsInv, StatusInv, [Next]_vars PROVE StatusInv'
  OBVIOUS
<1>1. ASSUME NEW c \in Clients, NEW l \in LoanIds, NEW amount \in Amounts \union {Unchanged},
             NEW day \in Days \union {Unchanged}, BeginUpdate(c, l, amount, day)
      PROVE  StatusInv'
  <2>1. PICK q \in UpdateRequest :
           /\ Begin(c, q) /\ q.loan = l /\ q.amount = amount /\ Exists(loans, l)
           /\ q.status = IF amount = Unchanged THEN Unchanged
                         ELSE loanStatusFor(loans[l].repaid, amount)
    BY <1>1, ReadRequests DEF MovementsInv
  <2>2. q \in Request /\ WritesRightStatus(q)
    BY <2>1 DEF Request, UpdateRequest, AddRequest, RemoveRepaymentRequest,
                WritesRightStatus, Exists
  <2>3. QED
    BY <2>1, <2>2, StatusOfBegin
<1>2. ASSUME NEW c \in Clients, NEW l \in LoanIds, BeginRemove(c, l)
      PROVE  StatusInv'
  <2>1. PICK q \in RemoveRequest : Begin(c, q) /\ q.loan = l /\ Exists(loans, l)
    BY <1>2, ReadRequests DEF MovementsInv
  <2>2. q \in Request /\ WritesRightStatus(q)
    BY <2>1 DEF Request, RemoveRequest, UpdateRequest, AddRequest, RemoveRepaymentRequest,
                WritesRightStatus, Exists
  <2>3. QED
    BY <2>1, <2>2, StatusOfBegin
<1>3. ASSUME NEW c \in Clients, NEW l \in LoanIds, NEW amount \in Amounts, NEW day \in Days,
             BeginAddRepayment(c, l, amount, day)
      PROVE  StatusInv'
  <2>1. PICK q \in AddRequest :
           /\ Begin(c, q) /\ q.loan = l /\ q.amount = amount /\ Exists(loans, l)
           /\ q.status = loanStatusFor(loans[l].repaid + amount, loans[l].amount)
    BY <1>3, ReadRequests DEF MovementsInv
  <2>2. q \in Request /\ WritesRightStatus(q)
    BY <2>1 DEF Request, UpdateRequest, AddRequest, RemoveRepaymentRequest,
                WritesRightStatus, Exists
  <2>3. QED
    BY <2>1, <2>2, StatusOfBegin
<1>4. ASSUME NEW c \in Clients, NEW r \in RepaymentIds, BeginRemoveRepayment(c, r)
      PROVE  StatusInv'
  <2>1. PICK q \in RemoveRepaymentRequest :
           /\ Begin(c, q) /\ Exists(loans, q.loan)
           /\ q.status = loanStatusFor(loans[q.loan].repaid - q.amount, loans[q.loan].amount)
    BY <1>4, ReadRemoval DEF MovementsInv
  <2>2. q \in Request /\ WritesRightStatus(q)
    BY <2>1 DEF Request, UpdateRequest, AddRequest, RemoveRepaymentRequest,
                WritesRightStatus, Exists
  <2>3. QED
    BY <2>1, <2>2, StatusOfBegin
<1>5. ASSUME NEW c \in Clients, Fail(c)
      PROVE  StatusInv'
  <2>1. OneByOne => \A k \in LoanIds : Exists(loans, k)' =>
           loans'[k].status = loanStatusFor(loans'[k].repaid, loans'[k].amount)
    BY <1>5 DEF Fail, StatusInv, StatusFollowsRepaid, Exists
  <2>2. QED
    BY <1>5, <2>1, StatusOfAnswer DEF Fail
<1>6. CASE UNCHANGED vars
  BY <1>6 DEF vars, StatusInv, StatusFollowsRepaid, OneByOne, WritesRightStatus, Exists
<1>7. QED
  BY <1>1, <1>2, <1>3, <1>4, <1>5, <1>6, StatusOfCreateLoan, StatusOfUpdate, StatusOfRemove,
     StatusOfAddRepayment, StatusOfRemoveRepayment DEF Next

\* As long as requests do not overlap, the status of every loan says how much of
\* it is repaid.
THEOREM StatusAlwaysFollowsRepaid == Spec => []StatusFollowsRepaid
<1>1. MovementsInv /\ StatusInv => StatusFollowsRepaid
  BY DEF StatusInv, StatusFollowsRepaid, MovementsInv
<1>2. QED
  BY <1>1, InitMovementsInv, NextMovementsInv, InitStatusInv, NextStatusInv, PTL DEF Spec

-----------------------------------------------------------------------------
(* Sums *)

\* What the repayments of a loan come to.
Repaid(l) == SumFunction([r \in RepaymentsOf(l) |-> repayments[r].amount])

\* The repayments of a loan are finitely many, and their amounts are integers.
LEMMA RepaymentsAreSummed ==
  ASSUME TypeOK, NEW l
  PROVE  /\ RepaymentsOf(l) \subseteq RepaymentIds /\ IsFiniteSet(RepaymentsOf(l))
         /\ \A r \in RepaymentsOf(l) : repayments[r].amount \in Int
<1>1. RepaymentsOf(l) \subseteq RepaymentIds
  BY DEF RepaymentsOf
<1>2. IsFiniteSet(RepaymentsOf(l))
  BY <1>1, RepaymentIdsAssumption, FS_Subset
<1>3. ASSUME NEW r \in RepaymentsOf(l)
      PROVE  repayments[r].amount \in Int
  <2>1. repayments[r] \in Repayment
    BY RowsExist DEF RepaymentsOf
  <2>2. QED
    BY <2>1, AmountsAreInt DEF Repayment
<1>4. QED
  BY <1>1, <1>2, <1>3

\* A loan with the same repayments, each of the same amount, has as much repaid.
LEMMA RepaidStays ==
  ASSUME NEW l, RepaymentsOf(l)' = RepaymentsOf(l),
         \A r \in RepaymentsOf(l) : repayments'[r].amount = repayments[r].amount
  PROVE  Repaid(l)' = Repaid(l)
<1>1. [r \in RepaymentsOf(l) |-> repayments[r].amount]' = [r \in RepaymentsOf(l) |-> repayments[r].amount]
  OBVIOUS
<1>2. QED
  BY <1>1 DEF Repaid

\* A loan with one more repayment has its amount more repaid.
LEMMA RepaidGrows ==
  ASSUME TypeOK, NEW l, NEW r, r \notin RepaymentsOf(l), repayments'[r].amount \in Int,
         RepaymentsOf(l)' = RepaymentsOf(l) \union {r},
         \A s \in RepaymentsOf(l) : repayments'[s].amount = repayments[s].amount
  PROVE  Repaid(l)' = Repaid(l) + repayments'[r].amount
<1> DEFINE S == RepaymentsOf(l)
           f == [s \in S |-> repayments[s].amount]
           g == [s \in S \union {r} |-> repayments'[s].amount]
<1>1. Repaid(l)' = SumFunctionOnSet(g, S \union {r}) /\ Repaid(l) = SumFunctionOnSet(f, S)
  <2>1. SumFunction(g) = SumFunctionOnSet(g, S \union {r}) /\ SumFunction(f) = SumFunctionOnSet(f, S)
    BY SumOfTable
  <2>2. Repaid(l)' = SumFunction(g)
    BY DEF Repaid
  <2>3. QED
    BY <2>1, <2>2 DEF Repaid
<1>2. IsFiniteSet(S) /\ \A s \in S : f[s] \in Int /\ g[s] = f[s]
  BY RepaymentsAreSummed
<1>3. SumFunctionOnSet(f, S) \in Int
  BY <1>2, SumIsInt
<1>4. g[r] = repayments'[r].amount /\ g[r] \in Int
  OBVIOUS
<1>5. SumFunctionOnSet(g, S \union {r}) = g[r] + SumFunctionOnSet(f, S)
  <2> HIDE DEF f, g, S
  <2>1. QED
    BY <1>2, <1>4, SumWithOneMore DEF S
<1> HIDE DEF f, g, S
<1>6. QED
  BY <1>1, <1>3, <1>4, <1>5

\* A loan with one repayment less has its amount less repaid.
LEMMA RepaidShrinks ==
  ASSUME TypeOK, NEW l, NEW r \in RepaymentsOf(l), RepaymentsOf(l)' = RepaymentsOf(l) \ {r},
         \A s \in RepaymentsOf(l) \ {r} : repayments'[s].amount = repayments[s].amount
  PROVE  Repaid(l)' = Repaid(l) - repayments[r].amount
<1> DEFINE S == RepaymentsOf(l)
           f == [s \in S |-> repayments[s].amount]
           g == [s \in S \ {r} |-> repayments'[s].amount]
<1>1. Repaid(l)' = SumFunctionOnSet(g, S \ {r}) /\ Repaid(l) = SumFunctionOnSet(f, S)
  <2>1. SumFunction(g) = SumFunctionOnSet(g, S \ {r}) /\ SumFunction(f) = SumFunctionOnSet(f, S)
    BY SumOfTable
  <2>2. Repaid(l)' = SumFunction(g)
    BY DEF Repaid
  <2>3. QED
    BY <2>1, <2>2 DEF Repaid
<1>2. /\ IsFiniteSet(S) /\ IsFiniteSet(S \ {r}) /\ \A s \in S : f[s] \in Int
      /\ \A s \in S \ {r} : g[s] = f[s] /\ g[s] \in Int
      /\ f[r] = repayments[r].amount
  BY RepaymentsAreSummed, FS_Subset
<1>3. r \in S
  OBVIOUS
<1> HIDE DEF f, g, S
<1>4. SumFunctionOnSet(f, S) = f[r] + SumFunctionOnSet(f, S \ {r})
  BY <1>2, <1>3, SumTakesAny
<1>5. SumFunctionOnSet(g, S \ {r}) = SumFunctionOnSet(f, S \ {r})
  BY <1>2, SameSum
<1>6. SumFunctionOnSet(g, S \ {r}) \in Int
  BY <1>2, SumIsInt
<1>7. f[r] \in Int
  BY <1>2, <1>3
<1>8. QED
  BY <1>1, <1>2, <1>4, <1>5, <1>6, <1>7

LEMMA InitRepaid == Init => RepaidIsSumOfRepayments
BY RowsAssumption DEF Init, RepaidIsSumOfRepayments, Exists

\* A step that changes no repayment, nor what is repaid of a loan that exists.
LEMMA RepaidOfOthers ==
  ASSUME RepaidIsSumOfRepayments, UNCHANGED repayments,
         \A l \in LoanIds : Exists(loans, l)' =>
            Exists(loans, l) /\ loans'[l].repaid = loans[l].repaid
  PROVE  RepaidIsSumOfRepayments'
<1>1. ASSUME NEW l \in LoanIds
      PROVE  RepaymentsOf(l)' = RepaymentsOf(l)
  BY DEF RepaymentsOf, Exists
<1>2. QED
  BY <1>1, RepaidStays DEF RepaidIsSumOfRepayments, Repaid, Exists

\* A loan that has just been created has no repayments.
LEMMA RepaidOfCreateLoan ==
  ASSUME MovementsInv, RepaidIsSumOfRepayments, NEW l \in LoanIds, NEW amount \in Amounts,
         NEW day \in Days, CreateLoan(l, amount, day)
  PROVE  RepaidIsSumOfRepayments'
<1>1. /\ loans[l] = NotCreated /\ repayments' = repayments /\ loans'[l].repaid = 0
      /\ \A k \in LoanIds \ {l} : loans'[k] = loans[k]
  BY DEF CreateLoan, MovementsInv, TypeOK
<1>2. \A k \in LoanIds : RepaymentsOf(k)' = RepaymentsOf(k) /\ Repaid(k)' = Repaid(k)
  BY <1>1, RepaidStays DEF RepaymentsOf, Exists
<1>3. RepaymentsOf(l) = {}
  BY <1>1 DEF RepaymentsOf, MovementsInv, MovementsFollowLoans, Exists
<1>4. Repaid(l) = 0
  BY <1>3, SumOfTable, SumOfNone DEF Repaid
<1>5. QED
  BY <1>1, <1>2, <1>4 DEF RepaidIsSumOfRepayments, Repaid, Exists

LEMMA RepaidOfUpdate ==
  ASSUME MovementsInv, RepaidIsSumOfRepayments, NEW c \in Clients, Update(c)
  PROVE  RepaidIsSumOfRepayments'
<1> DEFINE l == requests[c].loan
<1>1. /\ Exists(loans, l) /\ UNCHANGED repayments
      /\ loans' = [loans EXCEPT ![l].amount = Sent(requests[c].amount, @),
                                ![l].day    = Sent(requests[c].day, @),
                                ![l].status = Sent(requests[c].status, @)]
  BY DEF Update
<1>2. l \in LoanIds
  BY RequestOfKind DEF Update, MovementsInv, UpdateRequest
<1>3. loans[l] \in Loan
  BY <1>1, <1>2, RowsExist DEF MovementsInv
<1> HIDE DEF l
<1>4. /\ \A k \in LoanIds \ {l} : loans'[k] = loans[k]
      /\ loans'[l].repaid = loans[l].repaid
  BY <1>1, <1>2, <1>3 DEF MovementsInv, TypeOK, Loan
<1>5. QED
  BY <1>1, <1>4, RepaidOfOthers DEF Exists

\* The repayments of the other loans stay.
LEMMA RepaidOfRemove ==
  ASSUME MovementsInv, RepaidIsSumOfRepayments, NEW c \in Clients, Remove(c)
  PROVE  RepaidIsSumOfRepayments'
<1> DEFINE l == requests[c].loan
<1>1. /\ l \in LoanIds
      /\ loans' = [loans EXCEPT ![l] = Gone]
      /\ repayments' = [r \in RepaymentIds |->
                          IF r \in RepaymentsOf(l) THEN Gone ELSE repayments[r]]
  BY RequestOfKind DEF Remove, MovementsInv, RemoveRequest
<1> HIDE DEF l
<1>2. loans'[l] = Gone /\ \A k \in LoanIds \ {l} : loans'[k] = loans[k]
  BY <1>1 DEF MovementsInv, TypeOK
<1>3. ASSUME NEW k \in LoanIds \ {l}
      PROVE  Repaid(k)' = Repaid(k)
  <2>1. \A r \in RepaymentsOf(k) : repayments'[r] = repayments[r]
    BY <1>1 DEF RepaymentsOf
  <2>2. RepaymentsOf(k)' = RepaymentsOf(k)
    BY <1>1 DEF RepaymentsOf, Exists
  <2>3. QED
    BY <2>1, <2>2, RepaidStays
<1>4. QED
  BY <1>2, <1>3 DEF RepaidIsSumOfRepayments, Repaid, Exists

LEMMA RepaidOfAddRepayment ==
  ASSUME MovementsInv, RepaidIsSumOfRepayments, NEW c \in Clients, NEW r \in RepaymentIds,
         AddRepayment(c, r)
  PROVE  RepaidIsSumOfRepayments'
<1>0. PICK q \in AddRequest : q = requests[c]
  BY RequestOfKind DEF AddRepayment, MovementsInv
<1> DEFINE l == q.loan
           row == [loan |-> l, amount |-> q.amount, day |-> q.day]
           repaid == loans[l].repaid + q.amount
<1>1. /\ Exists(loans, l) /\ repayments[r] = NotCreated
      /\ repayments' = [repayments EXCEPT ![r] = row]
      /\ loans' = [loans EXCEPT ![l].repaid = repaid, ![l].status = q.status]
  BY <1>0 DEF AddRepayment
<1>2. l \in LoanIds /\ q.amount \in Amounts /\ q.status \in Status /\ row \in Repayment
  BY DEF AddRequest, Repayment
<1>3. loans[l] \in Loan
  BY <1>1, <1>2, RowsExist DEF MovementsInv
<1>4. row.loan = l /\ row.amount = q.amount
  OBVIOUS
<1> HIDE DEF l, row
<1>5. q.amount \in Int /\ loans[l].repaid \in Int
  BY <1>2, <1>3, AmountsAreInt DEF Loan
<1>6. repaid \in Int
  BY <1>5
<1>7. /\ loans'[l].repaid = repaid /\ \A k \in LoanIds \ {l} : loans'[k] = loans[k]
  <2> HIDE DEF repaid
  <2>1. QED
    BY <1>1, <1>2, <1>3, <1>6, RepaidLoan DEF MovementsInv, TypeOK
<1>8. /\ repayments'[r] = row /\ repayments'[r] \notin {NotCreated, Gone}
      /\ \A s \in RepaymentIds \ {r} : repayments'[s] = repayments[s]
  BY <1>1, <1>2, RowsAssumption DEF MovementsInv, TypeOK
<1>9. r \notin RepaymentsOf(l) /\ RepaymentsOf(l)' = RepaymentsOf(l) \union {r}
  BY <1>1, <1>4, <1>8 DEF RepaymentsOf, Exists
<1>10. ASSUME NEW k \in LoanIds \ {l}
       PROVE  Repaid(k)' = Repaid(k)
  <2>1. RepaymentsOf(k)' = RepaymentsOf(k) /\ r \notin RepaymentsOf(k)
    BY <1>1, <1>4, <1>8 DEF RepaymentsOf, Exists
  <2>2. \A s \in RepaymentsOf(k) : repayments'[s].amount = repayments[s].amount
    BY <1>8, <2>1, RepaymentsAreSummed DEF MovementsInv
  <2>3. QED
    BY <2>1, <2>2, RepaidStays
<1>11. Repaid(l)' = Repaid(l) + q.amount
  <2>1. \A s \in RepaymentsOf(l) : repayments'[s].amount = repayments[s].amount
    BY <1>8, <1>9, RepaymentsAreSummed DEF MovementsInv
  <2>2. repayments'[r].amount = q.amount
    BY <1>4, <1>8
  <2>3. QED
    BY <1>5, <1>9, <2>1, <2>2, RepaidGrows DEF MovementsInv
<1>12. loans[l].repaid = Repaid(l)
  BY <1>1, <1>2 DEF RepaidIsSumOfRepayments, Repaid
<1>13. QED
  BY <1>7, <1>10, <1>11, <1>12 DEF RepaidIsSumOfRepayments, Repaid, Exists

LEMMA RepaidOfRemoveRepayment ==
  ASSUME MovementsInv, RepaidIsSumOfRepayments, NEW c \in Clients, RemoveRepayment(c)
  PROVE  RepaidIsSumOfRepayments'
<1>0. PICK q \in RemoveRepaymentRequest : q = requests[c]
  BY RequestOfKind DEF RemoveRepayment, MovementsInv
<1> DEFINE r == q.repayment
           l == q.loan
           repaid == loans[l].repaid - q.amount
<1>1. /\ Exists(repayments, r)
      /\ repayments' = [repayments EXCEPT ![r] = Gone]
      /\ loans' = [loans EXCEPT ![l].repaid = repaid, ![l].status = q.status]
  BY <1>0 DEF RemoveRepayment
<1>2. r \in RepaymentIds /\ l \in LoanIds /\ q.amount \in Amounts /\ q.status \in Status
  BY DEF RemoveRepaymentRequest
<1>3. repayments[r].loan = l /\ repayments[r].amount = q.amount
  BY <1>0, <1>1 DEF MovementsInv, RepaymentsAsRead, AsRead
<1>4. loans[l] \in Loan
  BY <1>1, <1>2, <1>3, RowsExist DEF MovementsInv, MovementsFollowLoans
<1> HIDE DEF r, l
<1>5. q.amount \in Int /\ loans[l].repaid \in Int
  BY <1>2, <1>4, AmountsAreInt DEF Loan
<1>6. repaid \in Int
  BY <1>5
<1>7. loans'[l].repaid = repaid /\ \A k \in LoanIds \ {l} : loans'[k] = loans[k]
  <2> HIDE DEF repaid
  <2>1. QED
    BY <1>1, <1>2, <1>4, <1>6, RepaidLoan DEF MovementsInv, TypeOK
<1>8. repayments'[r] = Gone /\ \A s \in RepaymentIds \ {r} : repayments'[s] = repayments[s]
  BY <1>1, <1>2 DEF MovementsInv, TypeOK
<1>9. r \in RepaymentsOf(l) /\ RepaymentsOf(l)' = RepaymentsOf(l) \ {r}
  BY <1>1, <1>2, <1>3, <1>8 DEF RepaymentsOf, Exists
<1>10. ASSUME NEW k \in LoanIds \ {l}
       PROVE  Repaid(k)' = Repaid(k)
  <2>1. RepaymentsOf(k)' = RepaymentsOf(k) /\ r \notin RepaymentsOf(k)
    BY <1>3, <1>8 DEF RepaymentsOf, Exists
  <2>2. \A s \in RepaymentsOf(k) : repayments'[s].amount = repayments[s].amount
    BY <1>8, <2>1, RepaymentsAreSummed DEF MovementsInv
  <2>3. QED
    BY <2>1, <2>2, RepaidStays
<1>11. Repaid(l)' = Repaid(l) - q.amount
  <2>1. \A s \in RepaymentsOf(l) \ {r} : repayments'[s].amount = repayments[s].amount
    BY <1>8, RepaymentsAreSummed DEF MovementsInv
  <2>2. QED
    BY <1>3, <1>9, <2>1, RepaidShrinks DEF MovementsInv
<1>12. loans[l].repaid = Repaid(l)
  BY <1>2, <1>4, RowsExist DEF RepaidIsSumOfRepayments, Repaid, MovementsInv
<1>13. QED
  BY <1>7, <1>10, <1>11, <1>12 DEF RepaidIsSumOfRepayments, Repaid, Exists

LEMMA NextRepaid ==
  MovementsInv /\ RepaidIsSumOfRepayments /\ [Next]_vars => RepaidIsSumOfRepayments'
<1> SUFFICES ASSUME MovementsInv, RepaidIsSumOfRepayments, [Next]_vars
             PROVE  RepaidIsSumOfRepayments'
  OBVIOUS
<1>1. ASSUME UNCHANGED <<loans, repayments>>
      PROVE  RepaidIsSumOfRepayments'
  BY <1>1, RepaidOfOthers DEF Exists
<1>2. ASSUME NEW c \in Clients, NEW l \in LoanIds, NEW amount \in Amounts \union {Unchanged},
             NEW day \in Days \union {Unchanged}, BeginUpdate(c, l, amount, day)
      PROVE  RepaidIsSumOfRepayments'
  BY <1>1, <1>2 DEF BeginUpdate, Begin
<1>3. ASSUME NEW c \in Clients, NEW l \in LoanIds, BeginRemove(c, l)
      PROVE  RepaidIsSumOfRepayments'
  BY <1>1, <1>3 DEF BeginRemove, Begin
<1>4. ASSUME NEW c \in Clients, NEW l \in LoanIds, NEW amount \in Amounts, NEW day \in Days,
             BeginAddRepayment(c, l, amount, day)
      PROVE  RepaidIsSumOfRepayments'
  BY <1>1, <1>4 DEF BeginAddRepayment, Begin
<1>5. ASSUME NEW c \in Clients, NEW r \in RepaymentIds, BeginRemoveRepayment(c, r)
      PROVE  RepaidIsSumOfRepayments'
  BY <1>1, <1>5 DEF BeginRemoveRepayment, Begin
<1>6. ASSUME NEW c \in Clients, Fail(c)
      PROVE  RepaidIsSumOfRepayments'
  BY <1>1, <1>6 DEF Fail
<1>7. CASE UNCHANGED vars
  BY <1>1, <1>7 DEF vars
<1>8. QED
  BY <1>2, <1>3, <1>4, <1>5, <1>6, <1>7, RepaidOfCreateLoan, RepaidOfUpdate, RepaidOfRemove,
     RepaidOfAddRepayment, RepaidOfRemoveRepayment DEF Next

\* However requests interleave, what a loan says was repaid is the sum of its
\* repayments.
THEOREM RepaidIsAlwaysSum == Spec => []RepaidIsSumOfRepayments
BY InitMovementsInv, NextMovementsInv, InitRepaid, NextRepaid, PTL DEF Spec

=============================================================================
