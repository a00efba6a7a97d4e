------------------------- MODULE TransactionPeriods -------------------------
(***************************************************************************)
(* The tables `transactions` (as far as the periods read it) and           *)
(* `financial_periods` of one user, under the requests that write them.    *)
(* One action is one committed database transaction, after the checks the  *)
(* service makes before it; requests are taken one at a time.              *)
(*                                                                         *)
(* The kind of a transaction is abstracted to what the periods and their   *)
(* guards tell apart:                                                      *)
(*   salary    INCOME of category SALARY: opens a period                   *)
(*   other     any other INCOME, EXPENSE, SAVING or DEBT_PAYMENT           *)
(*   transfer  TRANSFER: never becomes another type, nor the reverse       *)
(*   managed   a movement of a loan or of an installment plan, which       *)
(*             /transactions neither creates nor touches                   *)
(***************************************************************************)
EXTENDS PeriodSequence

VARIABLES
    txs,        \* transactions: id -> [date, kind, period]
    periods     \* financial_periods: key -> [start, end]

vars == <<txs, periods>>

Kinds == {"salary", "other", "transfer", "managed"}
ApiKinds == Kinds \ {"managed"}
Keys == TxIds \union {Bootstrap}

Transaction == [date : Instants, kind : Kinds, period : Keys \union {Null}]
Period == [start : Nat, end : Nat \union {Null}]

-----------------------------------------------------------------------------
(* The rows of the table *)

Inserted(T, i, date, kind) ==
    [j \in DOMAIN T \union {i} |->
        IF j = i THEN [date |-> date, kind |-> kind, period |-> Null] ELSE T[j]]

Edited(T, i, date, kind) == [T EXCEPT ![i].date = date, ![i].kind = kind]

Deleted(T, i) == [j \in DOMAIN T \ {i} |-> T[j]]

Earlier(d, e) == IF d <= e THEN d ELSE e

\* Both tables, and the affectedFrom the service computes, after each kind of
\* write.  The modules that add ledgers to these tables reuse them.
AfterInsert(T, P, i, date, kind) ==
    Assign(Inserted(T, i, date, kind), P, i, Null)

\* Mutant: rebuilds for what the transaction becomes, not for what it was.
AfterEditOfNewSalary(T, P, i, date, kind) ==
    LET E    == Edited(T, i, date, kind)
        from == Earlier(T[i].date, date)
        A    == Assign(E, P, i, T[i].period)
    IN  [txs |-> A.txs, periods |-> A.periods,
         affectedFrom |-> Min({from, A.affectedFrom})]

\* Moving a salary, or making it something else, rebuilds the sequence before
\* assigning; assign compares with the periodId read before that rebuild.
AfterEdit(T, P, i, date, kind) ==
    LET E    == Edited(T, i, date, kind)
        from == Earlier(T[i].date, date)
        R    == IF IsSalary(T[i]) THEN Rebuild(E, P, from, {})
                ELSE [txs |-> E, periods |-> P, boundary |-> from]
        A    == Assign(R.txs, R.periods, i, T[i].period)
    IN  [txs |-> A.txs, periods |-> A.periods,
         affectedFrom |-> Min({from, R.boundary, A.affectedFrom})]

\* Mutant: deleting a salary leaves its period.
AfterDeleteWithoutRebuild(T, P, i) ==
    [txs |-> Deleted(T, i), periods |-> P, affectedFrom |-> T[i].date]

AfterDelete(T, P, i) ==
    LET D == Deleted(T, i)
        R == IF IsSalary(T[i]) THEN Rebuild(D, P, T[i].date, {})
             ELSE [txs |-> D, periods |-> P, boundary |-> T[i].date]
    IN  [txs |-> R.txs, periods |-> R.periods,
         affectedFrom |-> Earlier(T[i].date, R.boundary)]

Becomes(result) == txs' = result.txs /\ periods' = result.periods

-----------------------------------------------------------------------------
(* The requests *)

\* The column period_id was added to a table that already held transactions,
\* with no value and no periods.
Init ==
    /\ \E ids \in SUBSET TxIds :
          txs \in [ids -> [date : Instants, kind : Kinds, period : {Null}]]
    /\ periods = [k \in {} |-> Null]

\* POST /transactions
CreateTransaction(i, date, kind) ==
    /\ i \notin DOMAIN txs
    /\ kind \in ApiKinds
    /\ Becomes(AfterInsert(txs, periods, i, date, kind))

\* PATCH /transactions/:id
UpdateTransaction(i, date, kind) ==
    /\ i \in DOMAIN txs
    /\ txs[i].kind # "managed"
    /\ kind \in ApiKinds
    /\ kind = "transfer" <=> txs[i].kind = "transfer"
    /\ Becomes(AfterEdit(txs, periods, i, date, kind))

\* DELETE /transactions/:id
RemoveTransaction(i) ==
    /\ i \in DOMAIN txs
    /\ txs[i].kind # "managed"
    /\ Becomes(AfterDelete(txs, periods, i))

\* The movement of a new loan, of a repayment, of a purchase in installments,
\* of a recognized installment.
RecordMovement(i, date) ==
    /\ i \notin DOMAIN txs
    /\ Becomes(AfterInsert(txs, periods, i, date, "managed"))

\* The loan or the plan is dated anew, and its movement with it.
MoveMovement(i, date) ==
    /\ i \in DOMAIN txs
    /\ txs[i].kind = "managed"
    /\ Becomes(AfterEdit(txs, periods, i, date, "managed"))

\* The movement goes with its loan, its repayment or its plan (foreign keys ON
\* DELETE CASCADE), or with an installment that is unrecognized.
DropMovement(i) ==
    /\ i \in DOMAIN txs
    /\ txs[i].kind = "managed"
    /\ Becomes(AfterDelete(txs, periods, i))

\* getCurrentPeriod, behind every request that names no period: when no period
\* is open it derives one from now.
GetCurrentPeriod(now) ==
    /\ \A k \in DOMAIN periods : periods[k].end # Null
    /\ Becomes(Locate(txs, periods, now, FALSE))

\* POST /admin/migrate-periods
MigratePeriods == Becomes(Rebuild(txs, periods, 0, {}))

Next ==
    \/ \E i \in TxIds, date \in Instants, kind \in Kinds :
          \/ CreateTransaction(i, date, kind)
          \/ UpdateTransaction(i, date, kind)
    \/ \E i \in TxIds, date \in Instants :
          \/ RecordMovement(i, date)
          \/ MoveMovement(i, date)
    \/ \E i \in TxIds : RemoveTransaction(i) \/ DropMovement(i)
    \/ \E now \in Instants : GetCurrentPeriod(now)
    \/ MigratePeriods

Spec == Init /\ [][Next]_vars

-----------------------------------------------------------------------------
(* Properties *)

IsTable(T) == DOMAIN T \subseteq TxIds /\ \A i \in DOMAIN T : T[i] \in Transaction
IsSequence(P) == DOMAIN P \subseteq Keys /\ \A k \in DOMAIN P : P[k] \in Period

TypeOK == IsTable(txs) /\ IsSequence(periods)

\* No two periods start together, each starts at a midnight and ends exactly
\* where the next one starts; the last one is open.
Partition(P) ==
    \A k \in DOMAIN P :
        /\ StartOfFinancialDay(P[k].start) = P[k].start
        /\ \A j \in DOMAIN P : P[j].start = P[k].start => j = k
        /\ P[k].end = NextStart({P[j].start : j \in DOMAIN P}, P[k].start)

InItsPeriod(tx, P) == tx.period \in DOMAIN P /\ Covers(P[tx.period], tx.date)

FollowsSalaries(T, P) ==
    /\ DOMAIN P \ {Bootstrap} = Anchors(T)
    /\ \A i \in Anchors(T) : P[i].start = StartOfFinancialDay(T[i].date)

\* False only before the first rebuild, and after the last transaction is gone.
Migrated == DOMAIN periods # {}

\* The stored periods cut the time from the first start on into ranges with
\* no hole and no overlap.  Every read by date (findFirst over startDate <=
\* date < endDate) relies on it.
PeriodsPartition == Partition(periods)

\* Once there are periods, every transaction is stored with the period whose
\* range holds its date: what ledgers, budgets and reports sum by periodId is
\* what they would sum by date.
TransactionsInTheirPeriod ==
    Migrated => \A i \in DOMAIN txs : InItsPeriod(txs[i], periods)

\* The anchored periods are exactly the ones the salaries of the table ask
\* for: one per day with a salary, anchored by the first of that day, starting
\* that day.  An edit that opens, moves or closes a period always rebuilds.
AnchorsFollowSalaries == Migrated => FollowsSalaries(txs, periods)

\* A salary appears, moves, changes or disappears.
SalariesChange ==
    \/ Salaries(txs) # Salaries(txs)'
    \/ \E i \in Salaries(txs) : txs[i].date # txs'[i].date

\* A step that touches no salary leaves every anchored period as it is, and
\* leaves every other transaction in the period it was in: an expense dated
\* before all periods may only open or stretch the bootstrap period.
OnlySalariesMoveOthers ==
    [][(~ SalariesChange /\ Migrated) =>
         /\ \A k \in DOMAIN periods \ {Bootstrap} :
               k \in DOMAIN periods' /\ periods'[k] = periods[k]
         /\ \A i \in DOMAIN txs \intersect DOMAIN txs' :
               txs[i].date = txs'[i].date => txs'[i].period = txs[i].period
      ]_vars

\* Rebuilding everything is idempotent: over tables the requests have kept, the
\* administrator's migration reassigns no transaction and changes no anchored
\* period; at most it trims the bootstrap period.
MigrationKeepsAssignments ==
    [][(MigratePeriods /\ Migrated) =>
         /\ DOMAIN txs' = DOMAIN txs /\ \A i \in DOMAIN txs : txs'[i] = txs[i]
         /\ \A k \in DOMAIN periods \ {Bootstrap} :
               k \in DOMAIN periods' /\ periods'[k] = periods[k]
      ]_vars

=============================================================================
