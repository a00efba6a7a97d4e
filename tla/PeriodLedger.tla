---------------------------- MODULE PeriodLedger ----------------------------
(***************************************************************************)
(* The tables `period_ledgers` and `goal_contributions` beside those of    *)
(* TransactionPeriods: one ledger per period, its opening balance the      *)
(* closing balance of the period before, rewritten in cascade by every     *)
(* request that moves money (PeriodLedgerService).                         *)
(*                                                                         *)
(* A row of `transactions` is split in two: txs has what the periods read  *)
(* and money what the ledgers sum.  The type of a row is one of Types, and *)
(* Kind says what TransactionPeriods makes of it.                          *)
(***************************************************************************)
EXTENDS PeriodSequence

CONSTANTS
    Types,              \* the types of transaction in use, some of AllTypes
    Amounts,            \* amounts of a transaction or a contribution
    ContributionIds, Goals,
    Scopes              \* bounds: which of these one behaviour uses together

AllTypes == {"salary", "income", "expense", "saving", "transfer",
             "loan", "purchase", "installment"}

ASSUME IdsAssumption ==
    IsFiniteSet(TxIds) /\ IsFiniteSet(ContributionIds)
ASSUME TypesAssumption == Types \subseteq AllTypes
ASSUME AmountsAssumption == Amounts \subseteq Nat \ {0}
ASSUME ScopesAssumption ==
    \A s \in Scopes : /\ s.types \subseteq Types
                      /\ s.instants \subseteq Instants
                      /\ s.loanInstants \subseteq Instants
                      /\ s.contributions \subseteq ContributionIds

VARIABLES
    txs, periods,       \* see TransactionPeriods
    money,              \* transactions: id -> [type, amount]
    contributions,      \* goal_contributions: id -> [goal, date, amount]
    ledgers,            \* period_ledgers: key of the period ->
                        \* [opening, income, expenses, savings, closing]
    scope               \* what this behaviour uses; never changes

vars == <<txs, periods, money, contributions, ledgers, scope>>

Rows == INSTANCE TransactionPeriods WITH txs <- txs, periods <- periods

Kind(type) == CASE type = "salary"   -> "salary"
                [] type = "transfer" -> "transfer"
                [] type \in {"income", "expense", "saving"} -> "other"
                [] type \in {"loan", "purchase", "installment"} -> "managed"

ApiTypes == Types \intersect {"salary", "income", "expense", "saving", "transfer"}
IncomeTypes == {"salary", "income"}
EXPENSE_TYPES == {"expense", "installment"}

-----------------------------------------------------------------------------
(* computeAndUpsert *)

Total(table, ids) == SumFunction([i \in ids |-> table[i].amount])

\* Income and expenses are summed by periodId; contributions have none and are
\* summed by date.
Income(T, M, k) ==
    Total(M, {i \in DOMAIN T : T[i].period = k /\ M[i].type \in IncomeTypes})
Expenses(T, M, k) ==
    Total(M, {i \in DOMAIN T : T[i].period = k /\ M[i].type \in EXPENSE_TYPES})
Savings(P, C, k) == Total(C, {c \in DOMAIN C : Covers(P[k], C[c].date)})

\* Mutant: contributions never leave the balance.
NetBeforeSavings(T, P, M, C, k) == Income(T, M, k) - Expenses(T, M, k)

Net(T, P, M, C, k) == Income(T, M, k) - Expenses(T, M, k) - Savings(P, C, k)

-----------------------------------------------------------------------------
(* recalculateLedgerCascade *)

StartsOf(P, keys) == {P[k].start : k \in keys}

\* The period that holds `from`, or the first one when `from` is before all.
FirstReached(P, from) ==
    LET reached == {k \in DOMAIN P : P[k].start <= from}
    IN  IF reached = {} THEN Min(StartsOf(P, DOMAIN P)) ELSE Max(StartsOf(P, reached))

\* The periods whose stored ledger the cascade takes as it is: those up to the
\* last one, before the period it reaches first, that has a ledger.
KeptLedgers(P, L, from) ==
    {k \in DOMAIN P :
        \E j \in DOMAIN P \intersect DOMAIN L :
            P[k].start <= P[j].start /\ P[j].start < FirstReached(P, from)}

\* The closing balance of the last of them.
BaseBalance(P, L, kept) ==
    IF kept = {} THEN 0
    ELSE L[CHOOSE k \in kept : \A j \in kept : P[j].start <= P[k].start].closing

\* Every later period is computed anew, each one opening with what the one
\* before it closes with.
Opening(P, net, base, k) ==
    base + SumFunctionOnSet(net, {j \in DOMAIN net : P[j].start < P[k].start})

Recomputed(T, P, M, C, net, base) ==
    [k \in DOMAIN net |->
        [opening  |-> Opening(P, net, base, k),
         income   |-> Income(T, M, k),
         expenses |-> Expenses(T, M, k),
         savings  |-> Savings(P, C, k),
         closing  |-> Opening(P, net, base, k) + net[k]]]

CascadeAfter(T, P, M, C, L, kept) ==
    LET computed == Recomputed(T, P, M, C, [k \in DOMAIN P \ kept |-> Net(T, P, M, C, k)],
                               BaseBalance(P, L, kept))
    IN  [k \in (DOMAIN P \ kept) \union (kept \intersect DOMAIN L) |->
            IF k \in kept THEN L[k] ELSE computed[k]]

Cascade(T, P, M, C, L, from) == CascadeAfter(T, P, M, C, L, KeptLedgers(P, L, from))

\* getOrBuildLedger: the cascade only for a period without a ledger.
WithLedgerOf(T, P, M, C, L, k) ==
    IF k \in DOMAIN L THEN L ELSE Cascade(T, P, M, C, L, P[k].start)

\* The ledger of a deleted period goes with it (ON DELETE CASCADE).
Surviving(L, P) == Restrict(L, DOMAIN L \intersect DOMAIN P)

-----------------------------------------------------------------------------
(* The requests *)

Init ==
    /\ Rows!Init
    /\ scope \in Scopes
    /\ \A i \in DOMAIN txs : txs[i].date \in scope.instants
    /\ money \in [DOMAIN txs -> [type : scope.types, amount : Amounts]]
    /\ \A i \in DOMAIN txs : txs[i].kind = Kind(money[i].type)
    /\ contributions = [c \in {} |-> Null]
    /\ ledgers = [k \in {} |-> Null]

\* The rows after a request, and its call of recalculateFrom(from).
Recalculate(result, M, C, from) ==
    /\ Rows!Becomes(result)
    /\ money' = M
    /\ contributions' = C
    /\ ledgers' = Cascade(result.txs, result.periods, M, C,
                          Surviving(ledgers, result.periods), from)

\* The same from the date the rows were affected from.
RecalculateAffected(result, M) == Recalculate(result, M, contributions, result.affectedFrom)

\* The rows alone, without that call.
NoRecalculation(result, M) ==
    /\ Rows!Becomes(result)
    /\ money' = M
    /\ ledgers' = Surviving(ledgers, result.periods)
    /\ UNCHANGED contributions

WithMoney(i, type, amount) ==
    [j \in DOMAIN money \union {i} |->
        IF j = i THEN [type |-> type, amount |-> amount] ELSE money[j]]

WithoutMoney(i) == Restrict(money, DOMAIN money \ {i})

Insert(i, date, type, amount) ==
    /\ i \notin DOMAIN txs
    /\ RecalculateAffected(Rows!AfterInsert(txs, periods, i, date, Kind(type)),
                           WithMoney(i, type, amount))

Edit(i, date, type, amount) ==
    RecalculateAffected(Rows!AfterEdit(txs, periods, i, date, Kind(type)),
                        WithMoney(i, type, amount))

Delete(i) ==
    RecalculateAffected(Rows!AfterDelete(txs, periods, i), WithoutMoney(i))

\* TransactionsService
CreateTransaction(i, date, type, amount) ==
    /\ type \in ApiTypes
    /\ Insert(i, date, type, amount)

\* Mutant: a transfer may become another type, and the reverse.
UpdateTransactionOfAnyType(i, date, type, amount) ==
    /\ i \in DOMAIN txs
    /\ money[i].type \in ApiTypes
    /\ type \in ApiTypes
    /\ Edit(i, date, type, amount)

UpdateTransaction(i, date, type, amount) ==
    /\ i \in DOMAIN txs
    /\ money[i].type \in ApiTypes
    /\ type \in ApiTypes
    /\ type = "transfer" <=> money[i].type = "transfer"
    /\ Edit(i, date, type, amount)

RemoveTransaction(i) ==
    /\ i \in DOMAIN txs
    /\ money[i].type \in ApiTypes
    /\ Delete(i)

\* The cascade only for a result that reaches back before the date.
RecalculateIfBefore(result, date, M) ==
    IF result.affectedFrom < date THEN RecalculateAffected(result, M)
                                  ELSE NoRecalculation(result, M)

\* LoansService.assignPeriod
AssignLoanPeriod(T, i, read, M) ==
    RecalculateIfBefore(Assign(T, periods, i, read), T[i].date, M)

RecordLoanMovement(i, date, amount) ==
    /\ "loan" \in scope.types
    /\ i \notin DOMAIN txs
    /\ AssignLoanPeriod(Rows!Inserted(txs, i, date, "managed"), i, Null,
                        WithMoney(i, "loan", amount))

MoveLoan(i, date) ==
    /\ i \in DOMAIN txs
    /\ money[i].type = "loan"
    /\ AssignLoanPeriod(Rows!Edited(txs, i, date, "managed"), i, txs[i].period, money)

DropLoanMovement(i) ==
    /\ i \in DOMAIN txs
    /\ money[i].type = "loan"
    /\ NoRecalculation(Rows!AfterDelete(txs, periods, i), WithoutMoney(i))

\* InstallmentPlansService: purchases and recognized installments.
RecordPlanMovement(i, date, type, amount) ==
    /\ type \in {"purchase", "installment"}
    /\ Insert(i, date, type, amount)

MovePurchase(i, date, amount) ==
    /\ i \in DOMAIN txs
    /\ money[i].type = "purchase"
    /\ Edit(i, date, "purchase", amount)

DropPlanMovement(i) ==
    /\ i \in DOMAIN txs
    /\ money[i].type \in {"purchase", "installment"}
    /\ Delete(i)

\* GoalsService
SameRows == [txs |-> txs, periods |-> periods]

AddContribution(c, goal, date, amount) ==
    /\ c \notin DOMAIN contributions
    /\ LET C == [d \in DOMAIN contributions \union {c} |->
                    IF d = c THEN [goal |-> goal, date |-> date, amount |-> amount]
                    ELSE contributions[d]]
       IN  Recalculate(SameRows, money, C, date)

\* Mutant: recalculates from the latest contribution of the goal.
RemoveGoalFromLatest(goal) ==
    LET own == {c \in DOMAIN contributions : contributions[c].goal = goal}
    IN  /\ own # {}
        /\ Recalculate(SameRows, money, Restrict(contributions, DOMAIN contributions \ own),
                       Max({contributions[c].date : c \in own}))

RemoveGoal(goal) ==
    LET own == {c \in DOMAIN contributions : contributions[c].goal = goal}
    IN  /\ own # {}
        /\ Recalculate(SameRows, money, Restrict(contributions, DOMAIN contributions \ own),
                       Min({contributions[c].date : c \in own}))

\* getCurrentPeriod, with no more to it
GetCurrentPeriod(now) ==
    /\ Rows!GetCurrentPeriod(now)
    /\ UNCHANGED <<money, contributions, ledgers>>

\* findByPeriod, and recalculateCurrentPeriod as far as the ledgers go: the
\* current period, derived if there is none, with its ledger.
ReadCurrentLedger(now) ==
    LET open == {k \in DOMAIN periods : periods[k].end = Null}
        L    == IF open # {} THEN [txs |-> txs, periods |-> periods,
                                   period |-> CHOOSE k \in open : TRUE]
                ELSE Locate(txs, periods, now, FALSE)
    IN  /\ Rows!Becomes(L)
        /\ ledgers' = WithLedgerOf(L.txs, L.periods, money, contributions,
                                   Surviving(ledgers, L.periods), L.period)
        /\ UNCHANGED <<money, contributions>>

ReadLedger(k) ==
    /\ k \in DOMAIN periods
    /\ ledgers' = WithLedgerOf(txs, periods, money, contributions, ledgers, k)
    /\ UNCHANGED <<txs, periods, money, contributions>>

\* POST /period-ledger/:periodId/recalculate, POST /budgets/recalculate
RecalculateFrom(k) ==
    /\ k \in DOMAIN periods
    /\ Recalculate(SameRows, money, contributions, periods[k].start)

MigratePeriods ==
    Recalculate(Rebuild(txs, periods, 0, {}), money, contributions, 0)

Next ==
    /\ UNCHANGED scope
    /\ \/ \E i \in TxIds, date \in scope.instants, type \in scope.types, amount \in Amounts :
             \/ CreateTransaction(i, date, type, amount)
             \/ UpdateTransaction(i, date, type, amount)
             \/ RecordPlanMovement(i, date, type, amount)
       \/ \E i \in TxIds, date \in scope.loanInstants :
             \/ \E amount \in Amounts : RecordLoanMovement(i, date, amount)
             \/ MoveLoan(i, date)
       \/ \E i \in TxIds, date \in scope.instants, amount \in Amounts : MovePurchase(i, date, amount)
       \/ \E i \in TxIds : RemoveTransaction(i) \/ DropLoanMovement(i) \/ DropPlanMovement(i)
       \/ \E c \in scope.contributions, goal \in Goals, date \in scope.instants, amount \in Amounts :
             AddContribution(c, goal, date, amount)
       \/ \E goal \in Goals : RemoveGoal(goal)
       \/ \E now \in scope.instants : GetCurrentPeriod(now) \/ ReadCurrentLedger(now)
       \/ \E k \in DOMAIN periods : ReadLedger(k) \/ RecalculateFrom(k)
       \/ MigratePeriods

Spec == Init /\ [][Next]_vars

-----------------------------------------------------------------------------
(* Properties *)

\* The sums of the movements of some types dated within a period.
DatedIn(p, types) ==
    Total(money, {i \in DOMAIN txs : Covers(p, txs[i].date) /\ money[i].type \in types})

SavedIn(p) ==
    Total(contributions, {c \in DOMAIN contributions : Covers(p, contributions[c].date)})

\* A stored ledger is never stale: whatever was created, edited, moved or
\* deleted since, and in whatever order, it holds the income, the expenses and
\* the contributions dated in its period, as a reader would sum them now.
LedgersMatchMovements ==
    \A k \in DOMAIN ledgers :
        /\ ledgers[k].income = DatedIn(periods[k], IncomeTypes)
        /\ ledgers[k].expenses = DatedIn(periods[k], EXPENSE_TYPES)
        /\ ledgers[k].savings = SavedIn(periods[k])

\* A period closes with the running balance of everything dated since the
\* first period began: the cascade never breaks the chain of rollovers, not at
\* a period without a ledger, nor behind a retroactive change.
ClosingIsRunningBalance ==
    \A k \in DOMAIN ledgers :
        LET upToK == [start |-> Min(StartsOf(periods, DOMAIN periods)),
                      end   |-> periods[k].end]
        IN  ledgers[k].closing =
               DatedIn(upToK, IncomeTypes) - DatedIn(upToK, EXPENSE_TYPES) - SavedIn(upToK)

\* The requests of this module do to the rows of transactions and periods what
\* TransactionPeriods says, so that its properties hold here too.
RowsSpec == Rows!Spec

=============================================================================
