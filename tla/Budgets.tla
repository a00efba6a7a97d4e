------------------------------ MODULE Budgets ------------------------------
(***************************************************************************)
(* BudgetRecalculationService and the requests that call it: the ledgers,  *)
(* the limits and the spent amounts that are rewritten after a movement, a *)
(* fixed expense or a rule changes, statement by statement.                *)
(*                                                                         *)
(* Each request is a database transaction under Read Committed: what it    *)
(* writes is its own until the commit and locks the rows it writes; what   *)
(* it reads is what was committed when that statement ran, and its own.    *)
(* One step is one statement, or several in a row of which only the last   *)
(* could tell the difference.                                              *)
(*                                                                         *)
(* The periods are given and the last one is open; how they come to be is  *)
(* the business of PeriodSequence.  A movement is whatever a ledger or a   *)
(* budget counts: an expense, an income, a contribution to a goal          *)
(* ("saving"), an installment that is due, or one recognized as an expense.*)
(***************************************************************************)
EXTENDS Integers, FiniteSetsExt, Functions

CONSTANTS
    Clients,        \* who sends requests, one at a time each
    Teams,          \* for each client, which kinds of request it sends
    Last,           \* the open period; the first is 1
    Categories,
    MovementIds, FixedIds,
    Kinds,          \* the kinds of movement of an instance
    Amounts,        \* amounts in cents
    Percentages,    \* of rules, and of the savings target
    Requirements,   \* what the goals may ask a month
    NotCreated,     \* a row not yet in its table
    Gone,           \* a row that was deleted; ids are not used again
    Idle            \* a client without a request in progress

ASSUME LastAssumption == Last \in Nat \ {0}
ASSUME BudgetIdsAssumption ==
    IsFiniteSet(MovementIds) /\ IsFiniteSet(FixedIds) /\ IsFiniteSet(Categories)
ASSUME AmountsAssumption == Amounts \subseteq Nat \ {0}
ASSUME PercentagesAssumption == Percentages \subseteq 0..100

VARIABLES
    db,         \* the committed rows: key -> row
    alerts,     \* committed alerts of the open period: type -> how many
    tx,         \* client -> its transaction in progress
    sends       \* client -> the kinds of request it sends; never changes

vars == <<db, alerts, tx, sends>>

Periods == 1..Last

Movement(m)  == <<"transaction", m>>
Ledger(p)    == <<"ledger", p>>
Budget(p, k) == <<"budget", p, k>>
Fixed(f)     == <<"recurringExpense", f>>
Rule(k)      == <<"rule", k>>
Target       == <<"targetSavingsPercentage">>
Required     == <<"goals">>

Keys ==
    {Movement(m) : m \in MovementIds} \union {Ledger(p) : p \in Periods}
    \union {Budget(p, k) : p \in Periods, k \in Categories}
    \union {Fixed(f) : f \in FixedIds} \union {Rule(k) : k \in Categories}
    \union {Target, Required}

\* The rows of each table.
NewMovement == [kind : Kinds, period : Periods, category : Categories, amount : Amounts]
NewFixed    == [category : Categories, amount : Amounts, active : BOOLEAN]
LedgerRow   == [opening : Int, income : Int, closing : Int]
BudgetRow   == [limit : Int, spent : Int]

\* What stands for a row that is not there is no row.
ASSUME BudgetRowsAssumption ==
    /\ NotCreated # Gone
    /\ \A none \in {NotCreated, Gone} :
          /\ none \notin NewMovement /\ none \notin NewFixed
          /\ none \notin LedgerRow /\ none \notin BudgetRow
          /\ none \notin Percentages

AlertTypes == {"PERIOD_DEFICIT", "SAVINGS_TARGET_AT_RISK"}

Exists(rows, key) == rows[key] \notin {NotCreated, Gone}

Init ==
    /\ \E target \in Percentages, required \in Requirements :
          db = [key \in Keys |-> CASE key = Target -> target [] key = Required -> required
                                   [] OTHER -> NotCreated]
    /\ alerts = [t \in AlertTypes |-> 0]
    /\ tx = [c \in Clients |-> Idle]
    /\ sends \in Teams

-----------------------------------------------------------------------------
(* What a statement reads and writes *)

\* The rows, with those of `mine` in their place.
Over(mine, rows) ==
    [key \in DOMAIN mine \union DOMAIN rows |-> IF key \in DOMAIN mine THEN mine[key] ELSE rows[key]]

\* What a statement of c reads: the committed rows, and its own.
Seen(c) == Over(tx[c].mine, db)

\* The rows no other transaction has written and not committed.
Free(c, keys) ==
    \A d \in Clients \ {c} : tx[d] # Idle => keys \intersect DOMAIN tx[d].mine = {}

MovementsOf(rows, p, kinds) ==
    {m \in MovementIds : /\ Exists(rows, Movement(m))
                         /\ rows[Movement(m)].period = p
                         /\ rows[Movement(m)].kind \in kinds}

Total(rows, movements) == SumFunction([m \in movements |-> rows[Movement(m)].amount])

TotalOf(rows, p, kinds, k) ==
    Total(rows, {m \in MovementsOf(rows, p, kinds) : rows[Movement(m)].category = k})

Spending == {"expense", "recognized"}   \* EXPENSE and DEBT_PAYMENT
Charging == {"due", "recognized"}       \* what installmentChargesInRange counts

\* computeAndUpsert; expenses and savings are not kept apart here.
NewLedger(rows, p, opening) ==
    LET income == Total(rows, MovementsOf(rows, p, {"income"}))
    IN  [opening |-> opening, income |-> income,
         closing |-> opening + income
                     - Total(rows, MovementsOf(rows, p, Spending \union {"saving"}))]

-----------------------------------------------------------------------------
(* The limits of a period *)

FixedOf(rows, k) ==
    {f \in FixedIds : /\ Exists(rows, Fixed(f))
                      /\ rows[Fixed(f)].active /\ rows[Fixed(f)].category = k}

FixedAmount(rows, k) == SumFunction([f \in FixedOf(rows, k) |-> rows[Fixed(f)].amount])

FixedCommitments(rows) == SumFunction([k \in Categories |-> FixedAmount(rows, k)])

InstallmentCommitments(rows, p) ==
    SumFunction([k \in Categories |-> TotalOf(rows, p, Charging, k)])

BudgetBase(rows, p) ==
    rows[Ledger(p)].opening + rows[Ledger(p)].income
    - FixedCommitments(rows) - InstallmentCommitments(rows, p)

Distributable(rows, p) == IF BudgetBase(rows, p) < 0 THEN 0 ELSE BudgetBase(rows, p)

\* To whole cents, half up.
PercentOf(percentage, amount) == (2 * percentage * amount + 100) \div 200

Limited(rows, p) ==
    {k \in Categories : \/ FixedOf(rows, k) # {}
                        \/ Exists(rows, Rule(k))
                        \/ TotalOf(rows, p, Charging, k) # 0}

\* Mutant: the rule of a category takes precedence over its fixed expenses.
LimitByRuleFirst(rows, p, k) ==
    TotalOf(rows, p, Charging, k)
    + (IF Exists(rows, Rule(k)) THEN PercentOf(rows[Rule(k)], Distributable(rows, p))
       ELSE FixedAmount(rows, k))

Limit(rows, p, k) ==
    TotalOf(rows, p, Charging, k)
    + CASE FixedOf(rows, k) # {}                          -> FixedAmount(rows, k)
        [] FixedOf(rows, k) = {} /\ Exists(rows, Rule(k)) ->
              PercentOf(rows[Rule(k)], Distributable(rows, p))
        [] OTHER                                          -> 0

\* Where a category comes in the map of the limits: the fixed expenses, the
\* rules, the installments.
Rank(rows, k) ==
    IF FixedOf(rows, k) # {} THEN 1 ELSE IF Exists(rows, Rule(k)) THEN 2 ELSE 3

\* Mutant: the deficit is looked for in the closing balance.
DueByClosing(rows) ==
    {t \in AlertTypes :
        CASE t = "PERIOD_DEFICIT" -> rows[Ledger(Last)].closing < 0
          [] t = "SAVINGS_TARGET_AT_RISK" ->
                100 * rows[Required] > Distributable(rows, Last) * rows[Target]}

\* The alerts the open period calls for.
Due(rows) ==
    {t \in AlertTypes :
        CASE t = "PERIOD_DEFICIT" -> BudgetBase(rows, Last) < 0
          [] t = "SAVINGS_TARGET_AT_RISK" ->
                100 * rows[Required] > Distributable(rows, Last) * rows[Target]}

Upserted(rows, key, created, field, value) ==
    IF Exists(rows, key) THEN [rows[key] EXCEPT ![field] = value]
    ELSE [created EXCEPT ![field] = value]

NewBudget == [limit |-> 0, spent |-> 0]

-----------------------------------------------------------------------------
(* Requests *)

\* A transaction of c: what it does next, the period it is at, the first period
\* whose budgets it recalculates, what it last read, the alerts it found due,
\* the rows it has written.
Begin(c, op, at, p, got, mine) ==
    /\ tx[c] = Idle
    /\ op \in sends[c]
    /\ tx' = [tx EXCEPT ![c] = [op |-> op, at |-> at, period |-> p, first |-> p,
                               got |-> got, due |-> {}, mine |-> mine]]
    /\ UNCHANGED <<db, alerts, sends>>

Row(key, row) == [k \in {key} |-> row]
NoRows == [k \in {} |-> Gone]

\* A new movement is inserted, then the ledgers from its period on.
Add(c, m, row) ==
    /\ db[Movement(m)] = NotCreated
    /\ Free(c, {Movement(m)})
    /\ Begin(c, "add", "chain", row.period, <<>>, Row(Movement(m), row))

\* The earlier of the periods before and after.
Affected(old, new) ==
    IF new = Gone \/ old.period < new.period THEN old.period ELSE new.period

\* What may become of a movement: a transaction stays one, an installment is
\* recognized or undone, a contribution is only removed with its goal.
MayBecome(old, new) ==
    \/ new = Gone
    \/ new # Gone /\ {old.kind, new.kind} \subseteq {"expense", "income"}
    \/ new # Gone /\ {old.kind, new.kind} \subseteq Charging

\* An edit or a removal reads the movement before its transaction.
Change(c, m, row) ==
    /\ Exists(db, Movement(m))
    /\ MayBecome(db[Movement(m)], row)
    /\ Begin(c, "change", "write", Affected(db[Movement(m)], row),
             [key |-> Movement(m), row |-> row], NoRows)

\* budgets/:periodId/recalculate, and recalculateFrom of the ledgers alone
Recalculate(c, p) ==
    \E op \in {"recalculate", "ledgers"} : Begin(c, op, "chain", p, <<>>, NoRows)

ResetSpent(c, p) == Begin(c, "resetSpent", "group", p, <<>>, NoRows)

AddFixed(c, f, row) ==
    /\ db[Fixed(f)] = NotCreated
    /\ Free(c, {Fixed(f)})
    /\ Begin(c, "fixed", "sources", Last, <<>>, Row(Fixed(f), row))

ChangeFixed(c, f, row) ==
    /\ Exists(db, Fixed(f))
    /\ Begin(c, "fixed", "write", Last, [key |-> Fixed(f), row |-> row], NoRows)

\* Requests of one statement, which recalculate nothing: rules, the savings
\* target, the goals' monthly contribution, a limit set by hand.  Several limits or
\* rules of one body are so many requests here.
Set(c, key, row) ==
    /\ tx[c] = Idle
    /\ "set" \in sends[c]
    /\ Free(c, {key})
    /\ db' = [db EXCEPT ![key] = row]
    /\ UNCHANGED <<alerts, tx, sends>>

SetLimit(c, p, k, amount) ==
    Set(c, Budget(p, k), Upserted(db, Budget(p, k), NewBudget, "limit", amount))

-----------------------------------------------------------------------------
(* Statements of a transaction *)

\* c is at a statement that only reads; it goes on to another.
Read(c, at, changes) ==
    /\ tx' = [tx EXCEPT ![c] = [changes EXCEPT !.at = at]]
    /\ UNCHANGED <<db, alerts, sends>>

\* c writes rows nobody else has locked.
Write(c, rows, changes) ==
    /\ Free(c, DOMAIN rows)
    /\ tx' = [tx EXCEPT ![c] = [changes EXCEPT !.mine = Over(rows, @)]]
    /\ UNCHANGED <<db, alerts, sends>>

At(c, step) == tx[c] # Idle /\ tx[c].at = step

\* update or delete of the row the request is about
WriteRow(c) ==
    /\ At(c, "write")
    /\ LET q == tx[c]
       IN  /\ Exists(Seen(c), q.got.key)
           /\ Write(c, Row(q.got.key, q.got.row),
                    [q EXCEPT !.at = IF q.op = "fixed" THEN "sources" ELSE "chain",
                              !.got = <<>>])

\* recalculateLedgerCascade reads the ledgers and walks back to the first
\* period without one.
ReadChain(c) ==
    /\ At(c, "chain")
    /\ LET q == tx[c]
           rows == Seen(c)
           start == Max({p \in 1..q.period : p = 1 \/ Exists(rows, Ledger(p - 1))})
       IN  Read(c, "sum", [q EXCEPT
               !.period = start,
               !.first = IF q.op = "fixed" THEN Last ELSE start,
               !.got = [opening |-> IF start = 1 THEN 0 ELSE rows[Ledger(start - 1)].closing]])

SumMovements(c) ==
    /\ At(c, "sum")
    /\ LET q == tx[c]
       IN  Read(c, "ledger", [q EXCEPT !.got = NewLedger(Seen(c), q.period, q.got.opening)])


WriteLedger(c) ==
    /\ At(c, "ledger")
    /\ LET q == tx[c]
       IN  Write(c, Row(Ledger(q.period), q.got),
                 IF q.period < Last
                 THEN [q EXCEPT !.at = "sum", !.period = @ + 1,
                                !.got = [opening |-> q.got.closing]]
                 ELSE [q EXCEPT !.at = IF q.op = "ledgers" THEN "commit" ELSE "sources",
                                !.period = q.first, !.got = <<>>])

\* getOrBuildLedger finds none: the cascade.
BuildLedger(c) ==
    /\ At(c, "sources")
    /\ ~Exists(Seen(c), Ledger(tx[c].period))
    /\ Read(c, "chain", tx[c])

ReadSources(c) ==
    /\ At(c, "sources")
    /\ LET q == tx[c]
           rows == Seen(c)
       IN  /\ Exists(rows, Ledger(q.period))
           /\ Read(c, "limits", [q EXCEPT
                  !.got = [k \in Limited(rows, q.period) |->
                              [limit |-> Limit(rows, q.period, k), rank |-> Rank(rows, k)]],
                  !.due = IF q.period = Last THEN Due(rows) ELSE {}])

\* The budgets of c's period whose row its next statement may write: the limits
\* in the order of the map, the groups in any, then those of the updateMany.
NextBudgets(c) ==
    LET got == tx[c].got
    IN  CASE At(c, "limits") ->
                {k \in DOMAIN got : \A j \in DOMAIN got : got[k].rank <= got[j].rank}
          [] At(c, "spent")   -> {k \in DOMAIN got : got[k] > 0}
          [] At(c, "unspent") -> DOMAIN got
          [] OTHER            -> {}

\* c upserts one budget of its period; the others are left.
WriteBudget(c, k, field, value) ==
    LET q == tx[c]
        key == Budget(q.period, k)
    IN  /\ k \in NextBudgets(c)
        /\ Write(c, Row(key, Upserted(Seen(c), key, NewBudget, field, value)),
                 [q EXCEPT !.got = Restrict(@, DOMAIN @ \ {k})])

WriteLimits(c) ==
    At(c, "limits") /\ \E k \in NextBudgets(c) : WriteBudget(c, k, "limit", tx[c].got[k].limit)

\* syncSpent: groupBy, which knows no more categories than have expenses
GroupSpent(c) ==
    /\ At(c, "group") \/ (At(c, "limits") /\ DOMAIN tx[c].got = {})
    /\ LET q == tx[c]
       IN  Read(c, "spent", [q EXCEPT !.got = [k \in Categories |->
                                                TotalOf(Seen(c), q.period, Spending, k)]])

\* ... the upserts of the groups, and the rows of the updateMany after them,
\* which it writes, so locks, one after another
WriteSpent(c) ==
    /\ tx[c] # Idle
    /\ tx[c].at \in {"spent", "unspent"}
    /\ \E k \in NextBudgets(c) : WriteBudget(c, k, "spent", tx[c].got[k])

\* Mutant: a category that has no expenses any more keeps its spent amount.
UnspentNone(c) == {}

\* The categories without expenses that have a budget.
Unspent(c) == {k \in DOMAIN tx[c].got : Exists(Seen(c), Budget(tx[c].period, k))}

\* ... the updateMany, which looks for its rows when all groups are written
FindUnspent(c) ==
    /\ At(c, "spent")
    /\ NextBudgets(c) = {}
    /\ Read(c, "unspent", [tx[c] EXCEPT !.got = [k \in Unspent(c) |-> 0]])

\* The budgets of the period are done.
EndPeriod(c) ==
    /\ At(c, "unspent")
    /\ NextBudgets(c) = {}
    /\ LET q == tx[c]
       IN  Read(c, IF q.op = "resetSpent" THEN "commit"
                   ELSE IF q.period < Last THEN "sources" ELSE "alerts",
                [q EXCEPT !.period = IF q.op # "resetSpent" /\ @ < Last THEN @ + 1 ELSE @,
                          !.got = <<>>])

\* Mutant: an alert is created without looking for an earlier one.
CreateAgain(c) == At(c, "alerts") /\ Read(c, "commit", tx[c])

\* createOnce: looks for the alert, creates it if it finds none.
CreateOnce(c) ==
    /\ At(c, "alerts")
    /\ Read(c, "commit", [tx[c] EXCEPT !.due = {t \in @ : alerts[t] = 0}])

AlertsWith(created) == [t \in AlertTypes |-> alerts[t] + (IF t \in created THEN 1 ELSE 0)]

Commit(c) ==
    /\ At(c, "commit")
    /\ db' = Seen(c)
    /\ alerts' = AlertsWith(tx[c].due)
    /\ tx' = [tx EXCEPT ![c] = Idle]
    /\ UNCHANGED sends

\* A row is gone, the 30 seconds of a transaction are over, or the server
\* stopped: nothing is written.
Rollback(c) ==
    /\ tx[c] # Idle
    /\ tx' = [tx EXCEPT ![c] = Idle]
    /\ UNCHANGED <<db, alerts, sends>>

Request(c) ==
    \/ \E m \in MovementIds, row \in NewMovement : Add(c, m, row) \/ Change(c, m, row)
    \/ \E m \in MovementIds : Change(c, m, Gone)
    \/ \E p \in Periods : Recalculate(c, p) \/ ResetSpent(c, p)
    \/ \E f \in FixedIds, row \in NewFixed : AddFixed(c, f, row) \/ ChangeFixed(c, f, row)
    \/ \E f \in FixedIds : ChangeFixed(c, f, Gone)
    \/ \E k \in Categories, percentage \in Percentages : Set(c, Rule(k), percentage)
    \/ \E percentage \in Percentages : Set(c, Target, percentage)
    \/ \E amount \in Requirements : Set(c, Required, amount)
    \/ \E p \in Periods, k \in Categories, amount \in Amounts : SetLimit(c, p, k, amount)

Statement(c) ==
    \/ WriteRow(c)
    \/ ReadChain(c) \/ SumMovements(c) \/ WriteLedger(c)
    \/ BuildLedger(c) \/ ReadSources(c) \/ WriteLimits(c)
    \/ GroupSpent(c) \/ WriteSpent(c) \/ FindUnspent(c) \/ EndPeriod(c)
    \/ CreateOnce(c) \/ Commit(c)

Next == \E c \in Clients : Request(c) \/ Statement(c) \/ Rollback(c)

Spec == Init /\ [][Next]_vars

\* The rows one of which the next statement of c writes.
NextRows(c) ==
    CASE At(c, "write")  -> {tx[c].got.key}
      [] At(c, "ledger") -> {Ledger(tx[c].period)}
      [] tx[c] # Idle /\ tx[c].at \in {"limits", "spent", "unspent"} ->
            {Budget(tx[c].period, k) : k \in NextBudgets(c)}
      [] OTHER -> {}

\* Transactions that may wait for each other: a row that one of them may write
\* next, another has.
Circles ==
    {circle \in SUBSET Clients \ {{}} : \A c \in circle :
        \E key \in NextRows(c) : \E d \in circle \ {c} :
            tx[d] # Idle /\ key \in DOMAIN tx[d].mine}

-----------------------------------------------------------------------------
(* Properties *)

\* What a budget says was spent is what the movements of its period say, with
\* or without a budget for the category.
SpentFollowsMovements ==
    \A p \in Periods, k \in Categories :
        (IF Exists(db, Budget(p, k)) THEN db[Budget(p, k)].spent ELSE 0)
        = TotalOf(db, p, Spending, k)

\* This step commits the transaction of c.
Commits(c) ==
    At(c, "commit") /\ tx'[c] = Idle /\ db' = Seen(c) /\ alerts' = AlertsWith(tx[c].due)

\* The periods whose limits the request of c recalculates.
Reached(c) ==
    IF tx[c].op \in {"add", "change", "recalculate", "fixed"} THEN tx[c].first..Last ELSE {}

\* The limits of period p are those its ledger, the fixed expenses, the rules
\* and the installments ask for: the fixed expenses of a category go before its
\* rule, a rule takes its percentage (to the cent) of what is left to
\* distribute, nothing of a deficit, and installments add to both.
LimitsOK(p) ==
    LET base == BudgetBase(db, p)
    IN  \A k \in Categories :
          LET rest == db[Budget(p, k)].limit - TotalOf(db, p, Charging, k)
          IN  /\ FixedOf(db, k) # {} =>
                    Exists(db, Budget(p, k)) /\ rest = FixedAmount(db, k)
              /\ (FixedOf(db, k) = {} /\ Exists(db, Rule(k))) =>
                    /\ Exists(db, Budget(p, k))
                    /\ base <= 0 => rest = 0
                    /\ base > 0  => 200 * rest - 2 * db[Rule(k)] * base \in -99..100
              /\ TotalOf(db, p, Charging, k) > 0 => Exists(db, Budget(p, k)) /\ rest >= 0

\* A request that moves money or changes a fixed expense leaves right the limits
\* of every period it reaches, and no limit that was right becomes wrong but
\* those of closed periods when a fixed expense changes: they are history.
LimitsFollowSources ==
    [][\A c \in Clients : Commits(c) =>
          \A p \in Periods :
              \/ p \in Reached(c)
              \/ tx[c].op # "fixed" /\ Exists(db, Ledger(p)) /\ LimitsOK(p)
              => LimitsOK(p)']_vars

\* An alert of a kind is created once in a period ("una ... por periodo", the
\* comment of createOnce), though nothing in the table of alerts ensures it.
OneAlertPerPeriod == \A t \in AlertTypes : alerts[t] <= 1

\* Whatever leaves the open period in deficit leaves an alert that says so.
DeficitIsAlerted ==
    [][\A c \in Clients : (Commits(c) /\ Reached(c) # {} /\ (BudgetBase(db, Last) < 0)')
                           => (alerts["PERIOD_DEFICIT"] > 0)']_vars


\* A ledger says what the movements of its period say and goes on from the one
\* before ("Es un dato derivado [...] que PeriodLedgerService.
\* recalculateLedgerCascade mantiene al dia", schema.prisma).
LedgersFollowMovements ==
    \A p \in Periods : Exists(db, Ledger(p)) =>
        db[Ledger(p)] = NewLedger(db, p, IF p > 1 /\ Exists(db, Ledger(p - 1))
                                         THEN db[Ledger(p - 1)].closing ELSE 0)

=============================================================================
