---------------------------- MODULE AlertsProofs ----------------------------
(***************************************************************************)
(* What is proved of the two components that leave alerts, Budgets and,    *)
(* from "Reminders" on, Reminders.                                         *)
(*                                                                         *)
(* Of Budgets, for any number of clients, periods, categories and rows and *)
(* any amounts: the spent amounts follow the movements, an alert is        *)
(* created once, and a deficit is alerted.  Each is so while one client    *)
(* alone sends requests, or several whose transactions overlap, of the     *)
(* kinds that hold the row of the last ledger from the ledgers on: what a  *)
(* request has found out stays so until it commits, because those that     *)
(* overlap it are at an earlier statement and wait for that row.  The      *)
(* invariant says for each statement what the request has left right so    *)
(* far, in the rows as it sees them.  A second invariant says the same of  *)
(* the limits, for fewer kinds that may overlap, and of the ledgers, for   *)
(* one client alone.                                                       *)
(*                                                                         *)
(* Of Reminders, for any number of expenses and of periods, any lengths of *)
(* the months and any window: a period reminds of an expense once, and no  *)
(* expense that is due in a month is passed over.  The invariant of the    *)
(* second says of every day what has been done by then: an expense whose   *)
(* day has come is covered, unless the reminder of that day has it still   *)
(* ahead.                                                                  *)
(***************************************************************************)
EXTENDS Budgets, Reminders, FiniteTheorems, TLAPS

-----------------------------------------------------------------------------
(* Tables *)

\* The tables share no row.
LEMMA KeysApart ==
  /\ \A m, n : Movement(m) = Movement(n) => m = n
  /\ \A m, n : Ledger(m) = Ledger(n) => m = n
  /\ \A m, n : Fixed(m) = Fixed(n) => m = n
  /\ \A m, n : Rule(m) = Rule(n) => m = n
  /\ \A m, n, j, k : Budget(m, j) = Budget(n, k) => m = n /\ j = k
  /\ \A m, n : /\ Movement(m) # Ledger(n) /\ Movement(m) # Fixed(n) /\ Movement(m) # Rule(n)
               /\ Ledger(m) # Fixed(n) /\ Ledger(m) # Rule(n) /\ Fixed(m) # Rule(n)
  /\ \A m, n, k : /\ Movement(m) # Budget(n, k) /\ Ledger(m) # Budget(n, k)
                  /\ Fixed(m) # Budget(n, k) /\ Rule(m) # Budget(n, k)
  /\ \A m : /\ Movement(m) \notin {Target, Required} /\ Ledger(m) \notin {Target, Required}
            /\ Fixed(m) \notin {Target, Required} /\ Rule(m) \notin {Target, Required}
  /\ \A m, k : Budget(m, k) \notin {Target, Required}
  /\ Target # Required
BY DEF Movement, Ledger, Fixed, Rule, Budget, Target, Required

\* The keys of each table.
LEMMA TheKeys ==
  /\ \A m \in MovementIds : Movement(m) \in Keys
  /\ \A p \in Periods : Ledger(p) \in Keys
  /\ \A p \in Periods, k \in Categories : Budget(p, k) \in Keys
  /\ \A f \in FixedIds : Fixed(f) \in Keys
  /\ \A k \in Categories : Rule(k) \in Keys
  /\ Target \in Keys /\ Required \in Keys
BY DEF Keys

\* Rows of the type of their table.
Typed(rows) ==
    /\ \A m \in MovementIds : Movement(m) \in DOMAIN rows =>
          rows[Movement(m)] \in NewMovement \union {NotCreated, Gone}
    /\ \A p \in Periods : Ledger(p) \in DOMAIN rows =>
          rows[Ledger(p)] \in LedgerRow \union {NotCreated}
    /\ \A p \in Periods, k \in Categories : Budget(p, k) \in DOMAIN rows =>
          rows[Budget(p, k)] \in BudgetRow \union {NotCreated}
    /\ \A f \in FixedIds : Fixed(f) \in DOMAIN rows =>
          rows[Fixed(f)] \in NewFixed \union {NotCreated, Gone}
    /\ \A k \in Categories : Rule(k) \in DOMAIN rows =>
          rows[Rule(k)] \in Percentages \union {NotCreated}

\* What is read through a transaction has the types of what it is made of.
LEMMA OverIsTyped ==
  ASSUME NEW mine, NEW rows, Typed(mine), Typed(rows)
  PROVE  Typed(Over(mine, rows))
BY DEF Typed, Over

\* The rows a transaction has written are its own, the others those committed.
LEMMA OverReads ==
  ASSUME NEW mine, NEW rows, NEW key
  PROVE  /\ DOMAIN Over(mine, rows) = DOMAIN mine \union DOMAIN rows
         /\ key \in DOMAIN mine => Over(mine, rows)[key] = mine[key]
         /\ key \in DOMAIN rows /\ key \notin DOMAIN mine => Over(mine, rows)[key] = rows[key]
BY DEF Over

-----------------------------------------------------------------------------
(* Sums of movements *)

\* Movement m counts nothing in period p.
Elsewhere(rows, m, p) == Exists(rows, Movement(m)) => rows[Movement(m)].period # p

\* The movements of period p, whatever else the rows say.
SameMovements(a, b, p) ==
    \A m \in MovementIds : \/ a[Movement(m)] = b[Movement(m)]
                           \/ Elsewhere(a, m, p) /\ Elsewhere(b, m, p)

\* Sums depend on the movements of the period only.
LEMMA TotalOfSame ==
  ASSUME NEW a, NEW b, NEW p, SameMovements(a, b, p), NEW kinds, NEW k
  PROVE  TotalOf(a, p, kinds, k) = TotalOf(b, p, kinds, k)
<1> DEFINE of(rows) == {m \in MovementsOf(rows, p, kinds) : rows[Movement(m)].category = k}
           table(rows) == [m \in of(rows) |-> rows[Movement(m)].amount]
<1>1. \A m \in of(a) : m \in of(b) /\ a[Movement(m)] = b[Movement(m)]
  BY DEF SameMovements, Elsewhere, MovementsOf, Exists
<1>2. \A m \in of(b) : m \in of(a) /\ a[Movement(m)] = b[Movement(m)]
  BY DEF SameMovements, Elsewhere, MovementsOf, Exists
<1>3. of(a) = of(b)
  BY <1>1, <1>2
<1>4. table(a) = table(b)
  BY <1>1, <1>3
<1>5. QED
  BY <1>4 DEF TotalOf, Total

\* A sum of movements is a natural number.
LEMMA TotalOfIsNat ==
  ASSUME NEW rows, Typed(rows), Keys \subseteq DOMAIN rows, NEW p, NEW kinds, NEW k
  PROVE  TotalOf(rows, p, kinds, k) \in Nat
<1> DEFINE of == {m \in MovementsOf(rows, p, kinds) : rows[Movement(m)].category = k}
           table == [m \in of |-> rows[Movement(m)].amount]
<1>1. of \in SUBSET MovementIds
  BY DEF MovementsOf
<1>2. IsFiniteSet(of)
  BY <1>1, BudgetIdsAssumption, FS_Subset
<1>3. \A m \in of : table[m] \in Nat
  BY TheKeys, AmountsAssumption DEF MovementsOf, Exists, Typed, NewMovement
<1>4. TotalOf(rows, p, kinds, k) = SumFunctionOnSet(table, of)
  BY SumOfTable DEF TotalOf, Total
<1>5. QED
  BY <1>2, <1>3, <1>4, SumIsNat

-----------------------------------------------------------------------------
(* The invariant *)

\* What the budget of a category says was spent, with or without a budget.
SpentOf(rows, p, k) == IF Exists(rows, Budget(p, k)) THEN rows[Budget(p, k)].spent ELSE 0

SpentOK(rows, p) == \A k \in Categories : SpentOf(rows, p, k) = TotalOf(rows, p, Spending, k)

\* A transaction in progress.
Fields == {"op", "at", "period", "first", "got", "due", "mine"}

IsTx(q) == q = [field \in Fields |-> q[field]]

\* Requests that rewrite the ledgers up to the last one, and so hold its row
\* from then on; requests that recalculate limits.
Cascading == {"add", "change", "recalculate", "ledgers"}
Reaching  == {"add", "change", "recalculate", "fixed"}

\* The statements before the ledgers are written, and after.
Early   == {"write", "chain", "sum", "ledger"}
Budgets == {"sources", "limits", "group", "spent", "unspent"}
Closing == {"alerts", "commit"}

Shape(q) ==
    /\ IsTx(q)
    /\ q.op \in Cascading \union {"fixed", "resetSpent"}
    /\ q.at \in Early \union Budgets \union Closing
    /\ q.period \in Periods /\ q.first \in Periods /\ q.due \in SUBSET AlertTypes
    /\ Typed(q.mine) /\ DOMAIN q.mine \subseteq Keys
    /\ q.op = "resetSpent" => q.at \in {"group", "spent", "unspent", "commit"}
    /\ q.op = "ledgers" => q.at \in {"chain", "sum", "ledger", "commit"}
    /\ q.op = "fixed" => /\ q.first = Last
                         /\ q.at \in {"write"} \union Budgets \union Closing => q.period = Last
    /\ q.op # "fixed" => /\ q.first <= q.period
                         /\ q.at \in {"write", "chain"} => q.period = q.first
    /\ q.at = "write" => q.op \in {"change", "fixed"} /\ DOMAIN q.mine = {}

\* What the last statement read.
GotOK(q) ==
    /\ q.at = "write" /\ q.op = "change" =>
          \E m \in MovementIds : q.got.key = Movement(m) /\ q.got.row \in NewMovement \union {Gone}
    /\ q.at = "write" /\ q.op = "fixed" =>
          \E f \in FixedIds : q.got.key = Fixed(f) /\ q.got.row \in NewFixed \union {Gone}
    /\ q.at = "sum" => q.got.opening \in Int
    /\ q.at = "ledger" => q.got \in LedgerRow
    /\ q.at = "limits" =>
          DOMAIN q.got \subseteq Categories /\ \A k \in DOMAIN q.got : q.got[k].limit \in Int
    /\ q.at \in {"spent", "unspent"} =>
          DOMAIN q.got \subseteq Categories /\ \A k \in DOMAIN q.got : q.got[k] \in Nat

\* The rows a request writes.
OwnOK(q) ==
    /\ \A m \in MovementIds : Movement(m) \in DOMAIN q.mine => q.op \in {"add", "change"}
    /\ \A f \in FixedIds : Fixed(f) \in DOMAIN q.mine => q.op = "fixed"
    /\ \A k \in Categories : Rule(k) \notin DOMAIN q.mine
    /\ Target \notin DOMAIN q.mine /\ Required \notin DOMAIN q.mine
    /\ \A p \in Periods, k \in Categories : Budget(p, k) \in DOMAIN q.mine =>
          /\ q.at \notin Early /\ q.op # "ledgers" /\ p >= q.first
          /\ ~ (q.op = "fixed" /\ q.at = "sources")
          /\ q.mine[Budget(p, k)] \in BudgetRow
    /\ \A p \in Periods : Ledger(p) \in DOMAIN q.mine =>
          /\ q.op # "resetSpent"
          /\ q.op # "fixed" => p >= q.first
          /\ q.mine[Ledger(p)] \in LedgerRow
    /\ q.op \in Cascading /\ q.at \in {"sum", "ledger"} =>
          \A p \in Periods : q.first <= p /\ p < q.period => Ledger(p) \in DOMAIN q.mine
    /\ q.op \in Cascading /\ q.at \in Budgets \union Closing =>
          \A p \in Periods : q.first <= p => Ledger(p) \in DOMAIN q.mine

\* The movement a request writes counts in no period before the first one it
\* recalculates, neither as it was nor as it becomes.
MovesOK(rows, q) ==
    /\ q.at = "write" /\ q.op = "change" =>
          /\ Exists(rows, q.got.key)
          /\ rows[q.got.key].period >= q.first
          /\ q.got.row # Gone => q.got.row.period >= q.first
    /\ \A m \in MovementIds : Movement(m) \in DOMAIN q.mine =>
          /\ q.op = "add" => rows[Movement(m)] = NotCreated
          /\ \A p \in Periods : p < q.first => Elsewhere(rows, m, p) /\ Elsewhere(q.mine, m, p)

View(rows, q) == Over(q.mine, rows)

\* What a request leaves of the spent amounts, as far as it has come.
SpentSoFar(rows, q) ==
    /\ q.at \in Budgets =>
          \A p \in Periods : p < q.period \/ (q.op = "resetSpent" /\ p > q.period) =>
              SpentOK(View(rows, q), p)
    /\ q.at \in {"spent", "unspent"} =>
          \A k \in Categories : TotalOf(View(rows, q), q.period, Spending, k)
                                = IF k \in DOMAIN q.got THEN q.got[k]
                                  ELSE SpentOf(View(rows, q), q.period, k)
    /\ q.at \in Closing => \A p \in Periods : SpentOK(View(rows, q), p)

InDeficit(rows) == BudgetBase(rows, Last) < 0

\* The sources of the open period have been read.
DueIsKnown(q) ==
    \/ q.at = "alerts"
    \/ q.op \in Reaching /\ q.period = Last /\ q.at \in {"limits", "group", "spent", "unspent"}

\* The alerts it is going to create.
AlertsSoFar(rows, created, q) ==
    /\ q.op \notin Reaching => q.due = {}
    /\ q.at = "commit" => \A t \in q.due : created[t] = 0
    /\ DueIsKnown(q) /\ InDeficit(View(rows, q)) => "PERIOD_DEFICIT" \in q.due
    /\ q.op \in Reaching /\ q.at = "commit" /\ InDeficit(View(rows, q)) =>
          "PERIOD_DEFICIT" \in q.due \/ created["PERIOD_DEFICIT"] > 0

TxInv(rows, created, q) ==
    /\ Shape(q)
    /\ GotOK(q)
    /\ OwnOK(q)
    /\ MovesOK(rows, q)
    /\ SpentSoFar(rows, q)
    /\ AlertsSoFar(rows, created, q)

\* Transactions in progress have written different rows.
Locks ==
    \A c, d \in Clients : c # d /\ tx[c] # Idle /\ tx[d] # Idle =>
        DOMAIN tx[c].mine \intersect DOMAIN tx[d].mine = {}

\* One client alone sends requests.
AloneTeam(team) == \E c \in Clients : \A d \in Clients : d # c => team[d] = {}

\* The requests that may overlap: those that move money and settle what may be
\* spent, but of edits and removals one at a time.
OverlappingTeam(team) ==
    /\ \A c \in Clients : team[c] \subseteq Cascading \union {"set"}
    /\ \A c, d \in Clients : "change" \in team[c] /\ "change" \in team[d] => c = d

Orderly(team) == AloneTeam(team) \/ OverlappingTeam(team)

TablesOK ==
    /\ DOMAIN db = Keys /\ Typed(db)
    /\ alerts \in [AlertTypes -> 0 .. 1]

RequestsOK ==
    /\ tx = [c \in Clients |-> tx[c]]
    /\ sends = [c \in Clients |-> sends[c]] /\ Orderly(sends)
    /\ \A c \in Clients : tx[c] # Idle =>
          tx[c].op \in sends[c] /\ TxInv(db, alerts, tx[c])

Inv ==
    /\ TablesOK
    /\ RequestsOK
    /\ Locks
    /\ SpentFollowsMovements

-----------------------------------------------------------------------------
(* What each statement makes of a transaction *)

Written(q) ==
    [[q EXCEPT !.at = IF q.op = "fixed" THEN "sources" ELSE "chain", !.got = <<>>]
       EXCEPT !.mine = Over(Row(q.got.key, q.got.row), @)]

Chained(q, start, opening) ==
    [[q EXCEPT !.period = start, !.first = IF q.op = "fixed" THEN Last ELSE start,
               !.got = [opening |-> opening]] EXCEPT !.at = "sum"]

Summed(q, ledger) == [[q EXCEPT !.got = ledger] EXCEPT !.at = "ledger"]

WithLedger(q, r) == [r EXCEPT !.mine = Over(Row(Ledger(q.period), q.got), @)]

NextLedger(q) ==
    WithLedger(q, [q EXCEPT !.at = "sum", !.period = @ + 1, !.got = [opening |-> q.got.closing]])

LastLedger(q) ==
    WithLedger(q, [q EXCEPT !.at = IF q.op = "ledgers" THEN "commit" ELSE "sources",
                            !.period = q.first, !.got = <<>>])

Built(q) == [q EXCEPT !.at = "chain"]

Sourced(q, limits, due) == [[q EXCEPT !.got = limits, !.due = due] EXCEPT !.at = "limits"]

\* One budget of its period is written; of what was read the others are left.
BudgetOf(rows, q, k, field, value) ==
    Row(Budget(q.period, k), Upserted(View(rows, q), Budget(q.period, k), NewBudget, field, value))

WithBudget(rows, q, k, field, value) ==
    [[q EXCEPT !.got = Restrict(@, DOMAIN @ \ {k})]
       EXCEPT !.mine = Over(BudgetOf(rows, q, k, field, value), @)]

Grouped(q, groups) == [[q EXCEPT !.got = groups] EXCEPT !.at = "spent"]

Found(q, left) == [[q EXCEPT !.got = left] EXCEPT !.at = "unspent"]

WentOn(q) ==
    [[q EXCEPT !.period = IF q.op # "resetSpent" /\ @ < Last THEN @ + 1 ELSE @, !.got = <<>>]
       EXCEPT !.at = IF q.op = "resetSpent" THEN "commit"
                     ELSE IF q.period < Last THEN "sources" ELSE "alerts"]

Looked(q, due) == [[q EXCEPT !.due = due] EXCEPT !.at = "commit"]

Clear(c) == tx[c] # Idle /\ tx = [d \in Clients |-> tx[d]]

\* Only the transaction of c changes, to r.
Becomes(c, r) == tx' = [tx EXCEPT ![c] = r] /\ UNCHANGED <<db, alerts, sends>>

LEMMA WriteRowDoes ==
  ASSUME NEW c \in Clients, Clear(c), WriteRow(c)
  PROVE  /\ tx[c].at = "write" /\ Free(c, {tx[c].got.key})
         /\ Becomes(c, Written(tx[c]))
BY DEF WriteRow, At, Write, Row, Clear, Written, Becomes

LEMMA ReadChainDoes ==
  ASSUME NEW c \in Clients, Clear(c), ReadChain(c)
  PROVE  LET q == tx[c]
             start == Max({p \in 1..q.period : p = 1 \/ Exists(Seen(c), Ledger(p - 1))})
         IN  /\ q.at = "chain"
             /\ Becomes(c, Chained(q, start, IF start = 1 THEN 0
                                             ELSE Seen(c)[Ledger(start - 1)].closing))
BY DEF ReadChain, At, Read, Clear, Chained, Becomes

LEMMA SumMovementsDoes ==
  ASSUME NEW c \in Clients, Clear(c), SumMovements(c)
  PROVE  /\ tx[c].at = "sum"
         /\ Becomes(c, Summed(tx[c], NewLedger(Seen(c), tx[c].period, tx[c].got.opening)))
BY DEF SumMovements, At, Read, Clear, Summed, Becomes

LEMMA WriteLedgerDoes ==
  ASSUME NEW c \in Clients, Clear(c), WriteLedger(c)
  PROVE  /\ tx[c].at = "ledger" /\ Free(c, {Ledger(tx[c].period)})
         /\ \/ tx[c].period < Last /\ Becomes(c, NextLedger(tx[c]))
            \/ ~ (tx[c].period < Last) /\ Becomes(c, LastLedger(tx[c]))
BY DEF WriteLedger, At, Write, Row, Clear, NextLedger, LastLedger, WithLedger, Becomes

LEMMA BuildLedgerDoes ==
  ASSUME NEW c \in Clients, Clear(c), BuildLedger(c)
  PROVE  /\ tx[c].at = "sources" /\ ~ Exists(View(db, tx[c]), Ledger(tx[c].period))
         /\ Becomes(c, Built(tx[c]))
BY DEF BuildLedger, At, Read, Clear, Built, Becomes, Seen, View

LEMMA ReadSourcesDoes ==
  ASSUME NEW c \in Clients, Clear(c), ReadSources(c)
  PROVE  LET q == tx[c]
             rows == View(db, q)
         IN  /\ q.at = "sources" /\ Exists(rows, Ledger(q.period))
             /\ Becomes(c, Sourced(q, [k \in Limited(rows, q.period) |->
                                          [limit |-> Limit(rows, q.period, k),
                                           rank |-> Rank(rows, k)]],
                                   IF q.period = Last THEN Due(rows) ELSE {}))
BY DEF ReadSources, At, Read, Clear, Sourced, Becomes, Seen, View

\* A budget that may be written next is one of those left.
LEMMA NextIsLeft ==
  ASSUME NEW c, NEW k \in NextBudgets(c)
  PROVE  k \in DOMAIN tx[c].got
BY DEF NextBudgets

LEMMA WriteBudgetDoes ==
  ASSUME NEW c \in Clients, Clear(c), NEW k, NEW field, NEW value, WriteBudget(c, k, field, value)
  PROVE  /\ k \in DOMAIN tx[c].got /\ Free(c, {Budget(tx[c].period, k)})
         /\ Becomes(c, WithBudget(db, tx[c], k, field, value))
<1>1. k \in DOMAIN tx[c].got
  BY NextIsLeft DEF WriteBudget
<1>2. Free(c, {Budget(tx[c].period, k)})
  BY DEF WriteBudget, Write, Row
<1>3. Becomes(c, WithBudget(db, tx[c], k, field, value))
  BY DEF WriteBudget, Write, Clear, WithBudget, BudgetOf, Becomes, Seen, View
<1>4. QED
  BY <1>1, <1>2, <1>3

LEMMA WriteLimitsDoes ==
  ASSUME NEW c \in Clients, Clear(c), WriteLimits(c)
  PROVE  /\ tx[c].at = "limits"
         /\ \E k \in DOMAIN tx[c].got :
               /\ Free(c, {Budget(tx[c].period, k)})
               /\ Becomes(c, WithBudget(db, tx[c], k, "limit", tx[c].got[k].limit))
BY WriteBudgetDoes DEF WriteLimits, At

LEMMA GroupSpentDoes ==
  ASSUME NEW c \in Clients, Clear(c), GroupSpent(c)
  PROVE  LET q == tx[c]
         IN  /\ q.at = "group" \/ (q.at = "limits" /\ DOMAIN q.got = {})
             /\ Becomes(c, Grouped(q, [k \in Categories |->
                                          TotalOf(View(db, q), q.period, Spending, k)]))
BY DEF GroupSpent, At, Read, Clear, Grouped, Becomes, Seen, View

LEMMA WriteSpentDoes ==
  ASSUME NEW c \in Clients, Clear(c), WriteSpent(c)
  PROVE  /\ tx[c].at \in {"spent", "unspent"}
         /\ \E k \in DOMAIN tx[c].got :
               /\ Free(c, {Budget(tx[c].period, k)})
               /\ Becomes(c, WithBudget(db, tx[c], k, "spent", tx[c].got[k]))
BY WriteBudgetDoes DEF WriteSpent

LEMMA FindUnspentDoes ==
  ASSUME NEW c \in Clients, Clear(c), FindUnspent(c)
  PROVE  LET q == tx[c]
             left == {k \in DOMAIN q.got : Exists(View(db, q), Budget(q.period, k))}
         IN  /\ q.at = "spent" /\ \A k \in DOMAIN q.got : ~ (q.got[k] > 0)
             /\ Becomes(c, Found(q, [k \in left |-> 0]))
<1>1. tx[c].at = "spent" /\ \A k \in DOMAIN tx[c].got : ~ (tx[c].got[k] > 0)
  BY DEF FindUnspent, NextBudgets, At
<1>2. QED
  BY <1>1 DEF FindUnspent, Unspent, Read, Clear, Found, Becomes, Seen, View

LEMMA EndPeriodDoes ==
  ASSUME NEW c \in Clients, Clear(c), EndPeriod(c)
  PROVE  /\ tx[c].at = "unspent" /\ DOMAIN tx[c].got = {}
         /\ Becomes(c, WentOn(tx[c]))
<1>1. tx[c].at = "unspent" /\ DOMAIN tx[c].got = {}
  BY DEF EndPeriod, NextBudgets, At
<1>2. QED
  BY <1>1 DEF EndPeriod, Read, Clear, WentOn, Becomes

LEMMA CreateOnceDoes ==
  ASSUME NEW c \in Clients, Clear(c), CreateOnce(c)
  PROVE  /\ tx[c].at = "alerts"
         /\ Becomes(c, Looked(tx[c], {t \in tx[c].due : alerts[t] = 0}))
BY DEF CreateOnce, At, Read, Clear, Looked, Becomes

-----------------------------------------------------------------------------
(* The fields of a transaction after each statement *)

\* r is q but for the fields named here.
Fieldwise(r, q, at, on, first, due, mine) ==
    /\ IsTx(r)
    /\ r.op = q.op /\ r.at = at /\ r.period = on /\ r.first = first
    /\ r.due = due /\ r.mine = mine

LEMMA WrittenFields ==
  ASSUME NEW q, IsTx(q)
  PROVE  Fieldwise(Written(q), q, IF q.op = "fixed" THEN "sources" ELSE "chain", q.period, q.first,
                   q.due, Over(Row(q.got.key, q.got.row), q.mine))
BY DEF Fieldwise, Written, IsTx, Fields

LEMMA ChainedFields ==
  ASSUME NEW q, IsTx(q), NEW start, NEW opening
  PROVE  /\ Fieldwise(Chained(q, start, opening), q, "sum", start,
                      IF q.op = "fixed" THEN Last ELSE start, q.due, q.mine)
         /\ Chained(q, start, opening).got = [opening |-> opening]
BY DEF Fieldwise, Chained, IsTx, Fields

LEMMA SummedFields ==
  ASSUME NEW q, IsTx(q), NEW ledger
  PROVE  /\ Fieldwise(Summed(q, ledger), q, "ledger", q.period, q.first, q.due, q.mine)
         /\ Summed(q, ledger).got = ledger
BY DEF Fieldwise, Summed, IsTx, Fields

LEMMA NextLedgerFields ==
  ASSUME NEW q, IsTx(q)
  PROVE  /\ Fieldwise(NextLedger(q), q, "sum", q.period + 1, q.first, q.due,
                      Over(Row(Ledger(q.period), q.got), q.mine))
         /\ NextLedger(q).got = [opening |-> q.got.closing]
BY DEF Fieldwise, NextLedger, WithLedger, IsTx, Fields

LEMMA LastLedgerFields ==
  ASSUME NEW q, IsTx(q)
  PROVE  Fieldwise(LastLedger(q), q, IF q.op = "ledgers" THEN "commit" ELSE "sources", q.first,
                   q.first, q.due, Over(Row(Ledger(q.period), q.got), q.mine))
BY DEF Fieldwise, LastLedger, WithLedger, IsTx, Fields

LEMMA BuiltFields ==
  ASSUME NEW q, IsTx(q)
  PROVE  Fieldwise(Built(q), q, "chain", q.period, q.first, q.due, q.mine)
BY DEF Fieldwise, Built, IsTx, Fields

LEMMA SourcedFields ==
  ASSUME NEW q, IsTx(q), NEW limits, NEW due
  PROVE  /\ Fieldwise(Sourced(q, limits, due), q, "limits", q.period, q.first, due, q.mine)
         /\ Sourced(q, limits, due).got = limits
BY DEF Fieldwise, Sourced, IsTx, Fields

\* What c read is left, but for k.
Without(r, q, k) ==
    DOMAIN r.got = DOMAIN q.got \ {k} /\ \A j \in DOMAIN r.got : r.got[j] = q.got[j]

LEMMA WithBudgetFields ==
  ASSUME NEW rows, NEW q, IsTx(q), NEW k, NEW field, NEW value,
         NEW new, new = BudgetOf(rows, q, k, field, value),
         NEW r, r = WithBudget(rows, q, k, field, value)
  PROVE  /\ Fieldwise(r, q, q.at, q.period, q.first, q.due, Over(new, q.mine))
         /\ Without(r, q, k)
BY DEF Fieldwise, Without, WithBudget, IsTx, Fields, Restrict

LEMMA GroupedFields ==
  ASSUME NEW q, IsTx(q), NEW groups
  PROVE  /\ Fieldwise(Grouped(q, groups), q, "spent", q.period, q.first, q.due, q.mine)
         /\ Grouped(q, groups).got = groups
BY DEF Fieldwise, Grouped, IsTx, Fields

LEMMA FoundFields ==
  ASSUME NEW q, IsTx(q), NEW left
  PROVE  /\ Fieldwise(Found(q, left), q, "unspent", q.period, q.first, q.due, q.mine)
         /\ Found(q, left).got = left
BY DEF Fieldwise, Found, IsTx, Fields

LEMMA PassedFields ==
  ASSUME NEW q, IsTx(q)
  PROVE  Fieldwise(WentOn(q), q,
                   IF q.op = "resetSpent" THEN "commit"
                   ELSE IF q.period < Last THEN "sources" ELSE "alerts",
                   IF q.op # "resetSpent" /\ q.period < Last THEN q.period + 1 ELSE q.period,
                   q.first, q.due, q.mine)
BY DEF Fieldwise, WentOn, IsTx, Fields

LEMMA LookedFields ==
  ASSUME NEW q, IsTx(q), NEW due
  PROVE  Fieldwise(Looked(q, due), q, "commit", q.period, q.first, due, q.mine)
BY DEF Fieldwise, Looked, IsTx, Fields

-----------------------------------------------------------------------------
(* What a transaction sees *)

Committed(rows) == DOMAIN rows = Keys /\ Typed(rows)

LEMMA ViewIsCommitted ==
  ASSUME NEW rows, Committed(rows), NEW q, Shape(q)
  PROVE  Committed(View(rows, q))
<1>1. Typed(View(rows, q))
  BY OverIsTyped DEF View, Committed, Shape
<1>2. DOMAIN View(rows, q) = DOMAIN q.mine \union DOMAIN rows
  BY OverReads DEF View
<1>3. QED
  BY <1>1, <1>2 DEF Committed, Shape

\* More rows written over those written already.
LEMMA OverTwice ==
  ASSUME NEW new, NEW mine, NEW rows
  PROVE  Over(Over(new, mine), rows) = Over(new, Over(mine, rows))
BY DEF Over

\* Spent amounts depend on the movements and the budgets of the period only.
LEMMA SpentOKIfSame ==
  ASSUME NEW a, NEW b, NEW p, SameMovements(a, b, p),
         \A k \in Categories : SpentOf(b, p, k) = SpentOf(a, p, k), SpentOK(a, p)
  PROVE  SpentOK(b, p)
BY TotalOfSame DEF SpentOK

\* Rows that are no movements, and budgets that say the same was spent.
LEMMA WritesKeepSpent ==
  ASSUME NEW rows, Committed(rows), NEW new, NEW p \in Periods,
         \A m \in MovementIds : Movement(m) \notin DOMAIN new,
         \A k \in Categories : Budget(p, k) \in DOMAIN new =>
            SpentOf(new, p, k) = SpentOf(rows, p, k),
         SpentOK(rows, p)
  PROVE  SpentOK(Over(new, rows), p)
<1>1. SameMovements(rows, Over(new, rows), p)
  BY TheKeys DEF SameMovements, Committed, Over
<1>2. \A k \in Categories : SpentOf(Over(new, rows), p, k) = SpentOf(rows, p, k)
  <2> TAKE k \in Categories
  <2>1. Budget(p, k) \in Keys
    BY TheKeys
  <2>2. CASE Budget(p, k) \in DOMAIN new
    BY <2>2 DEF SpentOf, Exists, Over
  <2>3. CASE Budget(p, k) \notin DOMAIN new
    BY <2>1, <2>3 DEF SpentOf, Exists, Committed, Over
  <2>4. QED
    BY <2>2, <2>3
<1>3. QED
  BY <1>1, <1>2, SpentOKIfSame

\* Before the first period a request reaches, it sees what is committed.
LEMMA SpentBefore ==
  ASSUME NEW rows, Committed(rows), NEW q, MovesOK(rows, q), NEW p \in Periods,
         p < q.first \/ \A m \in MovementIds : Movement(m) \notin DOMAIN q.mine,
         \A k \in Categories : Budget(p, k) \notin DOMAIN q.mine,
         SpentOK(rows, p)
  PROVE  SpentOK(View(rows, q), p)
<1> DEFINE view == View(rows, q)
<1>1. SameMovements(rows, view, p)
  <2> SUFFICES ASSUME NEW m \in MovementIds
               PROVE  \/ rows[Movement(m)] = view[Movement(m)]
                      \/ Elsewhere(rows, m, p) /\ Elsewhere(view, m, p)
    BY DEF SameMovements
  <2>1. CASE Movement(m) \in DOMAIN q.mine
    <3>1. Elsewhere(rows, m, p) /\ Elsewhere(q.mine, m, p)
      BY <2>1 DEF MovesOK
    <3>2. view[Movement(m)] = q.mine[Movement(m)]
      BY <2>1 DEF View, Over
    <3>3. QED
      BY <3>1, <3>2 DEF Elsewhere, Exists
  <2>2. CASE Movement(m) \notin DOMAIN q.mine
    BY <2>2, TheKeys DEF View, Committed, Over
  <2>3. QED
    BY <2>1, <2>2
<1>2. \A k \in Categories : SpentOf(view, p, k) = SpentOf(rows, p, k)
  <2> TAKE k \in Categories
  <2>1. Budget(p, k) \in DOMAIN rows /\ Budget(p, k) \notin DOMAIN q.mine
    BY TheKeys DEF Committed
  <2>2. view[Budget(p, k)] = rows[Budget(p, k)]
    BY <2>1 DEF View, Over
  <2>3. QED
    BY <2>2 DEF SpentOf, Exists
<1>3. QED
  BY <1>1, <1>2, SpentOKIfSame

-----------------------------------------------------------------------------
(* The limits are numbers *)

LEMMA TotalIsNat ==
  ASSUME NEW rows, Committed(rows), NEW p, NEW kinds
  PROVE  Total(rows, MovementsOf(rows, p, kinds)) \in Nat
<1> DEFINE of == MovementsOf(rows, p, kinds)
           table == [m \in of |-> rows[Movement(m)].amount]
<1>1. of \in SUBSET MovementIds
  BY DEF MovementsOf
<1>2. IsFiniteSet(of)
  BY <1>1, BudgetIdsAssumption, FS_Subset
<1>3. \A m \in of : table[m] \in Nat
  BY TheKeys, AmountsAssumption DEF MovementsOf, Exists, Typed, NewMovement, Committed
<1>4. Total(rows, of) = SumFunctionOnSet(table, of)
  BY SumOfTable DEF Total
<1>5. QED
  BY <1>2, <1>3, <1>4, SumIsNat

LEMMA NewLedgerIsRow ==
  ASSUME NEW rows, Committed(rows), NEW p, NEW opening \in Int
  PROVE  NewLedger(rows, p, opening) \in LedgerRow
<1>1. /\ Total(rows, MovementsOf(rows, p, {"income"})) \in Nat
      /\ Total(rows, MovementsOf(rows, p, Spending \union {"saving"})) \in Nat
  BY TotalIsNat
<1>2. QED
  BY <1>1 DEF NewLedger, LedgerRow

LEMMA FixedAmountIsNat ==
  ASSUME NEW rows, Committed(rows), NEW k
  PROVE  FixedAmount(rows, k) \in Nat
<1> DEFINE of == FixedOf(rows, k)
           table == [f \in of |-> rows[Fixed(f)].amount]
<1>1. of \in SUBSET FixedIds
  BY DEF FixedOf
<1>2. IsFiniteSet(of)
  BY <1>1, BudgetIdsAssumption, FS_Subset
<1>3. \A f \in of : table[f] \in Nat
  BY TheKeys, AmountsAssumption DEF FixedOf, Exists, Typed, NewFixed, Committed
<1>4. FixedAmount(rows, k) = SumFunctionOnSet(table, of)
  BY SumOfTable DEF FixedAmount
<1>5. QED
  BY <1>2, <1>3, <1>4, SumIsNat

LEMMA CommitmentsAreNat ==
  ASSUME NEW rows, Committed(rows), NEW p
  PROVE  FixedCommitments(rows) \in Nat /\ InstallmentCommitments(rows, p) \in Nat
<1> DEFINE fixed == [k \in Categories |-> FixedAmount(rows, k)]
           charged == [k \in Categories |-> TotalOf(rows, p, Charging, k)]
<1>1. \A k \in Categories : fixed[k] \in Nat
  BY FixedAmountIsNat
<1>2. \A k \in Categories : charged[k] \in Nat
  BY TotalOfIsNat DEF Committed
<1>3. FixedCommitments(rows) = SumFunctionOnSet(fixed, Categories)
  BY SumOfTable DEF FixedCommitments
<1>4. InstallmentCommitments(rows, p) = SumFunctionOnSet(charged, Categories)
  BY SumOfTable DEF InstallmentCommitments
<1>5. QED
  BY <1>1, <1>2, <1>3, <1>4, SumIsNat, BudgetIdsAssumption

LEMMA BudgetBaseIsInt ==
  ASSUME NEW rows, Committed(rows), NEW p \in Periods, Exists(rows, Ledger(p))
  PROVE  BudgetBase(rows, p) \in Int /\ Distributable(rows, p) \in Nat
<1>1. FixedCommitments(rows) \in Nat /\ InstallmentCommitments(rows, p) \in Nat
  BY CommitmentsAreNat
<1>2. rows[Ledger(p)] \in LedgerRow
  BY TheKeys DEF Committed, Typed, Exists
<1>3. rows[Ledger(p)].opening \in Int /\ rows[Ledger(p)].income \in Int
  BY <1>2 DEF LedgerRow
<1>4. BudgetBase(rows, p) \in Int
  BY <1>1, <1>3 DEF BudgetBase
<1>5. QED
  BY <1>4 DEF Distributable

\* A percentage of an amount, in whole cents.
LEMMA PercentOfIsNat ==
  ASSUME NEW percentage \in Nat, NEW amount \in Nat
  PROVE  PercentOf(percentage, amount) \in Nat
<1>1. PICK n \in Nat : n = 2 * percentage * amount + 100
  OBVIOUS
<1>2. n \div 200 \in Nat
  OBVIOUS
<1>3. QED
  BY <1>1, <1>2 DEF PercentOf

LEMMA LimitIsNat ==
  ASSUME NEW rows, Committed(rows), NEW p \in Periods, Exists(rows, Ledger(p)), NEW k \in Categories
  PROVE  Limit(rows, p, k) \in Nat
<1>1. TotalOf(rows, p, Charging, k) \in Nat
  BY TotalOfIsNat DEF Committed
<1>2. FixedAmount(rows, k) \in Nat
  BY FixedAmountIsNat
<1>3. ASSUME Exists(rows, Rule(k))
      PROVE  PercentOf(rows[Rule(k)], Distributable(rows, p)) \in Nat
  <2>1. rows[Rule(k)] \in Percentages
    BY <1>3, TheKeys DEF Committed, Typed, Exists
  <2>2. \A percentage \in Percentages : percentage \in Nat
    BY PercentagesAssumption
  <2>3. Distributable(rows, p) \in Nat
    BY BudgetBaseIsInt
  <2>4. QED
    BY <2>1, <2>2, <2>3, PercentOfIsNat
<1>4. QED
  BY <1>1, <1>2, <1>3 DEF Limit

\* The base depends on the movements, the fixed expenses and the ledger only.
LEMMA BaseIfSame ==
  ASSUME NEW a, NEW b, NEW p, SameMovements(a, b, p),
         \A f \in FixedIds : b[Fixed(f)] = a[Fixed(f)],
         b[Ledger(p)] = a[Ledger(p)]
  PROVE  BudgetBase(b, p) = BudgetBase(a, p)
<1>1. \A k \in Categories : TotalOf(b, p, Charging, k) = TotalOf(a, p, Charging, k)
  BY TotalOfSame
<1>2. InstallmentCommitments(b, p) = InstallmentCommitments(a, p)
  BY <1>1 DEF InstallmentCommitments
<1>3. \A k \in Categories : FixedAmount(b, k) = FixedAmount(a, k)
  <2> TAKE k \in Categories
  <2>1. FixedOf(b, k) = FixedOf(a, k)
    BY DEF FixedOf, Exists
  <2>2. [f \in FixedOf(b, k) |-> b[Fixed(f)].amount] = [f \in FixedOf(a, k) |-> a[Fixed(f)].amount]
    BY <2>1 DEF FixedOf
  <2>3. QED
    BY <2>2 DEF FixedAmount
<1>4. FixedCommitments(b) = FixedCommitments(a)
  BY <1>3 DEF FixedCommitments
<1>5. QED
  BY <1>2, <1>4 DEF BudgetBase

-----------------------------------------------------------------------------
(* The statements before the limits *)

Settled(rows) == Committed(rows) /\ \A p \in Periods : SpentOK(rows, p)

LEMMA MovementRowIsTyped ==
  ASSUME NEW m \in MovementIds, NEW row \in NewMovement \union {Gone}
  PROVE  Typed(Row(Movement(m), row)) /\ DOMAIN Row(Movement(m), row) = {Movement(m)}
BY KeysApart DEF Typed, Row

LEMMA FixedRowIsTyped ==
  ASSUME NEW f \in FixedIds, NEW row \in NewFixed \union {Gone}
  PROVE  Typed(Row(Fixed(f), row)) /\ DOMAIN Row(Fixed(f), row) = {Fixed(f)}
BY KeysApart DEF Typed, Row

LEMMA LedgerRowIsTyped ==
  ASSUME NEW p \in Periods, NEW row \in LedgerRow
  PROVE  Typed(Row(Ledger(p), row)) /\ DOMAIN Row(Ledger(p), row) = {Ledger(p)}
BY KeysApart DEF Typed, Row

\* The first row of an edit or a removal.
LEMMA MovementWritten ==
  ASSUME NEW rows, Settled(rows), NEW created, NEW q, TxInv(rows, created, q),
         q.at = "write", q.op = "change"
  PROVE  TxInv(rows, created, Written(q))
<1> DEFINE r == Written(q)
<1>0. Shape(q) /\ GotOK(q) /\ OwnOK(q) /\ MovesOK(rows, q) /\ AlertsSoFar(rows, created, q)
  BY DEF TxInv
<1>1. PICK m \in MovementIds : q.got.key = Movement(m) /\ q.got.row \in NewMovement \union {Gone}
  BY <1>0 DEF GotOK
<1>2. PICK row : row = q.got.row
  OBVIOUS
<1>3. Fieldwise(r, q, "chain", q.period, q.first, q.due, Over(Row(Movement(m), row), q.mine))
  BY <1>0, <1>1, <1>2, WrittenFields DEF Shape
<1> HIDE DEF r
<1>4. /\ IsTx(r) /\ r.op = "change" /\ r.at = "chain" /\ r.period = q.period
      /\ r.first = q.first /\ r.due = q.due
  BY <1>3 DEF Fieldwise
<1>5. /\ DOMAIN r.mine = {Movement(m)} /\ r.mine[Movement(m)] = row /\ Typed(r.mine)
  <2>1. r.mine = Over(Row(Movement(m), row), q.mine)
    BY <1>3 DEF Fieldwise
  <2>2. Typed(Row(Movement(m), row)) /\ DOMAIN Row(Movement(m), row) = {Movement(m)}
    BY <1>1, <1>2, MovementRowIsTyped
  <2>3. DOMAIN q.mine = {} /\ Typed(q.mine)
    BY <1>0 DEF Shape
  <2>4. Typed(r.mine)
    BY <2>1, <2>2, <2>3, OverIsTyped
  <2>5. DOMAIN r.mine = {Movement(m)}
    BY <2>1, <2>2, <2>3 DEF Over
  <2>6. r.mine[Movement(m)] = Row(Movement(m), row)[Movement(m)]
    BY <2>1, <2>2 DEF Over
  <2>7. QED
    BY <2>4, <2>5, <2>6 DEF Row
<1>6. Shape(r)
  <2>1. DOMAIN r.mine \subseteq Keys
    BY <1>5, TheKeys
  <2>2. q.period \in Periods /\ q.first \in Periods /\ q.due \in SUBSET AlertTypes
    BY <1>0 DEF Shape
  <2>3. q.first <= q.period /\ q.period = q.first
    BY <1>0 DEF Shape
  <2>4. QED
    BY <2>1, <2>2, <2>3, <1>4, <1>5 DEF Shape, Cascading, Early
<1>7. GotOK(r)
  BY <1>4 DEF GotOK
<1>8. OwnOK(r)
  BY <1>4, <1>5, KeysApart DEF OwnOK, Cascading, Budgets, Closing
<1>9. MovesOK(rows, r)
  <2>1. /\ Exists(rows, Movement(m)) /\ rows[Movement(m)].period >= q.first
        /\ row # Gone => row.period >= q.first
    BY <1>0, <1>1, <1>2 DEF MovesOK
  <2>2. rows[Movement(m)] \in NewMovement
    BY <2>1, TheKeys DEF Settled, Committed, Typed, Exists
  <2>3. rows[Movement(m)].period \in Int /\ q.first \in Int
    BY <2>2, <1>0, LastAssumption DEF NewMovement, Periods, Shape
  <2>4. row # Gone => row.period \in Int
    BY <1>1, <1>2, LastAssumption DEF NewMovement, Periods
  <2>5. \A p \in Periods : p < q.first => Elsewhere(rows, m, p) /\ Elsewhere(r.mine, m, p)
    BY <2>1, <2>3, <2>4, <1>5, LastAssumption DEF Elsewhere, Exists, Periods
  <2>6. QED
    BY <2>5, <1>4, <1>5, KeysApart DEF MovesOK
<1>10. SpentSoFar(rows, r)
  BY <1>4 DEF SpentSoFar, Budgets, Closing
<1>11. AlertsSoFar(rows, created, r)
  BY <1>0, <1>4 DEF AlertsSoFar, DueIsKnown, Reaching
<1>12. QED
  BY <1>6, <1>7, <1>8, <1>9, <1>10, <1>11 DEF TxInv, r

\* The first row of a change of a fixed expense.
LEMMA FixedWritten ==
  ASSUME NEW rows, Settled(rows), NEW created, NEW q, TxInv(rows, created, q),
         q.at = "write", q.op = "fixed"
  PROVE  TxInv(rows, created, Written(q))
<1> DEFINE r == Written(q)
<1>0. Shape(q) /\ GotOK(q) /\ OwnOK(q) /\ MovesOK(rows, q) /\ AlertsSoFar(rows, created, q)
  BY DEF TxInv
<1>1. PICK f \in FixedIds : q.got.key = Fixed(f) /\ q.got.row \in NewFixed \union {Gone}
  BY <1>0 DEF GotOK
<1>2. PICK row : row = q.got.row
  OBVIOUS
<1>3. Fieldwise(r, q, "sources", q.period, q.first, q.due, Over(Row(Fixed(f), row), q.mine))
  BY <1>0, <1>1, <1>2, WrittenFields DEF Shape
<1> HIDE DEF r
<1>4. /\ IsTx(r) /\ r.op = "fixed" /\ r.at = "sources" /\ r.period = q.period
      /\ r.first = q.first /\ r.due = q.due
  BY <1>3 DEF Fieldwise
<1>5. /\ DOMAIN r.mine = {Fixed(f)} /\ Typed(r.mine)
  <2>1. r.mine = Over(Row(Fixed(f), row), q.mine)
    BY <1>3 DEF Fieldwise
  <2>2. Typed(Row(Fixed(f), row)) /\ DOMAIN Row(Fixed(f), row) = {Fixed(f)}
    BY <1>1, <1>2, FixedRowIsTyped
  <2>3. DOMAIN q.mine = {} /\ Typed(q.mine)
    BY <1>0 DEF Shape
  <2>4. Typed(r.mine)
    BY <2>1, <2>2, <2>3, OverIsTyped
  <2>5. DOMAIN r.mine = {Fixed(f)}
    BY <2>1, <2>2, <2>3 DEF Over
  <2>6. QED
    BY <2>4, <2>5
<1>6. Shape(r)
  <2>1. DOMAIN r.mine \subseteq Keys
    BY <1>5, TheKeys
  <2>2. q.period \in Periods /\ q.first \in Periods /\ q.due \in SUBSET AlertTypes
    BY <1>0 DEF Shape
  <2>3. q.first = Last /\ q.period = Last
    BY <1>0 DEF Shape
  <2>4. QED
    BY <2>1, <2>2, <2>3, <1>4, <1>5 DEF Shape, Budgets
<1>7. GotOK(r)
  BY <1>4 DEF GotOK
<1>8. OwnOK(r)
  BY <1>4, <1>5, KeysApart DEF OwnOK, Cascading, Budgets, Closing
<1>9. MovesOK(rows, r)
  BY <1>4, <1>5, KeysApart DEF MovesOK
<1>10. SpentSoFar(rows, r)
  <2>1. \A p \in Periods : SpentOK(View(rows, r), p)
    <3> TAKE p \in Periods
    <3>1. /\ \A m \in MovementIds : Movement(m) \notin DOMAIN r.mine
          /\ \A k \in Categories : Budget(p, k) \notin DOMAIN r.mine
      BY <1>5, KeysApart
    <3>2. QED
      BY <1>9, <3>1, SpentBefore DEF Settled
  <2>2. QED
    BY <2>1, <1>4 DEF SpentSoFar, Closing
<1>11. AlertsSoFar(rows, created, r)
  BY <1>0, <1>4 DEF AlertsSoFar, DueIsKnown, Reaching
<1>12. QED
  BY <1>6, <1>7, <1>8, <1>9, <1>10, <1>11 DEF TxInv, r

\* The greatest of some periods up to one.
LEMMA MaxOfPeriods ==
  ASSUME NEW last \in Periods, NEW S \in SUBSET (1 .. last), 1 \in S
  PROVE  Max(S) \in S
<1> DEFINE Gaps == {last - n : n \in S}
<1>1. last \in Nat /\ last >= 1
  BY LastAssumption DEF Periods
<1>2. Gaps \in SUBSET Nat /\ last - 1 \in Gaps
  BY <1>1
<1>3. PICK g \in Gaps : \A h \in Gaps : ~ (<<h, g>> \in OpToRel(<, Nat))
  BY <1>2, NatLessThanWellFounded, WFMin
<1>4. \A h \in Gaps : g <= h
  <2>1. \A h \in Gaps : ~ (h < g)
    BY <1>2, <1>3 DEF OpToRel
  <2>2. QED
    BY <1>2, <2>1
<1>5. PICK m \in S : g = last - m
  OBVIOUS
<1>6. \A n \in S : m >= n
  BY <1>1, <1>4, <1>5
<1>7. QED
  BY <1>6 DEF Max

\* The cascade starts at the request's period or before, after a ledger or at 1.
LEMMA CascadeStart ==
  ASSUME NEW rows, Committed(rows), NEW last \in Periods,
         NEW start, start = Max({p \in 1 .. last : p = 1 \/ Exists(rows, Ledger(p - 1))})
  PROVE  /\ start \in Periods /\ start <= last
         /\ (IF start = 1 THEN 0 ELSE rows[Ledger(start - 1)].closing) \in Int
         /\ start # 1 => start - 1 \in Periods /\ Exists(rows, Ledger(start - 1))
<1> DEFINE S == {p \in 1 .. last : p = 1 \/ Exists(rows, Ledger(p - 1))}
<1>1. last \in Nat /\ last >= 1 /\ last <= Last /\ Last \in Nat
  BY LastAssumption DEF Periods
<1>2. S \in SUBSET (1 .. last) /\ 1 \in S
  BY <1>1
<1>3. start \in S
  BY <1>2, MaxOfPeriods
<1>4. start \in 1 .. last /\ (start = 1 \/ Exists(rows, Ledger(start - 1)))
  BY <1>3
<1>5. start \in Periods /\ start <= last
  BY <1>1, <1>4 DEF Periods
<1>6. ASSUME start # 1
      PROVE  /\ start - 1 \in Periods /\ Exists(rows, Ledger(start - 1))
             /\ rows[Ledger(start - 1)].closing \in Int
  <2>1. start - 1 \in Periods
    BY <1>1, <1>4, <1>6 DEF Periods
  <2>2. Exists(rows, Ledger(start - 1))
    BY <1>4, <1>6
  <2>3. rows[Ledger(start - 1)] \in LedgerRow
    BY <2>1, <2>2, TheKeys DEF Committed, Typed, Exists
  <2>4. QED
    BY <2>1, <2>2, <2>3 DEF LedgerRow
<1>7. QED
  BY <1>5, <1>6

LEMMA ChainRead ==
  ASSUME NEW rows, Settled(rows), NEW created, NEW q, TxInv(rows, created, q), q.at = "chain",
         NEW start \in Periods, start <= q.period, NEW opening \in Int
  PROVE  TxInv(rows, created, Chained(q, start, opening))
<1> DEFINE r == Chained(q, start, opening)
<1>0. Shape(q) /\ OwnOK(q) /\ MovesOK(rows, q) /\ AlertsSoFar(rows, created, q)
  BY DEF TxInv
<1>1. /\ Fieldwise(r, q, "sum", start, IF q.op = "fixed" THEN Last ELSE start, q.due, q.mine)
      /\ r.got = [opening |-> opening]
  BY <1>0, ChainedFields DEF Shape
<1> HIDE DEF r
<1>2. /\ IsTx(r) /\ r.op = q.op /\ r.at = "sum" /\ r.period = start
      /\ r.first = IF q.op = "fixed" THEN Last ELSE start
      /\ r.due = q.due /\ r.mine = q.mine
  BY <1>1 DEF Fieldwise
<1>3. Last \in Periods /\ Last \in Nat
  BY LastAssumption DEF Periods
<1>4. r.first \in Periods /\ q.first \in Periods /\ q.period \in Periods /\ r.first \in Int
      /\ q.first \in Int /\ q.period \in Int /\ start \in Int
  BY <1>0, <1>2, <1>3 DEF Shape, Periods
<1>5. Shape(r)
  <2>1. q.op # "resetSpent" /\ q.op \in Cascading \union {"fixed"}
    BY <1>0 DEF Shape
  <2>2. q.op # "fixed" => r.first <= r.period
    BY <1>2, <1>4
  <2>3. q.op = "fixed" => r.first = Last
    BY <1>2
  <2>4. Typed(r.mine) /\ DOMAIN r.mine \subseteq Keys /\ r.due \in SUBSET AlertTypes
    BY <1>0, <1>2 DEF Shape
  <2>5. QED
    BY <1>2, <1>4, <2>1, <2>2, <2>3, <2>4 DEF Shape, Early, Budgets, Closing
<1>6. GotOK(r)
  BY <1>1, <1>2 DEF GotOK
<1>7. r.first <= q.first
  BY <1>0, <1>2, <1>3, <1>4 DEF Shape
<1>8. OwnOK(r)
  <2>1. \A p \in Periods : p \in Int
    BY DEF Periods
  <2>2. \A p \in Periods, k \in Categories : Budget(p, k) \notin DOMAIN r.mine
    BY <1>0, <1>2 DEF OwnOK, Early
  <2>3. \A p \in Periods : Ledger(p) \in DOMAIN r.mine =>
          /\ r.op # "resetSpent"
          /\ r.op # "fixed" => p >= r.first
          /\ r.mine[Ledger(p)] \in LedgerRow
    BY <1>0, <1>2, <1>4, <1>7, <2>1 DEF OwnOK
  <2>4. r.op \in Cascading => r.first = r.period
    BY <1>2 DEF Cascading
  <2>5. ASSUME r.op \in Cascading, NEW p \in Periods, r.first <= p, p < r.period
        PROVE  FALSE
    <3>1. p \in Int /\ r.first \in Int /\ r.first = r.period
      BY <1>4, <2>1, <2>4, <2>5
    <3>2. QED
      BY <2>5, <3>1
  <2>6. QED
    BY <1>0, <1>2, <2>2, <2>3, <2>5 DEF OwnOK, Budgets, Closing
<1>9. MovesOK(rows, r)
  <2>1. \A p \in Periods : p < r.first => p < q.first
    BY <1>4, <1>7 DEF Periods
  <2>2. QED
    BY <1>0, <1>2, <2>1 DEF MovesOK
<1>10. SpentSoFar(rows, r)
  BY <1>2 DEF SpentSoFar, Budgets, Closing
<1>11. AlertsSoFar(rows, created, r)
  BY <1>0, <1>2 DEF AlertsSoFar, DueIsKnown
<1>12. QED
  BY <1>5, <1>6, <1>8, <1>9, <1>10, <1>11 DEF TxInv, r

LEMMA MovementsSummed ==
  ASSUME NEW rows, Settled(rows), NEW created, NEW q, TxInv(rows, created, q), q.at = "sum",
         NEW ledger \in LedgerRow
  PROVE  TxInv(rows, created, Summed(q, ledger))
<1> DEFINE r == Summed(q, ledger)
<1>0. Shape(q) /\ OwnOK(q) /\ MovesOK(rows, q) /\ AlertsSoFar(rows, created, q)
  BY DEF TxInv
<1>1. /\ Fieldwise(r, q, "ledger", q.period, q.first, q.due, q.mine)
      /\ r.got = ledger
  BY <1>0, SummedFields DEF Shape
<1> HIDE DEF r
<1>2. /\ IsTx(r) /\ r.op = q.op /\ r.at = "ledger" /\ r.period = q.period /\ r.first = q.first
      /\ r.due = q.due /\ r.mine = q.mine
  BY <1>1 DEF Fieldwise
<1>3. Shape(r)
  BY <1>0, <1>2 DEF Shape, Early, Budgets, Closing
<1>4. GotOK(r)
  BY <1>1, <1>2 DEF GotOK
<1>5. OwnOK(r)
  BY <1>0, <1>2 DEF OwnOK, Early, Budgets, Closing
<1>6. MovesOK(rows, r)
  BY <1>0, <1>2 DEF MovesOK
<1>7. SpentSoFar(rows, r)
  BY <1>2 DEF SpentSoFar, Budgets, Closing
<1>8. AlertsSoFar(rows, created, r)
  BY <1>0, <1>2 DEF AlertsSoFar, DueIsKnown
<1>9. QED
  BY <1>3, <1>4, <1>5, <1>6, <1>7, <1>8 DEF TxInv, r

\* What a written ledger adds to the rows of a request.
LEMMA LedgerAdded ==
  ASSUME NEW q, Shape(q), GotOK(q), OwnOK(q), q.at = "ledger",
         NEW mine, mine = Over(Row(Ledger(q.period), q.got), q.mine)
  PROVE  /\ DOMAIN mine = DOMAIN q.mine \union {Ledger(q.period)}
         /\ DOMAIN mine \subseteq Keys /\ Typed(mine)
         /\ mine[Ledger(q.period)] \in LedgerRow
         /\ \A key \in DOMAIN q.mine : key # Ledger(q.period) => mine[key] = q.mine[key]
<1>1. q.period \in Periods /\ q.got \in LedgerRow /\ Typed(q.mine) /\ DOMAIN q.mine \subseteq Keys
  BY DEF Shape, GotOK
<1>2. PICK new : new = Row(Ledger(q.period), q.got)
  OBVIOUS
<1>3. Typed(new) /\ DOMAIN new = {Ledger(q.period)}
  BY <1>1, <1>2, LedgerRowIsTyped
<1>4. new[Ledger(q.period)] = q.got
  BY <1>2 DEF Row
<1>5. Typed(mine)
  BY <1>1, <1>2, <1>3, OverIsTyped
<1>6. DOMAIN mine = DOMAIN q.mine \union {Ledger(q.period)}
  BY <1>2, <1>3 DEF Over
<1>7. mine[Ledger(q.period)] = q.got
  BY <1>2, <1>3, <1>4 DEF Over
<1>8. \A key \in DOMAIN q.mine : key # Ledger(q.period) => mine[key] = q.mine[key]
  BY <1>2, <1>3 DEF Over
<1>9. QED
  BY <1>1, <1>5, <1>6, <1>7, <1>8, TheKeys

\* The ledger of a period has been written.
LEMMA LedgerWritten ==
  ASSUME NEW rows, Settled(rows), NEW created, NEW q, TxInv(rows, created, q), q.at = "ledger",
         NEW r, \/ q.period < Last /\ r = NextLedger(q)
                \/ ~ (q.period < Last) /\ r = LastLedger(q)
  PROVE  TxInv(rows, created, r)
<1>0. Shape(q) /\ GotOK(q) /\ OwnOK(q) /\ MovesOK(rows, q) /\ AlertsSoFar(rows, created, q)
  BY DEF TxInv
<1>1. /\ r = NextLedger(q) => Fieldwise(r, q, "sum", q.period + 1, q.first, q.due,
                                        Over(Row(Ledger(q.period), q.got), q.mine))
                              /\ r.got = [opening |-> q.got.closing]
      /\ r = LastLedger(q) => Fieldwise(r, q, IF q.op = "ledgers" THEN "commit" ELSE "sources",
                                        q.first, q.first, q.due,
                                        Over(Row(Ledger(q.period), q.got), q.mine))
  BY <1>0, NextLedgerFields, LastLedgerFields DEF Shape
<1>2. /\ IsTx(r) /\ r.op = q.op /\ r.first = q.first /\ r.due = q.due
      /\ r.mine = Over(Row(Ledger(q.period), q.got), q.mine)
  BY <1>1 DEF Fieldwise
<1>3. \/ q.period < Last /\ r.at = "sum" /\ r.period = q.period + 1 /\ r.got.opening \in Int
      \/ /\ q.period = Last /\ r.period = q.first
         /\ r.at = IF q.op = "ledgers" THEN "commit" ELSE "sources"
  <2>1. q.got.closing \in Int
    BY <1>0 DEF GotOK, LedgerRow
  <2>2. q.period \in Int /\ q.period <= Last /\ Last \in Int
    BY <1>0, LastAssumption DEF Shape, Periods
  <2>3. CASE r = NextLedger(q)
    BY <1>1, <2>1, <2>3 DEF Fieldwise
  <2>4. CASE r = LastLedger(q)
    BY <1>1, <2>2, <2>4 DEF Fieldwise
  <2>5. QED
    BY <2>3, <2>4
<1>4. /\ DOMAIN r.mine = DOMAIN q.mine \union {Ledger(q.period)}
      /\ DOMAIN r.mine \subseteq Keys /\ Typed(r.mine)
      /\ r.mine[Ledger(q.period)] \in LedgerRow
      /\ \A key \in DOMAIN q.mine : key # Ledger(q.period) => r.mine[key] = q.mine[key]
  BY <1>0, <1>2, LedgerAdded
<1>5. /\ q.op \in Cascading \union {"fixed"}
      /\ q.period \in Periods /\ q.first \in Periods
      /\ q.op = "fixed" => q.first = Last
      /\ q.op # "fixed" => q.first <= q.period
      /\ q.due \in SUBSET AlertTypes
  BY <1>0 DEF Shape
<1>6. r.period \in Periods /\ (q.op # "fixed" => r.first <= r.period)
  BY <1>2, <1>3, <1>5, LastAssumption DEF Periods
<1>7. Shape(r)
  <2>1. q.op = "fixed" /\ r.at \in Budgets => r.period = Last
    BY <1>3, <1>5 DEF Budgets
  <2>2. QED
    BY <1>2, <1>3, <1>4, <1>5, <1>6, <2>1 DEF Shape, Early, Budgets, Closing, Cascading
<1>8. GotOK(r)
  BY <1>3 DEF GotOK
<1>9. \A m \in MovementIds : Movement(m) \in DOMAIN r.mine =>
        Movement(m) \in DOMAIN q.mine /\ r.mine[Movement(m)] = q.mine[Movement(m)]
  BY <1>4, KeysApart
<1>10. \A p \in Periods, k \in Categories : Budget(p, k) \notin DOMAIN r.mine
  BY <1>0, <1>4, KeysApart DEF OwnOK, Early
<1>11. OwnOK(r)
  <2>1. \A f \in FixedIds : Fixed(f) \in DOMAIN r.mine => r.op = "fixed"
    BY <1>0, <1>2, <1>4, KeysApart DEF OwnOK
  <2>2. \A m \in MovementIds : Movement(m) \in DOMAIN r.mine => r.op \in {"add", "change"}
    BY <1>0, <1>2, <1>9 DEF OwnOK
  <2>3. (\A k \in Categories : Rule(k) \notin DOMAIN r.mine)
        /\ Target \notin DOMAIN r.mine /\ Required \notin DOMAIN r.mine
    BY <1>0, <1>4, KeysApart DEF OwnOK
  <2>4. ASSUME NEW p \in Periods, Ledger(p) \in DOMAIN r.mine
        PROVE  /\ r.op # "resetSpent"
               /\ r.op # "fixed" => p >= r.first
               /\ r.mine[Ledger(p)] \in LedgerRow
    <3>1. CASE p = q.period
      BY <3>1, <1>2, <1>4, <1>5 DEF Cascading, Periods
    <3>2. CASE p # q.period
      <4>1. Ledger(p) \in DOMAIN q.mine /\ r.mine[Ledger(p)] = q.mine[Ledger(p)]
        BY <1>4, <2>4, <3>2, KeysApart
      <4>2. QED
        BY <1>0, <1>2, <4>1 DEF OwnOK
    <3>3. QED
      BY <3>1, <3>2
  <2>5. ASSUME r.op \in Cascading, r.at = "sum", NEW p \in Periods, r.first <= p, p < r.period
        PROVE  Ledger(p) \in DOMAIN r.mine
    <3>1. p = q.period \/ p < q.period
      BY <1>3, <1>5, <2>5 DEF Periods
    <3>2. p < q.period => Ledger(p) \in DOMAIN q.mine
      BY <1>0, <1>2, <2>5 DEF OwnOK
    <3>3. QED
      BY <1>4, <3>1, <3>2
  <2>6. ASSUME r.op \in Cascading, r.at \in {"sources", "commit"}, NEW p \in Periods, r.first <= p
        PROVE  Ledger(p) \in DOMAIN r.mine
    <3>1. p = q.period \/ p < q.period
      BY <1>3, <1>5, <2>6 DEF Periods
    <3>2. p < q.period => Ledger(p) \in DOMAIN q.mine
      BY <1>0, <1>2, <2>6 DEF OwnOK
    <3>3. QED
      BY <1>4, <3>1, <3>2
  <2>7. r.at \in {"sum", "sources", "commit"}
    BY <1>3
  <2>8. QED
    BY <1>10, <2>1, <2>2, <2>3, <2>4, <2>5, <2>6, <2>7 DEF OwnOK, Budgets, Closing
<1>12. MovesOK(rows, r)
  BY <1>0, <1>2, <1>3, <1>9 DEF MovesOK, Elsewhere, Exists
<1>13. SpentSoFar(rows, r)
  <2>1. ASSUME NEW p \in Periods, p < r.period \/ r.op = "ledgers", r.at # "sum"
        PROVE  SpentOK(View(rows, r), p)
    <3>1. p < r.first \/ \A m \in MovementIds : Movement(m) \notin DOMAIN r.mine
      BY <1>0, <1>2, <1>3, <1>9, <2>1 DEF OwnOK
    <3>2. QED
      BY <1>10, <1>12, <3>1, SpentBefore DEF Settled
  <2>2. QED
    BY <1>2, <1>3, <1>5, <2>1 DEF SpentSoFar, Budgets, Closing, Cascading
<1>14. AlertsSoFar(rows, created, r)
  BY <1>0, <1>2, <1>3 DEF AlertsSoFar, DueIsKnown, Reaching
<1>15. QED
  BY <1>7, <1>8, <1>11, <1>12, <1>13, <1>14 DEF TxInv

\* A ledger is missing: only a change of a fixed expense has not written it.
LEMMA LedgerMissing ==
  ASSUME NEW rows, Settled(rows), NEW created, NEW q, TxInv(rows, created, q), q.at = "sources",
         ~ Exists(View(rows, q), Ledger(q.period))
  PROVE  TxInv(rows, created, Built(q))
<1> DEFINE r == Built(q)
<1>0. Shape(q) /\ OwnOK(q) /\ MovesOK(rows, q) /\ AlertsSoFar(rows, created, q)
  BY DEF TxInv
<1>1. Fieldwise(r, q, "chain", q.period, q.first, q.due, q.mine)
  BY <1>0, BuiltFields DEF Shape
<1> HIDE DEF r
<1>2. /\ IsTx(r) /\ r.op = q.op /\ r.at = "chain" /\ r.period = q.period /\ r.first = q.first
      /\ r.due = q.due /\ r.mine = q.mine
  BY <1>1 DEF Fieldwise
<1>3. q.op = "fixed"
  <2>1. q.op \in Cascading \union {"fixed"} /\ q.period \in Periods
        /\ (q.op \in Cascading => q.first <= q.period)
    BY <1>0 DEF Shape, Cascading
  <2>2. ASSUME q.op \in Cascading
        PROVE  FALSE
    <3>1. Ledger(q.period) \in DOMAIN q.mine /\ q.mine[Ledger(q.period)] \in LedgerRow
      BY <1>0, <2>1, <2>2 DEF OwnOK, Budgets
    <3>2. View(rows, q)[Ledger(q.period)] = q.mine[Ledger(q.period)]
      BY <3>1 DEF View, Over
    <3>3. QED
      BY <3>1, <3>2, BudgetRowsAssumption DEF Exists
  <2>3. QED
    BY <2>1, <2>2
<1>4. Shape(r)
  BY <1>0, <1>2, <1>3 DEF Shape, Early, Budgets, Closing
<1>5. GotOK(r)
  BY <1>2 DEF GotOK
<1>6. OwnOK(r)
  BY <1>0, <1>2, <1>3 DEF OwnOK, Early, Budgets, Closing, Cascading
<1>7. MovesOK(rows, r)
  BY <1>0, <1>2 DEF MovesOK
<1>8. SpentSoFar(rows, r)
  BY <1>2 DEF SpentSoFar, Budgets, Closing
<1>9. AlertsSoFar(rows, created, r)
  BY <1>0, <1>2 DEF AlertsSoFar, DueIsKnown
<1>10. QED
  BY <1>4, <1>5, <1>6, <1>7, <1>8, <1>9 DEF TxInv, r

-----------------------------------------------------------------------------
(* The statements that recalculate limits and spent amounts *)

\* The sources of a period have been read.
LEMMA SourcesRead ==
  ASSUME NEW rows, Settled(rows), NEW created, NEW q, TxInv(rows, created, q), q.at = "sources",
         NEW limits, DOMAIN limits \subseteq Categories,
         \A k \in DOMAIN limits : limits[k].limit \in Int,
         NEW due, due = IF q.period = Last THEN Due(View(rows, q)) ELSE {}
  PROVE  TxInv(rows, created, Sourced(q, limits, due))
<1> DEFINE r == Sourced(q, limits, due)
<1>0. Shape(q) /\ OwnOK(q) /\ MovesOK(rows, q) /\ SpentSoFar(rows, q)
      /\ AlertsSoFar(rows, created, q)
  BY DEF TxInv
<1>1. Fieldwise(r, q, "limits", q.period, q.first, due, q.mine) /\ r.got = limits
  BY <1>0, SourcedFields DEF Shape
<1> HIDE DEF r
<1>2. /\ IsTx(r) /\ r.op = q.op /\ r.at = "limits" /\ r.period = q.period /\ r.first = q.first
      /\ r.due = due /\ r.mine = q.mine
  BY <1>1 DEF Fieldwise
<1>3. q.op \in Reaching
  BY <1>0 DEF Shape, Reaching, Cascading
<1>4. Shape(r)
  <2>1. due \in SUBSET AlertTypes
    BY DEF Due
  <2>2. QED
    BY <1>0, <1>2, <2>1 DEF Shape, Early, Budgets, Closing
<1>5. GotOK(r)
  BY <1>1, <1>2 DEF GotOK
<1>6. OwnOK(r)
  BY <1>0, <1>2 DEF OwnOK, Early, Budgets, Closing
<1>7. MovesOK(rows, r)
  BY <1>0, <1>2 DEF MovesOK
<1>8. View(rows, r) = View(rows, q)
  BY <1>2 DEF View
<1>9. SpentSoFar(rows, r)
  BY <1>0, <1>2, <1>8 DEF SpentSoFar, Budgets, Closing
<1>10. AlertsSoFar(rows, created, r)
  <2>1. q.period = Last /\ InDeficit(View(rows, q)) => "PERIOD_DEFICIT" \in due
    BY DEF Due, InDeficit, AlertTypes
  <2>2. QED
    BY <1>2, <1>3, <1>8, <2>1 DEF AlertsSoFar, DueIsKnown
<1>11. QED
  BY <1>4, <1>5, <1>6, <1>7, <1>9, <1>10 DEF TxInv, r

\* An upsert of one field of a budget: the other one keeps its value, or is 0.
LEMMA UpsertedBudget ==
  ASSUME NEW rows, Committed(rows), NEW p \in Periods, NEW k \in Categories,
         NEW field \in {"limit", "spent"}, NEW value \in Int,
         NEW row, row = Upserted(rows, Budget(p, k), NewBudget, field, value)
  PROVE  /\ row \in BudgetRow
         /\ row.spent = IF field = "spent" THEN value ELSE SpentOf(rows, p, k)
<1>1. NewBudget \in BudgetRow
  BY DEF NewBudget, BudgetRow
<1>2. CASE Exists(rows, Budget(p, k))
  <2>1. rows[Budget(p, k)] \in BudgetRow
    BY <1>2, TheKeys DEF Committed, Typed, Exists
  <2>2. QED
    BY <1>2, <2>1 DEF Upserted, SpentOf, BudgetRow
<1>3. CASE ~ Exists(rows, Budget(p, k))
  BY <1>1, <1>3 DEF Upserted, SpentOf, BudgetRow, NewBudget
<1>4. QED
  BY <1>2, <1>3

\* An upsert of one field of a budget: the limit.
LEMMA UpsertedLimit ==
  ASSUME NEW rows, Committed(rows), NEW p \in Periods, NEW k \in Categories,
         NEW field \in {"limit", "spent"}, NEW value \in Int,
         NEW row, row = Upserted(rows, Budget(p, k), NewBudget, field, value)
  PROVE  /\ field = "limit" => row.limit = value
         /\ field = "spent" /\ Exists(rows, Budget(p, k)) =>
               row.limit = rows[Budget(p, k)].limit
<1>1. CASE Exists(rows, Budget(p, k))
  <2>1. rows[Budget(p, k)] \in BudgetRow
    BY <1>1, TheKeys DEF Committed, Typed, Exists
  <2>2. QED
    BY <1>1, <2>1 DEF Upserted, BudgetRow
<1>2. CASE ~ Exists(rows, Budget(p, k))
  BY <1>2 DEF Upserted, BudgetRow, NewBudget
<1>3. QED
  BY <1>1, <1>2

\* Budgets of one period, written over what a request has written.
LEMMA BudgetsAreTyped ==
  ASSUME NEW q, Shape(q), NEW new, NEW of, of \subseteq Categories,
         DOMAIN new = {Budget(q.period, k) : k \in of},
         \A k \in of : new[Budget(q.period, k)] \in BudgetRow
  PROVE  Typed(Over(new, q.mine)) /\ DOMAIN Over(new, q.mine) \subseteq Keys
<1>1. q.period \in Periods /\ Typed(q.mine) /\ DOMAIN q.mine \subseteq Keys
  BY DEF Shape
<1>2. \A key \in DOMAIN new : \E k \in of : key = Budget(q.period, k) /\ new[key] \in BudgetRow
  OBVIOUS
<1>3. Typed(new)
  BY <1>2, KeysApart DEF Typed
<1>4. Typed(Over(new, q.mine))
  BY <1>1, <1>3, OverIsTyped
<1>5. DOMAIN new \subseteq Keys
  BY <1>1, <1>2, TheKeys
<1>6. QED
  BY <1>1, <1>4, <1>5 DEF Over

\* What a request knows of the rows it has written survives more budgets.
LEMMA BudgetsKeepOwn ==
  ASSUME NEW rows, NEW q, Shape(q), OwnOK(q), MovesOK(rows, q),
         q.at \in {"limits", "spent", "unspent"},
         NEW new, NEW of, of \subseteq Categories,
         DOMAIN new = {Budget(q.period, k) : k \in of},
         \A k \in of : new[Budget(q.period, k)] \in BudgetRow,
         NEW r, r.op = q.op, r.first = q.first, r.mine = Over(new, q.mine),
         r.at = q.at
  PROVE  OwnOK(r) /\ MovesOK(rows, r)
<1>1. /\ q.period \in Periods /\ q.first \in Periods /\ q.op # "ledgers"
      /\ q.op # "fixed" => q.first <= q.period
      /\ q.op = "fixed" => q.first = Last /\ q.period = Last
  BY DEF Shape, Budgets
<1>2. q.period >= q.first
  BY <1>1, LastAssumption DEF Periods
<1>3. /\ \A key \in DOMAIN r.mine :
            \/ key \in DOMAIN q.mine /\ r.mine[key] = q.mine[key]
            \/ \E k \in of : key = Budget(q.period, k) /\ r.mine[key] \in BudgetRow
      /\ DOMAIN q.mine \subseteq DOMAIN r.mine
  <2>1. \A key \in DOMAIN new : \E k \in of : key = Budget(q.period, k) /\ new[key] \in BudgetRow
    OBVIOUS
  <2>2. \A key \in DOMAIN r.mine :
          \/ key \in DOMAIN new /\ r.mine[key] = new[key]
          \/ key \in DOMAIN q.mine /\ r.mine[key] = q.mine[key]
    BY DEF Over
  <2>3. DOMAIN q.mine \subseteq DOMAIN r.mine
    BY DEF Over
  <2>4. QED
    BY <2>1, <2>2, <2>3
<1>4. \A m \in MovementIds : Movement(m) \in DOMAIN r.mine =>
        Movement(m) \in DOMAIN q.mine /\ r.mine[Movement(m)] = q.mine[Movement(m)]
  BY <1>3, KeysApart
<1>5. OwnOK(r)
  <2>1. \A m \in MovementIds : Movement(m) \in DOMAIN r.mine => r.op \in {"add", "change"}
    BY <1>4 DEF OwnOK
  <2>2. \A f \in FixedIds : Fixed(f) \in DOMAIN r.mine => r.op = "fixed"
    BY <1>3, KeysApart DEF OwnOK
  <2>3. (\A k \in Categories : Rule(k) \notin DOMAIN r.mine)
        /\ Target \notin DOMAIN r.mine /\ Required \notin DOMAIN r.mine
    BY <1>3, KeysApart DEF OwnOK
  <2>4. ASSUME NEW p \in Periods, NEW k \in Categories, Budget(p, k) \in DOMAIN r.mine
        PROVE  p >= r.first /\ r.mine[Budget(p, k)] \in BudgetRow
    <3>1. CASE Budget(p, k) \in DOMAIN q.mine /\ r.mine[Budget(p, k)] = q.mine[Budget(p, k)]
      BY <3>1 DEF OwnOK
    <3>2. CASE \E j \in of : /\ Budget(p, k) = Budget(q.period, j)
                             /\ r.mine[Budget(p, k)] \in BudgetRow
      BY <1>2, <3>2, KeysApart
    <3>3. QED
      BY <1>3, <2>4, <3>1, <3>2
  <2>5. ASSUME NEW p \in Periods, Ledger(p) \in DOMAIN r.mine
        PROVE  /\ r.op # "resetSpent"
               /\ r.op # "fixed" => p >= r.first
               /\ r.mine[Ledger(p)] \in LedgerRow
    <3>1. Ledger(p) \in DOMAIN q.mine /\ r.mine[Ledger(p)] = q.mine[Ledger(p)]
      BY <1>3, <2>5, KeysApart
    <3>2. QED
      BY <3>1 DEF OwnOK
  <2>6. r.op \in Cascading => \A p \in Periods : r.first <= p => Ledger(p) \in DOMAIN r.mine
    BY <1>3 DEF OwnOK, Budgets
  <2>7. QED
    BY <1>1, <2>1, <2>2, <2>3, <2>4, <2>5, <2>6 DEF OwnOK, Early
<1>6. MovesOK(rows, r)
  BY <1>4 DEF MovesOK, Elsewhere, Exists
<1>7. QED
  BY <1>5, <1>6

\* Whether the period is in deficit does not depend on budgets.
LEMMA BudgetsKeepDeficit ==
  ASSUME NEW rows, Committed(rows), NEW new,
         \A key \in DOMAIN new : \E p \in Periods, k \in Categories : key = Budget(p, k)
  PROVE  InDeficit(Over(new, rows)) <=> InDeficit(rows)
<1> DEFINE view == Over(new, rows)
<1>1. \A key \in Keys : key \notin DOMAIN new => view[key] = rows[key]
  BY DEF Over, Committed
<1>2. \A m \in MovementIds : view[Movement(m)] = rows[Movement(m)]
  BY <1>1, TheKeys, KeysApart
<1>3. \A f \in FixedIds : view[Fixed(f)] = rows[Fixed(f)]
  BY <1>1, TheKeys, KeysApart
<1>4. view[Ledger(Last)] = rows[Ledger(Last)]
  BY <1>1, TheKeys, KeysApart, LastAssumption DEF Periods
<1>5. SameMovements(rows, view, Last)
  BY <1>2 DEF SameMovements
<1>6. BudgetBase(view, Last) = BudgetBase(rows, Last)
  BY <1>3, <1>4, <1>5, BaseIfSame
<1>7. QED
  BY <1>6 DEF InDeficit

LEMMA BudgetExists ==
  ASSUME NEW rows, NEW key, rows[key] \in BudgetRow
  PROVE  Exists(rows, key)
BY BudgetRowsAssumption DEF Exists

\* What is written of a budget, and its value.
Writes(q, k, field, value) ==
    \/ q.at = "limits" /\ field = "limit" /\ value = q.got[k].limit
    \/ q.at \in {"spent", "unspent"} /\ field = "spent" /\ value = q.got[k]

LEMMA BudgetOfIs ==
  ASSUME NEW rows, Committed(rows), NEW q, Shape(q), GotOK(q), NEW k \in DOMAIN q.got,
         NEW field, NEW value, Writes(q, k, field, value),
         NEW new, new = BudgetOf(rows, q, k, field, value)
  PROVE  /\ k \in Categories /\ q.period \in Periods /\ DOMAIN new = {Budget(q.period, k)}
         /\ new[Budget(q.period, k)] \in BudgetRow
         /\ new[Budget(q.period, k)].spent = IF field = "spent" THEN value
                                            ELSE SpentOf(View(rows, q), q.period, k)
         /\ field = "limit" => new[Budget(q.period, k)].limit = value
         /\ field = "spent" /\ Exists(View(rows, q), Budget(q.period, k)) =>
               new[Budget(q.period, k)].limit = View(rows, q)[Budget(q.period, k)].limit
<1>1. k \in Categories /\ value \in Int /\ field \in {"limit", "spent"}
  BY DEF GotOK, Writes
<1>2. q.period \in Periods /\ Committed(View(rows, q))
  BY ViewIsCommitted DEF Shape
<1>3. /\ DOMAIN new = {Budget(q.period, k)}
      /\ new[Budget(q.period, k)]
         = Upserted(View(rows, q), Budget(q.period, k), NewBudget, field, value)
  BY DEF BudgetOf, Row
<1>4. QED
  BY <1>1, <1>2, <1>3, UpsertedBudget, UpsertedLimit

LEMMA BudgetWritten ==
  ASSUME NEW rows, Settled(rows), NEW created, NEW q, TxInv(rows, created, q),
         NEW k \in DOMAIN q.got, NEW field, NEW value, Writes(q, k, field, value)
  PROVE  TxInv(rows, created, WithBudget(rows, q, k, field, value))
<1>1. PICK r, new, view : /\ r = WithBudget(rows, q, k, field, value)
                          /\ new = BudgetOf(rows, q, k, field, value)
                          /\ view = View(rows, q)
  OBVIOUS
<1>2. Shape(q) /\ GotOK(q) /\ OwnOK(q) /\ MovesOK(rows, q) /\ SpentSoFar(rows, q)
      /\ AlertsSoFar(rows, created, q) /\ Committed(rows) /\ Committed(view)
  BY <1>1, ViewIsCommitted DEF TxInv, Settled
<1>3. /\ IsTx(r) /\ r.op = q.op /\ r.at = q.at /\ r.period = q.period /\ r.first = q.first
      /\ r.due = q.due /\ r.mine = Over(new, q.mine)
      /\ DOMAIN r.got = DOMAIN q.got \ {k} /\ \A j \in DOMAIN r.got : r.got[j] = q.got[j]
  <2>1. IsTx(q)
    BY <1>2 DEF Shape
  <2>2. /\ Fieldwise(r, q, q.at, q.period, q.first, q.due, Over(new, q.mine))
        /\ DOMAIN r.got = DOMAIN q.got \ {k} /\ \A j \in DOMAIN r.got : r.got[j] = q.got[j]
    <3>1. Fieldwise(r, q, q.at, q.period, q.first, q.due, Over(new, q.mine))
      BY <1>1, <2>1, WithBudgetFields, Zenon
    <3>2. Without(r, q, k)
      BY <1>1, <2>1, WithBudgetFields, Zenon
    <3>3. QED
      BY <3>1, <3>2 DEF Without
  <2>3. QED
    BY <2>2 DEF Fieldwise
<1>4. /\ k \in Categories /\ q.period \in Periods /\ DOMAIN new = {Budget(q.period, k)}
      /\ new[Budget(q.period, k)] \in BudgetRow
      /\ new[Budget(q.period, k)].spent = IF field = "spent" THEN value
                                         ELSE SpentOf(view, q.period, k)
  BY <1>1, <1>2, BudgetOfIs
<1>5. q.at \in {"limits", "spent", "unspent"}
  BY DEF Writes
<1>6. DOMAIN new = {Budget(q.period, j) : j \in {k}} /\ {k} \subseteq Categories
      /\ \A j \in {k} : new[Budget(q.period, j)] \in BudgetRow
  BY <1>4
<1>7. Shape(r)
  <2>1. Typed(r.mine) /\ DOMAIN r.mine \subseteq Keys
    BY <1>2, <1>3, <1>6, BudgetsAreTyped
  <2>2. QED
    BY <1>2, <1>3, <1>5, <2>1 DEF Shape, Early, Budgets, Closing
<1>8. GotOK(r)
  BY <1>2, <1>3, <1>5 DEF GotOK
<1>9. OwnOK(r) /\ MovesOK(rows, r)
  BY <1>2, <1>3, <1>5, <1>6, BudgetsKeepOwn
<1>10. View(rows, r) = Over(new, view)
  BY <1>1, <1>3, OverTwice DEF View
<1>11. \A m \in MovementIds : Movement(m) \notin DOMAIN new
  BY <1>4, KeysApart
<1>12. ASSUME NEW p \in Periods, p # q.period, SpentOK(view, p)
       PROVE  SpentOK(View(rows, r), p)
  <2>1. \A j \in Categories : Budget(p, j) \notin DOMAIN new
    BY <1>4, <1>12, KeysApart
  <2>2. QED
    BY <1>2, <1>10, <1>11, <1>12, <2>1, WritesKeepSpent
<1>13. \A p \in Periods : p < q.period \/ (q.op = "resetSpent" /\ p > q.period)
                          => SpentOK(View(rows, r), p)
  <2>1. \A p \in Periods : p < q.period \/ (q.op = "resetSpent" /\ p > q.period) => SpentOK(view, p)
    BY <1>1, <1>2, <1>5 DEF SpentSoFar, Budgets
  <2>2. \A p \in Periods : p \in Int
    BY DEF Periods
  <2>3. QED
    BY <1>4, <1>12, <2>1, <2>2
<1>14. ASSUME q.at \in {"spent", "unspent"}, NEW j \in Categories
       PROVE  TotalOf(View(rows, r), q.period, Spending, j)
              = IF j \in DOMAIN r.got THEN r.got[j] ELSE SpentOf(View(rows, r), q.period, j)
  <2>1. SameMovements(view, View(rows, r), q.period)
    BY <1>2, <1>10, <1>11, TheKeys DEF SameMovements, Committed, Over
  <2>2. TotalOf(View(rows, r), q.period, Spending, j)
        = IF j \in DOMAIN q.got THEN q.got[j] ELSE SpentOf(view, q.period, j)
    BY <1>1, <1>2, <1>14, <2>1, TotalOfSame DEF SpentSoFar
  <2>3. CASE j = k
    <3>1. value = q.got[k] /\ field = "spent"
      BY <1>14 DEF Writes
    <3>2. View(rows, r)[Budget(q.period, k)] = new[Budget(q.period, k)]
      BY <1>4, <1>10 DEF Over
    <3>3. Exists(View(rows, r), Budget(q.period, k))
      BY <1>4, <3>2, BudgetExists
    <3>4. SpentOf(View(rows, r), q.period, k) = q.got[k]
      BY <1>4, <3>1, <3>2, <3>3 DEF SpentOf
    <3>5. QED
      BY <1>3, <2>2, <2>3, <3>4
  <2>4. CASE j # k
    <3>1. Budget(q.period, j) \notin DOMAIN new
      BY <1>4, <2>4, KeysApart
    <3>2. View(rows, r)[Budget(q.period, j)] = view[Budget(q.period, j)]
      BY <1>2, <1>4, <1>10, <3>1, TheKeys DEF Over, Committed
    <3>3. SpentOf(View(rows, r), q.period, j) = SpentOf(view, q.period, j)
      BY <3>2 DEF SpentOf, Exists
    <3>4. QED
      BY <1>3, <2>2, <2>4, <3>3
  <2>5. QED
    BY <2>3, <2>4
<1>15. SpentSoFar(rows, r)
  BY <1>3, <1>5, <1>13, <1>14 DEF SpentSoFar, Closing
<1>16. AlertsSoFar(rows, created, r)
  <2>1. \A key \in DOMAIN new : \E p \in Periods, j \in Categories : key = Budget(p, j)
    BY <1>4
  <2>2. InDeficit(View(rows, r)) <=> InDeficit(view)
    BY <1>2, <1>10, <2>1, BudgetsKeepDeficit
  <2>3. QED
    BY <1>1, <1>2, <1>3, <1>5, <2>2 DEF AlertsSoFar, DueIsKnown
<1>17. QED
  BY <1>1, <1>7, <1>8, <1>9, <1>15, <1>16 DEF TxInv

\* What was spent on each category of the period has been read.
LEMMA SpentGrouped ==
  ASSUME NEW rows, Settled(rows), NEW created, NEW q, TxInv(rows, created, q),
         q.at \in {"group", "limits"},
         NEW groups, DOMAIN groups = Categories,
         \A k \in Categories : /\ groups[k] \in Nat
                               /\ groups[k] = TotalOf(View(rows, q), q.period, Spending, k)
  PROVE  TxInv(rows, created, Grouped(q, groups))
<1> DEFINE r == Grouped(q, groups)
<1>0. Shape(q) /\ OwnOK(q) /\ MovesOK(rows, q) /\ SpentSoFar(rows, q)
      /\ AlertsSoFar(rows, created, q)
  BY DEF TxInv
<1>1. Fieldwise(r, q, "spent", q.period, q.first, q.due, q.mine) /\ r.got = groups
  BY <1>0, GroupedFields DEF Shape
<1> HIDE DEF r
<1>2. /\ IsTx(r) /\ r.op = q.op /\ r.at = "spent" /\ r.period = q.period /\ r.first = q.first
      /\ r.due = q.due /\ r.mine = q.mine
  BY <1>1 DEF Fieldwise
<1>3. Shape(r)
  BY <1>0, <1>2 DEF Shape, Early, Budgets, Closing
<1>4. GotOK(r)
  BY <1>1, <1>2 DEF GotOK
<1>5. OwnOK(r)
  BY <1>0, <1>2 DEF OwnOK, Early, Budgets, Closing
<1>6. MovesOK(rows, r)
  BY <1>0, <1>2 DEF MovesOK
<1>7. View(rows, r) = View(rows, q)
  BY <1>2 DEF View
<1>8. SpentSoFar(rows, r)
  BY <1>0, <1>1, <1>2, <1>7 DEF SpentSoFar, Budgets, Closing
<1>9. AlertsSoFar(rows, created, r)
  BY <1>0, <1>2, <1>7 DEF AlertsSoFar, DueIsKnown
<1>10. QED
  BY <1>3, <1>4, <1>5, <1>6, <1>8, <1>9 DEF TxInv, r

\* Of the categories without expenses, those with a budget have been found.
LEMMA UnspentFound ==
  ASSUME NEW rows, Settled(rows), NEW created, NEW q, TxInv(rows, created, q), q.at = "spent",
         \A k \in DOMAIN q.got : ~ (q.got[k] > 0),
         NEW left, left = [k \in {k \in DOMAIN q.got : Exists(View(rows, q), Budget(q.period, k))}
                             |-> 0]
  PROVE  TxInv(rows, created, Found(q, left))
<1> DEFINE r == Found(q, left)
<1>0. Shape(q) /\ GotOK(q) /\ OwnOK(q) /\ MovesOK(rows, q) /\ SpentSoFar(rows, q)
      /\ AlertsSoFar(rows, created, q)
  BY DEF TxInv
<1>1. Fieldwise(r, q, "unspent", q.period, q.first, q.due, q.mine) /\ r.got = left
  BY <1>0, FoundFields DEF Shape
<1> HIDE DEF r
<1>2. /\ IsTx(r) /\ r.op = q.op /\ r.at = "unspent" /\ r.period = q.period /\ r.first = q.first
      /\ r.due = q.due /\ r.mine = q.mine
  BY <1>1 DEF Fieldwise
<1>3. DOMAIN q.got \subseteq Categories /\ \A k \in DOMAIN q.got : q.got[k] = 0
  BY <1>0 DEF GotOK
<1>4. Shape(r)
  BY <1>0, <1>2 DEF Shape, Early, Budgets, Closing
<1>5. GotOK(r)
  BY <1>1, <1>2, <1>3 DEF GotOK
<1>6. OwnOK(r)
  BY <1>0, <1>2 DEF OwnOK, Early, Budgets, Closing
<1>7. MovesOK(rows, r)
  BY <1>0, <1>2 DEF MovesOK
<1>8. View(rows, r) = View(rows, q)
  BY <1>2 DEF View
<1>9. SpentSoFar(rows, r)
  <2>1. ASSUME NEW k \in Categories
        PROVE  TotalOf(View(rows, q), q.period, Spending, k)
               = IF k \in DOMAIN left THEN left[k] ELSE SpentOf(View(rows, q), q.period, k)
    BY <1>0, <1>3 DEF SpentSoFar, SpentOf
  <2>2. QED
    BY <1>0, <1>1, <1>2, <1>8, <2>1 DEF SpentSoFar, Budgets, Closing
<1>10. AlertsSoFar(rows, created, r)
  BY <1>0, <1>2, <1>8 DEF AlertsSoFar, DueIsKnown
<1>11. QED
  BY <1>4, <1>5, <1>6, <1>7, <1>9, <1>10 DEF TxInv, r

\* Nothing is left of the budgets of the period.
LEMMA PeriodPassed ==
  ASSUME NEW rows, Settled(rows), NEW created, NEW q, TxInv(rows, created, q), q.at = "unspent",
         DOMAIN q.got = {}
  PROVE  TxInv(rows, created, WentOn(q))
<1> DEFINE r == WentOn(q)
<1>0. Shape(q) /\ OwnOK(q) /\ MovesOK(rows, q) /\ SpentSoFar(rows, q)
      /\ AlertsSoFar(rows, created, q)
  BY DEF TxInv
<1>1. Fieldwise(r, q, IF q.op = "resetSpent" THEN "commit"
                      ELSE IF q.period < Last THEN "sources" ELSE "alerts",
                IF q.op # "resetSpent" /\ q.period < Last THEN q.period + 1 ELSE q.period,
                q.first, q.due, q.mine)
  BY <1>0, PassedFields DEF Shape
<1> HIDE DEF r
<1>2. /\ IsTx(r) /\ r.op = q.op /\ r.first = q.first /\ r.due = q.due /\ r.mine = q.mine
      /\ r.at = IF q.op = "resetSpent" THEN "commit"
                ELSE IF q.period < Last THEN "sources" ELSE "alerts"
      /\ r.period = IF q.op # "resetSpent" /\ q.period < Last THEN q.period + 1 ELSE q.period
  BY <1>1 DEF Fieldwise
<1>3. /\ q.period \in Periods /\ q.first \in Periods /\ Last \in Nat
      /\ q.period \in 1 .. Last /\ q.first \in 1 .. Last
      /\ q.op \in Reaching \union {"resetSpent"}
      /\ q.op = "fixed" => q.first = Last /\ q.period = Last
      /\ q.op # "fixed" => q.first <= q.period
  BY <1>0, LastAssumption DEF Shape, Periods, Reaching, Cascading, Budgets
<1>4. Shape(r)
  <2>1. r.period \in Periods /\ (q.op # "fixed" => r.first <= r.period)
    BY <1>2, <1>3 DEF Periods
  <2>2. q.op = "fixed" => r.at = "alerts" /\ r.period = Last
    BY <1>2, <1>3
  <2>3. q.due \in SUBSET AlertTypes /\ Typed(q.mine) /\ DOMAIN q.mine \subseteq Keys
    BY <1>0 DEF Shape
  <2>4. r.at \in {"sources", "alerts", "commit"} /\ (q.op = "resetSpent" => r.at = "commit")
        /\ (q.op # "resetSpent" => r.at # "commit")
    BY <1>2
  <2>5. QED
    BY <1>2, <1>3, <2>1, <2>2, <2>3, <2>4 DEF Shape, Reaching, Cascading, Early, Budgets, Closing
<1>5. GotOK(r)
  BY <1>2 DEF GotOK
<1>6. OwnOK(r)
  <2>1. r.at \in {"sources", "alerts", "commit"} /\ (r.at = "sources" => q.op # "fixed")
    BY <1>2, <1>3
  <2>2. QED
    BY <1>0, <1>2, <2>1 DEF OwnOK, Early, Budgets, Closing
<1>7. MovesOK(rows, r)
  BY <1>0, <1>2 DEF MovesOK
<1>8. View(rows, r) = View(rows, q)
  BY <1>2 DEF View
<1>9. SpentOK(View(rows, q), q.period)
  BY <1>0 DEF SpentSoFar, SpentOK
<1>10. \A p \in Periods : p < q.period \/ (q.op = "resetSpent" /\ p > q.period)
                          => SpentOK(View(rows, q), p)
  BY <1>0 DEF SpentSoFar, Budgets
<1>11. SpentSoFar(rows, r)
  <2>1. CASE q.op # "resetSpent" /\ q.period < Last
    <3>1. \A p \in Periods : p < q.period + 1 => p < q.period \/ p = q.period
      BY <1>3 DEF Periods
    <3>2. QED
      BY <1>2, <1>3, <1>8, <1>9, <1>10, <2>1, <3>1 DEF SpentSoFar, Budgets, Closing
  <2>2. CASE q.op = "resetSpent" \/ ~ (q.period < Last)
    <3>1. \A p \in Periods : \/ p < q.period \/ p = q.period
                             \/ q.op = "resetSpent" /\ p > q.period
      BY <1>3, <2>2 DEF Periods
    <3>2. r.at \in {"alerts", "commit"}
      BY <1>2, <2>2
    <3>3. QED
      BY <1>8, <1>9, <1>10, <3>1, <3>2 DEF SpentSoFar, Budgets
  <2>3. QED
    BY <2>1, <2>2
<1>12. AlertsSoFar(rows, created, r)
  <2>1. q.op \notin Reaching => q.due = {}
    BY <1>0 DEF AlertsSoFar
  <2>2. CASE q.op = "resetSpent"
    BY <1>2, <2>1, <2>2 DEF AlertsSoFar, DueIsKnown, Reaching
  <2>3. CASE q.op # "resetSpent" /\ q.period < Last
    BY <1>2, <2>1, <2>3 DEF AlertsSoFar, DueIsKnown
  <2>4. CASE q.op # "resetSpent" /\ q.period = Last
    <3>1. DueIsKnown(q) /\ r.at = "alerts"
      BY <1>2, <1>3, <2>4 DEF DueIsKnown
    <3>2. QED
      BY <1>0, <1>2, <1>8, <2>1, <3>1 DEF AlertsSoFar
  <2>5. QED
    BY <1>3, <2>2, <2>3, <2>4
<1>13. QED
  BY <1>4, <1>5, <1>6, <1>7, <1>11, <1>12 DEF TxInv, r

\* The alerts that are there already have been looked for.
LEMMA AlertsLooked ==
  ASSUME NEW rows, Settled(rows), NEW created \in [AlertTypes -> 0 .. 1],
         NEW q, TxInv(rows, created, q), q.at = "alerts",
         NEW due, due = {t \in q.due : created[t] = 0}
  PROVE  TxInv(rows, created, Looked(q, due))
<1> DEFINE r == Looked(q, due)
<1>0. Shape(q) /\ OwnOK(q) /\ MovesOK(rows, q) /\ SpentSoFar(rows, q)
      /\ AlertsSoFar(rows, created, q)
  BY DEF TxInv
<1>1. Fieldwise(r, q, "commit", q.period, q.first, due, q.mine)
  BY <1>0, LookedFields DEF Shape
<1> HIDE DEF r
<1>2. /\ IsTx(r) /\ r.op = q.op /\ r.at = "commit" /\ r.period = q.period /\ r.first = q.first
      /\ r.due = due /\ r.mine = q.mine
  BY <1>1 DEF Fieldwise
<1>3. q.op \in Reaching
  BY <1>0 DEF Shape, Reaching, Cascading
<1>4. Shape(r)
  <2>1. due \in SUBSET AlertTypes
    BY <1>0 DEF Shape
  <2>2. QED
    BY <1>0, <1>2, <1>3, <2>1 DEF Shape, Early, Budgets, Closing, Reaching, Cascading
<1>5. GotOK(r)
  BY <1>2 DEF GotOK
<1>6. OwnOK(r)
  BY <1>0, <1>2 DEF OwnOK, Early, Budgets, Closing
<1>7. MovesOK(rows, r)
  BY <1>0, <1>2 DEF MovesOK
<1>8. View(rows, r) = View(rows, q)
  BY <1>2 DEF View
<1>9. SpentSoFar(rows, r)
  BY <1>0, <1>2, <1>8 DEF SpentSoFar, Budgets, Closing
<1>10. AlertsSoFar(rows, created, r)
  <2>1. created["PERIOD_DEFICIT"] \in 0 .. 1
    BY DEF AlertTypes
  <2>2. InDeficit(View(rows, q)) => "PERIOD_DEFICIT" \in q.due
    BY <1>0 DEF AlertsSoFar, DueIsKnown
  <2>3. InDeficit(View(rows, r)) => "PERIOD_DEFICIT" \in due \/ created["PERIOD_DEFICIT"] > 0
    BY <1>8, <2>1, <2>2
  <2>4. QED
    BY <1>2, <1>3, <2>3 DEF AlertsSoFar, DueIsKnown
<1>11. QED
  BY <1>4, <1>5, <1>6, <1>7, <1>9, <1>10 DEF TxInv, r

-----------------------------------------------------------------------------
(* Requests begin *)

BeginTx(op, at, p, got, mine) ==
    [op |-> op, at |-> at, period |-> p, first |-> p, got |-> got, due |-> {}, mine |-> mine]

LEMMA BeginFields ==
  ASSUME NEW op, NEW at, NEW p, NEW got, NEW mine,
         NEW r, r = BeginTx(op, at, p, got, mine)
  PROVE  /\ IsTx(r) /\ r.op = op /\ r.at = at /\ r.period = p /\ r.first = p
         /\ r.got = got /\ r.due = {} /\ r.mine = mine
BY DEF BeginTx, IsTx, Fields

LEMMA AddBegins ==
  ASSUME NEW rows, Settled(rows), NEW created, NEW m \in MovementIds, NEW row \in NewMovement,
         rows[Movement(m)] = NotCreated,
         NEW r, r = BeginTx("add", "chain", row.period, <<>>, Row(Movement(m), row))
  PROVE  TxInv(rows, created, r) /\ DOMAIN r.mine = {Movement(m)}
<1>1. /\ IsTx(r) /\ r.op = "add" /\ r.at = "chain" /\ r.period = row.period
      /\ r.first = row.period /\ r.due = {} /\ r.mine = Row(Movement(m), row)
  BY BeginFields
<1>2. /\ DOMAIN r.mine = {Movement(m)} /\ Typed(r.mine) /\ r.mine[Movement(m)] = row
  <2>1. DOMAIN r.mine = {Movement(m)} /\ Typed(r.mine)
    BY <1>1, MovementRowIsTyped
  <2>2. r.mine[Movement(m)] = row
    BY <1>1 DEF Row
  <2>3. QED
    BY <2>1, <2>2
<1>3. row.period \in Periods
  BY DEF NewMovement
<1>4. Shape(r)
  <2>1. DOMAIN r.mine \subseteq Keys
    BY <1>2, TheKeys
  <2>2. r.first <= r.period
    BY <1>1, <1>3 DEF Periods
  <2>3. QED
    BY <1>1, <1>2, <1>3, <2>1, <2>2 DEF Shape, Cascading, Early, Budgets, Closing
<1>5. GotOK(r)
  BY <1>1 DEF GotOK
<1>6. OwnOK(r)
  BY <1>1, <1>2, KeysApart DEF OwnOK, Budgets, Closing
<1>7. MovesOK(rows, r)
  <2>1. \A p \in Periods : p < r.first => Elsewhere(rows, m, p) /\ Elsewhere(r.mine, m, p)
    BY <1>1, <1>2, <1>3 DEF Elsewhere, Exists, Periods
  <2>2. QED
    BY <1>1, <1>2, <2>1, KeysApart DEF MovesOK
<1>8. SpentSoFar(rows, r)
  BY <1>1 DEF SpentSoFar, Budgets, Closing
<1>9. AlertsSoFar(rows, created, r)
  BY <1>1 DEF AlertsSoFar, DueIsKnown
<1>10. QED
  BY <1>2, <1>4, <1>5, <1>6, <1>7, <1>8, <1>9 DEF TxInv

LEMMA ChangeBegins ==
  ASSUME NEW rows, Settled(rows), NEW created, NEW m \in MovementIds,
         NEW row \in NewMovement \union {Gone}, Exists(rows, Movement(m)),
         NEW r, r = BeginTx("change", "write", Affected(rows[Movement(m)], row),
                            [key |-> Movement(m), row |-> row], NoRows)
  PROVE  TxInv(rows, created, r) /\ DOMAIN r.mine = {}
<1> DEFINE old == rows[Movement(m)]
<1>0. PICK from : from = Affected(old, row)
  OBVIOUS
<1>1. /\ IsTx(r) /\ r.op = "change" /\ r.at = "write" /\ r.period = from
      /\ r.first = from /\ r.due = {} /\ r.mine = NoRows
      /\ r.got = [key |-> Movement(m), row |-> row]
  BY <1>0, BeginFields
<1>2. DOMAIN r.mine = {} /\ Typed(r.mine)
  BY <1>1 DEF NoRows, Typed
<1>3. old \in NewMovement
  BY TheKeys DEF Settled, Committed, Typed, Exists
<1>4. /\ old.period \in Periods /\ old.period \in Int /\ Gone \notin NewMovement
      /\ row # Gone => row.period \in Periods /\ row.period \in Int
  BY <1>3, LastAssumption, BudgetRowsAssumption DEF NewMovement, Periods
<1>5. /\ from \in Periods /\ from <= old.period /\ (row # Gone => from <= row.period)
  BY <1>0, <1>4 DEF Affected
<1>6. from \in Int
  BY <1>5 DEF Periods
<1>7. Shape(r)
  <2>1. r.first <= r.period
    BY <1>1, <1>6
  <2>2. QED
    BY <1>1, <1>2, <1>5, <2>1 DEF Shape, Cascading, Early, Budgets, Closing
<1>8. GotOK(r)
  BY <1>1 DEF GotOK
<1>9. OwnOK(r)
  BY <1>1, <1>2 DEF OwnOK, Budgets, Closing
<1>10. MovesOK(rows, r)
  <2>1. old.period >= from /\ (row # Gone => row.period >= from)
    BY <1>4, <1>5, <1>6
  <2>2. QED
    BY <1>1, <1>2, <2>1 DEF MovesOK
<1>11. SpentSoFar(rows, r)
  BY <1>1 DEF SpentSoFar, Budgets, Closing
<1>12. AlertsSoFar(rows, created, r)
  BY <1>1 DEF AlertsSoFar, DueIsKnown
<1>13. QED
  BY <1>2, <1>7, <1>8, <1>9, <1>10, <1>11, <1>12 DEF TxInv

LEMMA RecalculateBegins ==
  ASSUME NEW rows, Settled(rows), NEW created, NEW p \in Periods,
         NEW op \in {"recalculate", "ledgers"},
         NEW r, r = BeginTx(op, "chain", p, <<>>, NoRows)
  PROVE  TxInv(rows, created, r) /\ DOMAIN r.mine = {}
<1>1. /\ IsTx(r) /\ r.op = op /\ r.at = "chain" /\ r.period = p
      /\ r.first = p /\ r.due = {} /\ r.mine = NoRows
  BY BeginFields
<1>2. DOMAIN r.mine = {} /\ Typed(r.mine)
  BY <1>1 DEF NoRows, Typed
<1>3. Shape(r)
  <2>1. r.first <= r.period
    BY <1>1 DEF Periods
  <2>2. QED
    BY <1>1, <1>2, <2>1 DEF Shape, Cascading, Early, Budgets, Closing
<1>4. GotOK(r)
  BY <1>1 DEF GotOK
<1>5. OwnOK(r)
  BY <1>1, <1>2 DEF OwnOK, Budgets, Closing
<1>6. MovesOK(rows, r)
  BY <1>1, <1>2 DEF MovesOK
<1>7. SpentSoFar(rows, r)
  BY <1>1 DEF SpentSoFar, Budgets, Closing
<1>8. AlertsSoFar(rows, created, r)
  BY <1>1 DEF AlertsSoFar, DueIsKnown
<1>9. QED
  BY <1>2, <1>3, <1>4, <1>5, <1>6, <1>7, <1>8 DEF TxInv

\* Of a request that has written nothing, all that is committed is seen.
LEMMA NothingWritten ==
  ASSUME NEW rows, Settled(rows), NEW q, DOMAIN q.mine = {}, MovesOK(rows, q)
  PROVE  \A p \in Periods : SpentOK(View(rows, q), p)
BY SpentBefore DEF Settled

LEMMA ResetBegins ==
  ASSUME NEW rows, Settled(rows), NEW created, NEW p \in Periods,
         NEW r, r = BeginTx("resetSpent", "group", p, <<>>, NoRows)
  PROVE  TxInv(rows, created, r) /\ DOMAIN r.mine = {}
<1>1. /\ IsTx(r) /\ r.op = "resetSpent" /\ r.at = "group" /\ r.period = p
      /\ r.first = p /\ r.due = {} /\ r.mine = NoRows
  BY BeginFields
<1>2. DOMAIN r.mine = {} /\ Typed(r.mine)
  BY <1>1 DEF NoRows, Typed
<1>3. Shape(r)
  <2>1. r.first <= r.period
    BY <1>1 DEF Periods
  <2>2. QED
    BY <1>1, <1>2, <2>1 DEF Shape, Cascading, Early, Budgets, Closing
<1>4. GotOK(r)
  BY <1>1 DEF GotOK
<1>5. OwnOK(r)
  BY <1>1, <1>2 DEF OwnOK, Budgets, Closing, Cascading
<1>6. MovesOK(rows, r)
  BY <1>1, <1>2 DEF MovesOK
<1>7. SpentSoFar(rows, r)
  <2>1. \A n \in Periods : SpentOK(View(rows, r), n)
    BY <1>2, <1>6, NothingWritten
  <2>2. QED
    BY <1>1, <2>1 DEF SpentSoFar, Closing
<1>8. AlertsSoFar(rows, created, r)
  BY <1>1 DEF AlertsSoFar, DueIsKnown, Reaching
<1>9. QED
  BY <1>2, <1>3, <1>4, <1>5, <1>6, <1>7, <1>8 DEF TxInv

LEMMA LastIsPeriod == Last \in Periods
BY LastAssumption DEF Periods

LEMMA AddFixedBegins ==
  ASSUME NEW rows, Settled(rows), NEW created, NEW f \in FixedIds, NEW row \in NewFixed,
         NEW r, r = BeginTx("fixed", "sources", Last, <<>>, Row(Fixed(f), row))
  PROVE  TxInv(rows, created, r) /\ DOMAIN r.mine = {Fixed(f)}
<1>1. /\ IsTx(r) /\ r.op = "fixed" /\ r.at = "sources" /\ r.period = Last
      /\ r.first = Last /\ r.due = {} /\ r.mine = Row(Fixed(f), row)
  BY BeginFields
<1>2. DOMAIN r.mine = {Fixed(f)} /\ Typed(r.mine)
  BY <1>1, FixedRowIsTyped
<1>3. Shape(r)
  <2>1. DOMAIN r.mine \subseteq Keys
    BY <1>2, TheKeys
  <2>2. QED
    BY <1>1, <1>2, <2>1, LastIsPeriod DEF Shape, Cascading, Early, Budgets, Closing
<1>4. GotOK(r)
  BY <1>1 DEF GotOK
<1>5. OwnOK(r)
  BY <1>1, <1>2, KeysApart DEF OwnOK, Cascading
<1>6. MovesOK(rows, r)
  BY <1>1, <1>2, KeysApart DEF MovesOK
<1>7. SpentSoFar(rows, r)
  <2>1. ASSUME NEW p \in Periods
        PROVE  SpentOK(View(rows, r), p)
    <3>1. /\ \A m \in MovementIds : Movement(m) \notin DOMAIN r.mine
          /\ \A k \in Categories : Budget(p, k) \notin DOMAIN r.mine
      BY <1>2, KeysApart
    <3>2. QED
      BY <1>6, <3>1, SpentBefore DEF Settled
  <2>2. QED
    BY <1>1, <2>1 DEF SpentSoFar, Closing
<1>8. AlertsSoFar(rows, created, r)
  BY <1>1 DEF AlertsSoFar, DueIsKnown, Reaching
<1>9. QED
  BY <1>2, <1>3, <1>4, <1>5, <1>6, <1>7, <1>8 DEF TxInv

LEMMA ChangeFixedBegins ==
  ASSUME NEW rows, Settled(rows), NEW created, NEW f \in FixedIds,
         NEW row \in NewFixed \union {Gone},
         NEW r, r = BeginTx("fixed", "write", Last, [key |-> Fixed(f), row |-> row], NoRows)
  PROVE  TxInv(rows, created, r) /\ DOMAIN r.mine = {}
<1>1. /\ IsTx(r) /\ r.op = "fixed" /\ r.at = "write" /\ r.period = Last
      /\ r.first = Last /\ r.due = {} /\ r.mine = NoRows
      /\ r.got = [key |-> Fixed(f), row |-> row]
  BY BeginFields
<1>2. DOMAIN r.mine = {} /\ Typed(r.mine)
  BY <1>1 DEF NoRows, Typed
<1>3. Shape(r)
  BY <1>1, <1>2, LastIsPeriod DEF Shape, Cascading, Early, Budgets, Closing
<1>4. GotOK(r)
  BY <1>1 DEF GotOK
<1>5. OwnOK(r)
  BY <1>1, <1>2 DEF OwnOK, Cascading
<1>6. MovesOK(rows, r)
  BY <1>1, <1>2 DEF MovesOK
<1>7. SpentSoFar(rows, r)
  BY <1>1 DEF SpentSoFar, Budgets, Closing
<1>8. AlertsSoFar(rows, created, r)
  BY <1>1 DEF AlertsSoFar, DueIsKnown, Reaching
<1>9. QED
  BY <1>2, <1>3, <1>4, <1>5, <1>6, <1>7, <1>8 DEF TxInv

-----------------------------------------------------------------------------
(* What other transactions change *)

\* Before its ledgers are written a request depends on its movement only.
LEMMA OthersKeepEarly ==
  ASSUME NEW rows, NEW created, NEW q, TxInv(rows, created, q), q.at \in Early,
         NEW rows2, NEW created2,
         \A m \in MovementIds :
            \/ Movement(m) \in DOMAIN q.mine
            \/ q.at = "write" /\ q.op = "change" /\ q.got.key = Movement(m)
            => rows2[Movement(m)] = rows[Movement(m)]
  PROVE  TxInv(rows2, created2, q)
<1>0. Shape(q) /\ GotOK(q) /\ OwnOK(q) /\ MovesOK(rows, q) /\ AlertsSoFar(rows, created, q)
  BY DEF TxInv
<1>1. MovesOK(rows2, q)
  <2>1. q.at = "write" /\ q.op = "change" => rows2[q.got.key] = rows[q.got.key]
    BY <1>0 DEF GotOK
  <2>2. QED
    BY <1>0, <2>1 DEF MovesOK, Elsewhere, Exists
<1>2. SpentSoFar(rows2, q)
  BY DEF SpentSoFar, Early, Budgets, Closing
<1>3. AlertsSoFar(rows2, created2, q)
  BY <1>0 DEF AlertsSoFar, DueIsKnown, Early
<1>4. QED
  BY <1>0, <1>1, <1>2, <1>3 DEF TxInv

\* Settings change nothing a request has found out about spent amounts and
\* the deficit.
LEMMA SettingsKeep ==
  ASSUME NEW rows, Committed(rows), NEW rows2, Committed(rows2),
         NEW created, NEW q, TxInv(rows, created, q),
         \A m \in MovementIds : rows2[Movement(m)] = rows[Movement(m)],
         \A f \in FixedIds : rows2[Fixed(f)] = rows[Fixed(f)],
         rows2[Ledger(Last)] = rows[Ledger(Last)],
         \A p \in Periods, k \in Categories : SpentOf(rows2, p, k) = SpentOf(rows, p, k)
  PROVE  TxInv(rows2, created, q)
<1> DEFINE view == View(rows, q)
           view2 == View(rows2, q)
<1>0. Shape(q) /\ GotOK(q) /\ OwnOK(q) /\ MovesOK(rows, q) /\ SpentSoFar(rows, q)
      /\ AlertsSoFar(rows, created, q)
  BY DEF TxInv
<1>1. MovesOK(rows2, q)
  <2>1. q.at = "write" /\ q.op = "change" => rows2[q.got.key] = rows[q.got.key]
    BY <1>0 DEF GotOK
  <2>2. QED
    BY <1>0, <2>1 DEF MovesOK, Elsewhere, Exists
<1>2. \A m \in MovementIds : view2[Movement(m)] = view[Movement(m)]
  BY TheKeys DEF View, Over, Committed
<1>3. \A f \in FixedIds : view2[Fixed(f)] = view[Fixed(f)]
  BY TheKeys DEF View, Over, Committed
<1>4. view2[Ledger(Last)] = view[Ledger(Last)]
  BY TheKeys, LastIsPeriod DEF View, Over, Committed
<1>5. \A p \in Periods, k \in Categories : SpentOf(view2, p, k) = SpentOf(view, p, k)
  <2> TAKE p \in Periods, k \in Categories
  <2>1. Budget(p, k) \in Keys
    BY TheKeys
  <2>2. CASE Budget(p, k) \in DOMAIN q.mine
    <3>1. view2[Budget(p, k)] = view[Budget(p, k)]
      BY <2>2 DEF View, Over
    <3>2. QED
      BY <3>1 DEF SpentOf, Exists
  <2>3. CASE Budget(p, k) \notin DOMAIN q.mine
    <3>1. /\ view2[Budget(p, k)] = rows2[Budget(p, k)]
          /\ view[Budget(p, k)] = rows[Budget(p, k)]
      BY <2>1, <2>3 DEF View, Over, Committed
    <3>2. QED
      BY <3>1 DEF SpentOf, Exists
  <2>4. QED
    BY <2>2, <2>3
<1> HIDE DEF view, view2
<1>6. \A p \in Periods : SameMovements(view, view2, p)
  BY <1>2 DEF SameMovements
<1>7. \A p \in Periods : SpentOK(view, p) => SpentOK(view2, p)
  BY <1>5, <1>6, SpentOKIfSame
<1>8. SpentSoFar(rows2, q)
  <2>1. q.period \in Periods
    BY <1>0 DEF Shape
  <2>2. \A k \in Categories : TotalOf(view2, q.period, Spending, k)
                              = TotalOf(view, q.period, Spending, k)
    BY <1>6, <2>1, TotalOfSame
  <2>3. ASSUME q.at \in {"spent", "unspent"}, NEW k \in Categories
        PROVE  TotalOf(view2, q.period, Spending, k)
               = IF k \in DOMAIN q.got THEN q.got[k] ELSE SpentOf(view2, q.period, k)
    <3>1. TotalOf(view, q.period, Spending, k)
          = IF k \in DOMAIN q.got THEN q.got[k] ELSE SpentOf(view, q.period, k)
      BY <1>0, <2>3 DEF SpentSoFar, view
    <3>2. QED
      BY <1>5, <2>1, <2>2, <3>1
  <2>4. QED
    BY <1>0, <1>7, <2>3 DEF SpentSoFar, view, view2
<1>9. AlertsSoFar(rows2, created, q)
  <2>1. BudgetBase(view2, Last) = BudgetBase(view, Last)
    BY <1>3, <1>4, <1>6, LastIsPeriod, BaseIfSame
  <2>2. InDeficit(view2) <=> InDeficit(view)
    BY <2>1 DEF InDeficit
  <2>3. QED
    BY <1>0, <2>2 DEF AlertsSoFar, view, view2
<1>10. QED
  BY <1>0, <1>1, <1>8, <1>9 DEF TxInv

-----------------------------------------------------------------------------
(* The invariant is kept *)

\* What Inv says of the rows and of one transaction.
LEMMA OfInv ==
  ASSUME Inv
  PROVE  /\ Settled(db) /\ alerts \in [AlertTypes -> 0 .. 1]
         /\ \A c \in Clients : tx[c] # Idle =>
               Clear(c) /\ IsTx(tx[c]) /\ Shape(tx[c]) /\ TxInv(db, alerts, tx[c])
<1>1. Committed(db)
  BY DEF Inv, TablesOK, Committed
<1>2. \A p \in Periods : SpentOK(db, p)
  BY DEF Inv, SpentFollowsMovements, SpentOK, SpentOf
<1>3. QED
  BY <1>1, <1>2 DEF Inv, TablesOK, RequestsOK, Settled, Clear, TxInv, Shape

\* A step of the transaction of c, which begins with op or goes on.
LEMMA StepInv ==
  ASSUME Inv, NEW c \in Clients, NEW r, Becomes(c, r), TxInv(db, alerts, r),
         r.op \in sends[c],
         NEW keys, Free(c, keys),
         tx[c] = Idle => DOMAIN r.mine \subseteq keys,
         tx[c] # Idle => DOMAIN r.mine \subseteq DOMAIN tx[c].mine \union keys
  PROVE  Inv'
<1>1. TablesOK'
  BY DEF Becomes, TablesOK, Inv, Typed
<1>2. tx' = [tx EXCEPT ![c] = r] /\ tx = [d \in Clients |-> tx[d]] /\ db' = db
      /\ alerts' = alerts /\ sends' = sends
  BY DEF Becomes, Inv, RequestsOK
<1>3. tx'[c] = r /\ \A d \in Clients \ {c} : tx'[d] = tx[d]
  BY <1>2
<1>4. RequestsOK'
  <2>1. tx' = [d \in Clients |-> tx'[d]]
    BY <1>2
  <2>2. ASSUME NEW d \in Clients, tx'[d] # Idle
        PROVE  tx'[d].op \in sends[d] /\ TxInv(db, alerts, tx'[d])
    BY <1>3, <2>2 DEF Inv, RequestsOK
  <2>3. ASSUME NEW d \in Clients, tx'[d] # Idle
        PROVE  tx'[d].op \in sends'[d] /\ TxInv(db, alerts, tx[d])'
    <3>1. PICK q : q = tx'[d]
      OBVIOUS
    <3>2. TxInv(db, alerts, q) /\ q.op \in sends[d]
      BY <2>2, <2>3, <3>1
    <3>3. QED
      BY <1>2, <3>1, <3>2
  <2>4. QED
    BY <1>2, <2>1, <2>3 DEF Inv, RequestsOK
<1>5. Locks'
  <2>1. \A d \in Clients \ {c} : tx[d] # Idle => DOMAIN r.mine \intersect DOMAIN tx[d].mine = {}
    <3> TAKE d \in Clients \ {c}
    <3>1. tx[d] # Idle => keys \intersect DOMAIN tx[d].mine = {}
      BY DEF Free
    <3>2. tx[c] # Idle /\ tx[d] # Idle => DOMAIN tx[c].mine \intersect DOMAIN tx[d].mine = {}
      BY DEF Inv, Locks
    <3>3. QED
      BY <3>1, <3>2
  <2>2. ASSUME NEW d \in Clients, NEW e \in Clients, d # e, tx'[d] # Idle, tx'[e] # Idle
        PROVE  DOMAIN tx'[d].mine \intersect DOMAIN tx'[e].mine = {}
    <3>1. CASE d = c
      BY <1>3, <2>1, <2>2, <3>1
    <3>2. CASE e = c
      BY <1>3, <2>1, <2>2, <3>2
    <3>3. CASE d # c /\ e # c
      BY <1>3, <2>2, <3>3 DEF Inv, Locks
    <3>4. QED
      BY <3>1, <3>2, <3>3
  <2>3. QED
    BY <2>2 DEF Locks
<1>6. SpentFollowsMovements'
  BY <1>2 DEF Inv, SpentFollowsMovements, Exists, TotalOf, Total, MovementsOf
<1>7. QED
  BY <1>1, <1>4, <1>5, <1>6 DEF Inv

\* The statement of c makes r of its transaction, which keeps to the invariant.
LEMMA StatementInv ==
  ASSUME Inv, NEW c \in Clients, tx[c] # Idle, NEW r, Becomes(c, r), TxInv(db, alerts, r),
         r.op = tx[c].op,
         NEW keys, Free(c, keys), DOMAIN r.mine \subseteq DOMAIN tx[c].mine \union keys
  PROVE  Inv'
<1>1. r.op \in sends[c]
  BY DEF Inv, RequestsOK
<1>2. QED
  BY <1>1, StepInv

LEMMA NothingFree ==
  ASSUME NEW c
  PROVE  Free(c, {})
BY DEF Free

LEMMA WriteRowInv ==
  ASSUME Inv, NEW c \in Clients, WriteRow(c)
  PROVE  Inv'
<1>1. PICK q : q = tx[c]
  OBVIOUS
<1>2. q # Idle
  BY <1>1 DEF WriteRow, At
<1>3. Settled(db) /\ Clear(c) /\ IsTx(q) /\ Shape(q) /\ TxInv(db, alerts, q)
  BY <1>1, <1>2, OfInv
<1>4. PICK r : r = Written(q)
  OBVIOUS
<1>5. q.at = "write" /\ Free(c, {q.got.key}) /\ Becomes(c, r)
  BY <1>1, <1>3, <1>4, WriteRowDoes
<1>6. q.op \in {"change", "fixed"}
  BY <1>3, <1>5 DEF Shape
<1>7. TxInv(db, alerts, r)
  BY <1>3, <1>4, <1>5, <1>6, MovementWritten, FixedWritten
<1>8. r.op = q.op /\ r.mine = Over(Row(q.got.key, q.got.row), q.mine)
  BY <1>3, <1>4, WrittenFields DEF Fieldwise
<1>9. DOMAIN r.mine \subseteq DOMAIN q.mine \union {q.got.key}
  BY <1>8 DEF Over, Row
<1>10. QED
  BY <1>1, <1>2, <1>5, <1>7, <1>8, <1>9, StatementInv

LEMMA ReadChainInv ==
  ASSUME Inv, NEW c \in Clients, ReadChain(c)
  PROVE  Inv'
<1>1. PICK q, rows : q = tx[c] /\ rows = View(db, q)
  OBVIOUS
<1>2. q # Idle
  BY <1>1 DEF ReadChain, At
<1>3. Settled(db) /\ Clear(c) /\ IsTx(q) /\ Shape(q) /\ TxInv(db, alerts, q)
  BY <1>1, <1>2, OfInv
<1>4. Committed(rows) /\ q.period \in Periods
  BY <1>1, <1>3, ViewIsCommitted DEF Settled, Shape
<1>5. Seen(c) = rows
  BY <1>1 DEF Seen, View
<1>6. PICK start : start = Max({p \in 1 .. q.period : p = 1 \/ Exists(rows, Ledger(p - 1))})
  OBVIOUS
<1>7. PICK opening : opening = IF start = 1 THEN 0 ELSE rows[Ledger(start - 1)].closing
  OBVIOUS
<1>8. start \in Periods /\ start <= q.period /\ opening \in Int
  BY <1>4, <1>6, <1>7, CascadeStart
<1>9. PICK r : r = Chained(q, start, opening)
  OBVIOUS
<1>10. q.at = "chain" /\ Becomes(c, r)
  BY <1>1, <1>3, <1>5, <1>6, <1>7, <1>9, ReadChainDoes
<1>11. TxInv(db, alerts, r)
  BY <1>3, <1>8, <1>9, <1>10, ChainRead
<1>12. r.op = q.op /\ r.mine = q.mine
  <2>1. Fieldwise(r, q, "sum", start, IF q.op = "fixed" THEN Last ELSE start, q.due, q.mine)
    BY <1>3, <1>9, ChainedFields
  <2>2. QED
    BY <2>1 DEF Fieldwise
<1>13. QED
  BY <1>1, <1>2, <1>10, <1>11, <1>12, NothingFree, StatementInv

LEMMA SumMovementsInv ==
  ASSUME Inv, NEW c \in Clients, SumMovements(c)
  PROVE  Inv'
<1>1. PICK q, rows : q = tx[c] /\ rows = View(db, q)
  OBVIOUS
<1>2. q # Idle
  BY <1>1 DEF SumMovements, At
<1>3. Settled(db) /\ Clear(c) /\ IsTx(q) /\ Shape(q) /\ TxInv(db, alerts, q)
  BY <1>1, <1>2, OfInv
<1>4. Committed(rows)
  BY <1>1, <1>3, ViewIsCommitted DEF Settled
<1>5. Seen(c) = rows
  BY <1>1 DEF Seen, View
<1>6. PICK ledger : ledger = NewLedger(rows, q.period, q.got.opening)
  OBVIOUS
<1>7. PICK r : r = Summed(q, ledger)
  OBVIOUS
<1>8. q.at = "sum" /\ Becomes(c, r)
  BY <1>1, <1>3, <1>5, <1>6, <1>7, SumMovementsDoes
<1>9. ledger \in LedgerRow
  <2>1. q.got.opening \in Int
    BY <1>3, <1>8 DEF TxInv, GotOK
  <2>2. QED
    BY <1>4, <1>6, <2>1, NewLedgerIsRow
<1>10. TxInv(db, alerts, r)
  BY <1>3, <1>7, <1>8, <1>9, MovementsSummed
<1>11. r.op = q.op /\ r.mine = q.mine
  BY <1>3, <1>7, SummedFields DEF Fieldwise
<1>12. QED
  BY <1>1, <1>2, <1>8, <1>10, <1>11, NothingFree, StatementInv

LEMMA WriteLedgerInv ==
  ASSUME Inv, NEW c \in Clients, WriteLedger(c)
  PROVE  Inv'
<1>1. PICK q : q = tx[c]
  OBVIOUS
<1>2. q # Idle
  BY <1>1 DEF WriteLedger, At
<1>3. Settled(db) /\ Clear(c) /\ IsTx(q) /\ Shape(q) /\ TxInv(db, alerts, q)
  BY <1>1, <1>2, OfInv
<1>4. PICK r : r = IF q.period < Last THEN NextLedger(q) ELSE LastLedger(q)
  OBVIOUS
<1>5. q.at = "ledger" /\ Free(c, {Ledger(q.period)}) /\ Becomes(c, r)
  BY <1>1, <1>3, <1>4, WriteLedgerDoes
<1>6. TxInv(db, alerts, r)
  BY <1>3, <1>4, <1>5, LedgerWritten
<1>7. r.op = q.op /\ r.mine = Over(Row(Ledger(q.period), q.got), q.mine)
  BY <1>3, <1>4, NextLedgerFields, LastLedgerFields DEF Fieldwise
<1>8. DOMAIN r.mine \subseteq DOMAIN q.mine \union {Ledger(q.period)}
  BY <1>7 DEF Over, Row
<1>9. QED
  BY <1>1, <1>2, <1>5, <1>6, <1>7, <1>8, StatementInv

LEMMA BuildLedgerInv ==
  ASSUME Inv, NEW c \in Clients, BuildLedger(c)
  PROVE  Inv'
<1>1. PICK q : q = tx[c]
  OBVIOUS
<1>2. q # Idle
  BY <1>1 DEF BuildLedger, At
<1>3. Settled(db) /\ Clear(c) /\ IsTx(q) /\ Shape(q) /\ TxInv(db, alerts, q)
  BY <1>1, <1>2, OfInv
<1>4. PICK r : r = Built(q)
  OBVIOUS
<1>5. q.at = "sources" /\ ~ Exists(View(db, q), Ledger(q.period)) /\ Becomes(c, r)
  BY <1>1, <1>3, <1>4, BuildLedgerDoes
<1>6. TxInv(db, alerts, r)
  BY <1>3, <1>4, <1>5, LedgerMissing
<1>7. r.op = q.op /\ r.mine = q.mine
  BY <1>3, <1>4, BuiltFields DEF Fieldwise
<1>8. QED
  BY <1>1, <1>2, <1>5, <1>6, <1>7, NothingFree, StatementInv

LEMMA ReadSourcesInv ==
  ASSUME Inv, NEW c \in Clients, ReadSources(c)
  PROVE  Inv'
<1>1. PICK q, rows : q = tx[c] /\ rows = View(db, q)
  OBVIOUS
<1>2. q # Idle
  BY <1>1 DEF ReadSources, At
<1>3. Settled(db) /\ Clear(c) /\ IsTx(q) /\ Shape(q) /\ TxInv(db, alerts, q)
  BY <1>1, <1>2, OfInv
<1>4. Committed(rows) /\ q.period \in Periods
  BY <1>1, <1>3, ViewIsCommitted DEF Settled, Shape
<1>5. PICK limits : limits = [k \in Limited(rows, q.period) |->
                                [limit |-> Limit(rows, q.period, k), rank |-> Rank(rows, k)]]
  OBVIOUS
<1>6. PICK due : due = IF q.period = Last THEN Due(rows) ELSE {}
  OBVIOUS
<1>7. PICK r : r = Sourced(q, limits, due)
  OBVIOUS
<1>8. q.at = "sources" /\ Exists(rows, Ledger(q.period)) /\ Becomes(c, r)
  BY <1>1, <1>3, <1>5, <1>6, <1>7, ReadSourcesDoes
<1>9. DOMAIN limits \subseteq Categories /\ \A k \in DOMAIN limits : limits[k].limit \in Int
  <2>1. Limited(rows, q.period) \subseteq Categories
    BY DEF Limited
  <2>2. \A k \in Categories : Limit(rows, q.period, k) \in Int
    BY <1>4, <1>8, LimitIsNat
  <2>3. QED
    BY <1>5, <2>1, <2>2
<1>10. TxInv(db, alerts, r)
  BY <1>1, <1>3, <1>6, <1>7, <1>8, <1>9, SourcesRead
<1>11. r.op = q.op /\ r.mine = q.mine
  BY <1>3, <1>7, SourcedFields DEF Fieldwise
<1>12. QED
  BY <1>1, <1>2, <1>8, <1>10, <1>11, NothingFree, StatementInv

\* A statement that writes one budget.
LEMMA WriteBudgetInv ==
  ASSUME Inv, NEW c \in Clients, NEW q, q = tx[c], q # Idle,
         NEW k \in DOMAIN q.got, NEW field, NEW value, Writes(q, k, field, value),
         Free(c, {Budget(q.period, k)}), Becomes(c, WithBudget(db, q, k, field, value))
  PROVE  Inv'
<1>1. PICK r, new : r = WithBudget(db, q, k, field, value) /\ new = BudgetOf(db, q, k, field, value)
  OBVIOUS
<1>2. Settled(db) /\ Clear(c) /\ IsTx(q) /\ TxInv(db, alerts, q)
  BY OfInv
<1>3. TxInv(db, alerts, r)
  BY <1>1, <1>2, BudgetWritten
<1>4. r.op = q.op /\ r.mine = Over(new, q.mine) /\ DOMAIN new = {Budget(q.period, k)}
  <2>1. r.op = q.op /\ r.mine = Over(new, q.mine)
    <3>1. Fieldwise(r, q, q.at, q.period, q.first, q.due, Over(new, q.mine))
      BY <1>1, <1>2, WithBudgetFields, Zenon
    <3>2. QED
      BY <3>1 DEF Fieldwise
  <2>2. DOMAIN new = {Budget(q.period, k)}
    BY <1>1 DEF BudgetOf, Row
  <2>3. QED
    BY <2>1, <2>2
<1>5. DOMAIN r.mine \subseteq DOMAIN q.mine \union {Budget(q.period, k)}
  BY <1>4 DEF Over
<1>6. QED
  BY <1>1, <1>3, <1>4, <1>5, StatementInv

LEMMA WriteLimitsInv ==
  ASSUME Inv, NEW c \in Clients, WriteLimits(c)
  PROVE  Inv'
<1>1. PICK q : q = tx[c]
  OBVIOUS
<1>2. q # Idle
  BY <1>1 DEF WriteLimits, At
<1>3. Clear(c)
  BY <1>1, <1>2, OfInv
<1>4. PICK k \in DOMAIN q.got :
         /\ q.at = "limits" /\ Free(c, {Budget(q.period, k)})
         /\ Becomes(c, WithBudget(db, q, k, "limit", q.got[k].limit))
  BY <1>1, <1>3, WriteLimitsDoes
<1>5. QED
  BY <1>1, <1>2, <1>4, WriteBudgetInv DEF Writes

LEMMA GroupSpentInv ==
  ASSUME Inv, NEW c \in Clients, GroupSpent(c)
  PROVE  Inv'
<1>1. PICK q, rows : q = tx[c] /\ rows = View(db, q)
  OBVIOUS
<1>2. q # Idle
  BY <1>1 DEF GroupSpent, At
<1>3. Settled(db) /\ Clear(c) /\ IsTx(q) /\ Shape(q) /\ TxInv(db, alerts, q)
  BY <1>1, <1>2, OfInv
<1>4. Committed(rows)
  BY <1>1, <1>3, ViewIsCommitted DEF Settled
<1>5. PICK groups : groups = [k \in Categories |-> TotalOf(rows, q.period, Spending, k)]
  OBVIOUS
<1>6. PICK r : r = Grouped(q, groups)
  OBVIOUS
<1>7. q.at \in {"group", "limits"} /\ Becomes(c, r)
  BY <1>1, <1>3, <1>5, <1>6, GroupSpentDoes
<1>8. DOMAIN groups = Categories
  BY <1>5
<1>9. \A k \in Categories : /\ groups[k] \in Nat
                            /\ groups[k] = TotalOf(rows, q.period, Spending, k)
  BY <1>4, <1>5, TotalOfIsNat DEF Committed
<1>10. TxInv(db, alerts, r)
  BY <1>1, <1>3, <1>6, <1>7, <1>8, <1>9, SpentGrouped
<1>11. r.op = q.op /\ r.mine = q.mine
  BY <1>3, <1>6, GroupedFields DEF Fieldwise
<1>12. QED
  BY <1>1, <1>2, <1>7, <1>10, <1>11, NothingFree, StatementInv

LEMMA WriteSpentInv ==
  ASSUME Inv, NEW c \in Clients, WriteSpent(c)
  PROVE  Inv'
<1>1. PICK q : q = tx[c]
  OBVIOUS
<1>2. q # Idle
  BY <1>1 DEF WriteSpent
<1>3. Clear(c)
  BY <1>1, <1>2, OfInv
<1>4. PICK k \in DOMAIN q.got :
         /\ q.at \in {"spent", "unspent"} /\ Free(c, {Budget(q.period, k)})
         /\ Becomes(c, WithBudget(db, q, k, "spent", q.got[k]))
  BY <1>1, <1>3, WriteSpentDoes
<1>5. QED
  BY <1>1, <1>2, <1>4, WriteBudgetInv DEF Writes

LEMMA FindUnspentInv ==
  ASSUME Inv, NEW c \in Clients, FindUnspent(c)
  PROVE  Inv'
<1>1. PICK q : q = tx[c]
  OBVIOUS
<1>2. q # Idle
  BY <1>1 DEF FindUnspent, At
<1>3. Settled(db) /\ Clear(c) /\ IsTx(q) /\ TxInv(db, alerts, q)
  BY <1>1, <1>2, OfInv
<1>4. PICK left : left = [k \in {k \in DOMAIN q.got : Exists(View(db, q), Budget(q.period, k))} |-> 0]
  OBVIOUS
<1>5. PICK r : r = Found(q, left)
  OBVIOUS
<1>6. q.at = "spent" /\ (\A k \in DOMAIN q.got : ~ (q.got[k] > 0)) /\ Becomes(c, r)
  BY <1>1, <1>3, <1>4, <1>5, FindUnspentDoes
<1>7. TxInv(db, alerts, r)
  BY <1>3, <1>4, <1>5, <1>6, UnspentFound
<1>8. r.op = q.op /\ r.mine = q.mine
  BY <1>3, <1>5, FoundFields DEF Fieldwise
<1>9. QED
  BY <1>1, <1>2, <1>6, <1>7, <1>8, NothingFree, StatementInv

LEMMA EndPeriodInv ==
  ASSUME Inv, NEW c \in Clients, EndPeriod(c)
  PROVE  Inv'
<1>1. PICK q : q = tx[c]
  OBVIOUS
<1>2. q # Idle
  BY <1>1 DEF EndPeriod, At
<1>3. Settled(db) /\ Clear(c) /\ IsTx(q) /\ TxInv(db, alerts, q)
  BY <1>1, <1>2, OfInv
<1>4. PICK r : r = WentOn(q)
  OBVIOUS
<1>5. q.at = "unspent" /\ DOMAIN q.got = {} /\ Becomes(c, r)
  BY <1>1, <1>3, <1>4, EndPeriodDoes
<1>6. TxInv(db, alerts, r)
  BY <1>3, <1>4, <1>5, PeriodPassed
<1>7. r.op = q.op /\ r.mine = q.mine
  BY <1>3, <1>4, PassedFields DEF Fieldwise
<1>8. QED
  BY <1>1, <1>2, <1>5, <1>6, <1>7, NothingFree, StatementInv

LEMMA CreateOnceInv ==
  ASSUME Inv, NEW c \in Clients, CreateOnce(c)
  PROVE  Inv'
<1>1. PICK q : q = tx[c]
  OBVIOUS
<1>2. q # Idle
  BY <1>1 DEF CreateOnce, At
<1>3. Settled(db) /\ Clear(c) /\ IsTx(q) /\ Shape(q) /\ TxInv(db, alerts, q)
      /\ alerts \in [AlertTypes -> 0 .. 1]
  BY <1>1, <1>2, OfInv
<1>4. PICK due : due = {t \in q.due : alerts[t] = 0}
  OBVIOUS
<1>5. PICK r : r = Looked(q, due)
  OBVIOUS
<1>6. q.at = "alerts" /\ Becomes(c, r)
  BY <1>1, <1>3, <1>4, <1>5, CreateOnceDoes
<1>7. TxInv(db, alerts, r)
  BY <1>3, <1>4, <1>5, <1>6, AlertsLooked
<1>8. r.op = q.op /\ r.mine = q.mine
  BY <1>3, <1>5, LookedFields DEF Fieldwise
<1>9. QED
  BY <1>1, <1>2, <1>6, <1>7, <1>8, NothingFree, StatementInv

\* A step that leaves c, or nobody, without its transaction and writes rows and
\* alerts that suit all others.
LEMMA CommittedInv ==
  ASSUME Inv, NEW others \in SUBSET Clients, NEW rows, NEW created,
         db' = rows, alerts' = created, sends' = sends,
         tx' = [d \in Clients |-> IF d \in others THEN tx[d] ELSE Idle],
         Settled(rows), created \in [AlertTypes -> 0 .. 1],
         \A d \in others : tx[d] # Idle => TxInv(rows, created, tx[d])
  PROVE  Inv'
<1>1. TablesOK'
  BY DEF Settled, Committed, TablesOK, Typed
<1>2. \A d \in Clients : tx'[d] # Idle => d \in others /\ tx'[d] = tx[d]
  OBVIOUS
<1>3. RequestsOK'
  <2>1. tx' = [d \in Clients |-> tx'[d]]
    OBVIOUS
  <2>2. ASSUME NEW d \in Clients, tx'[d] # Idle
        PROVE  tx'[d].op \in sends'[d] /\ TxInv(db, alerts, tx[d])'
    <3>1. PICK q : q = tx'[d]
      OBVIOUS
    <3>2. d \in others /\ q = tx[d]
      BY <1>2, <2>2, <3>1
    <3>3. TxInv(rows, created, q)
      BY <2>2, <3>1, <3>2
    <3>4. q.op \in sends[d]
      BY <2>2, <3>1, <3>2 DEF Inv, RequestsOK
    <3>5. TxInv(db, alerts, tx[d])'
      BY <3>1, <3>3
    <3>6. QED
      BY <3>1, <3>4, <3>5
  <2>3. sends' = [d \in Clients |-> sends'[d]] /\ Orderly(sends')
    BY DEF Inv, RequestsOK
  <2>4. QED
    BY <2>1, <2>2, <2>3 DEF RequestsOK
<1>4. Locks'
  <2>1. ASSUME NEW d \in Clients, NEW e \in Clients, d # e, tx'[d] # Idle, tx'[e] # Idle
        PROVE  DOMAIN tx'[d].mine \intersect DOMAIN tx'[e].mine = {}
    BY <1>2, <2>1 DEF Inv, Locks
  <2>2. QED
    BY <2>1 DEF Locks
<1>5. SpentFollowsMovements'
  <2>1. \A p \in Periods, k \in Categories :
           (IF Exists(rows, Budget(p, k)) THEN rows[Budget(p, k)].spent ELSE 0)
           = TotalOf(rows, p, Spending, k)
    BY DEF Settled, SpentOK, SpentOf
  <2>2. QED
    BY <2>1 DEF SpentFollowsMovements, Exists, TotalOf, Total, MovementsOf
<1>6. QED
  BY <1>1, <1>3, <1>4, <1>5 DEF Inv

LEMMA RollbackInv ==
  ASSUME Inv, NEW c \in Clients, Rollback(c)
  PROVE  Inv'
<1>1. tx = [d \in Clients |-> tx[d]]
  BY DEF Inv, RequestsOK
<1>2. tx' = [d \in Clients |-> IF d \in Clients \ {c} THEN tx[d] ELSE Idle]
  BY <1>1 DEF Rollback
<1>3. /\ Settled(db) /\ alerts \in [AlertTypes -> 0 .. 1]
      /\ \A d \in Clients : tx[d] # Idle => TxInv(db, alerts, tx[d])
  BY OfInv
<1>4. QED
  BY <1>2, <1>3, CommittedInv DEF Rollback

\* While a transaction that has written the last ledger is committed, those
\* that may overlap it are before theirs, and it writes no movement of theirs.
LEMMA OthersAreEarly ==
  ASSUME Inv, NEW c \in Clients, tx[c] # Idle, tx[c].at \in Closing,
         NEW d \in Clients, d # c, tx[d] # Idle
  PROVE  /\ tx[d].at \in Early
         /\ \A m \in MovementIds :
               \/ Movement(m) \in DOMAIN tx[d].mine
               \/ tx[d].at = "write" /\ tx[d].op = "change" /\ tx[d].got.key = Movement(m)
               => Movement(m) \notin DOMAIN tx[c].mine
<1>1. PICK q, r : q = tx[c] /\ r = tx[d]
  OBVIOUS
<1>2. /\ TxInv(db, alerts, q) /\ TxInv(db, alerts, r)
      /\ q.op \in sends[c] /\ r.op \in sends[d]
      /\ DOMAIN q.mine \intersect DOMAIN r.mine = {}
  BY <1>1 DEF Inv, RequestsOK, Locks
<1>3. Shape(q) /\ Shape(r) /\ OwnOK(q) /\ OwnOK(r) /\ MovesOK(db, q) /\ MovesOK(db, r)
  BY <1>2 DEF TxInv
<1>4. ~ AloneTeam(sends)
  BY <1>2 DEF AloneTeam
<1>5. OverlappingTeam(sends)
  BY <1>4 DEF Inv, RequestsOK, Orderly
<1>6. q.op \in Cascading /\ r.op \in Cascading /\ ~ (q.op = "change" /\ r.op = "change")
  BY <1>2, <1>3, <1>5 DEF OverlappingTeam, Shape, Cascading
<1>7. /\ Ledger(Last) \in DOMAIN q.mine
      /\ r.at \in Budgets \union Closing => Ledger(Last) \in DOMAIN r.mine
  <2>1. q.first <= Last /\ r.first <= Last
    BY <1>3, LastAssumption DEF Shape, Periods
  <2>2. QED
    BY <1>1, <1>3, <1>6, <2>1, LastIsPeriod DEF OwnOK
<1>8. r.at \in Early
  BY <1>2, <1>3, <1>7 DEF Shape
<1>9. ASSUME NEW m \in MovementIds, r.at = "write", r.op = "change", r.got.key = Movement(m),
             Movement(m) \in DOMAIN q.mine
      PROVE  FALSE
  <2>1. q.op = "add"
    BY <1>3, <1>6, <1>9 DEF OwnOK
  <2>2. db[Movement(m)] = NotCreated
    BY <1>3, <1>9, <2>1 DEF MovesOK
  <2>3. Exists(db, Movement(m))
    BY <1>3, <1>9 DEF MovesOK
  <2>4. QED
    BY <2>2, <2>3 DEF Exists
<1>10. QED
  BY <1>1, <1>2, <1>8, <1>9

LEMMA CommitInv ==
  ASSUME Inv, NEW c \in Clients, Commit(c)
  PROVE  Inv'
<1>1. PICK q, rows, created : q = tx[c] /\ rows = View(db, q) /\ created = AlertsWith(q.due)
  OBVIOUS
<1>2. q # Idle /\ q.at = "commit"
  BY <1>1 DEF Commit, At
<1>3. Settled(db) /\ Clear(c) /\ Shape(q) /\ TxInv(db, alerts, q)
      /\ alerts \in [AlertTypes -> 0 .. 1]
  BY <1>1, <1>2, OfInv
<1>4. db' = rows /\ alerts' = created /\ sends' = sends
  BY <1>1 DEF Commit, Seen, View
<1>5. tx' = [d \in Clients |-> IF d \in Clients \ {c} THEN tx[d] ELSE Idle]
  BY <1>3 DEF Commit, Clear
<1>6. Settled(rows)
  <2>1. Committed(rows)
    BY <1>1, <1>3, ViewIsCommitted DEF Settled
  <2>2. \A p \in Periods : SpentOK(rows, p)
    BY <1>1, <1>2, <1>3 DEF TxInv, SpentSoFar, Closing
  <2>3. QED
    BY <2>1, <2>2 DEF Settled
<1>7. created \in [AlertTypes -> 0 .. 1]
  <2>1. \A t \in q.due : alerts[t] = 0
    BY <1>2, <1>3 DEF TxInv, AlertsSoFar
  <2>2. \A t \in AlertTypes : alerts[t] + (IF t \in q.due THEN 1 ELSE 0) \in 0 .. 1
    BY <1>3, <2>1
  <2>3. QED
    BY <1>1, <2>2 DEF AlertsWith
<1>8. ASSUME NEW d \in Clients \ {c}, tx[d] # Idle
      PROVE  TxInv(rows, created, tx[d])
  <2>1. PICK r : r = tx[d]
    OBVIOUS
  <2>2. TxInv(db, alerts, r)
    BY <1>8, <2>1, OfInv
  <2>3. /\ r.at \in Early
        /\ \A m \in MovementIds :
              \/ Movement(m) \in DOMAIN r.mine
              \/ r.at = "write" /\ r.op = "change" /\ r.got.key = Movement(m)
              => Movement(m) \notin DOMAIN q.mine
    BY <1>1, <1>2, <1>8, <2>1, OthersAreEarly DEF Closing
  <2>4. \A m \in MovementIds :
           Movement(m) \notin DOMAIN q.mine => rows[Movement(m)] = db[Movement(m)]
    BY <1>1, <1>3, TheKeys DEF View, Over, Settled, Committed
  <2>5. QED
    BY <2>1, <2>2, <2>3, <2>4, OthersKeepEarly
<1>9. QED
  BY <1>4, <1>5, <1>6, <1>7, <1>8, CommittedInv

\* Rows that settings and limits set by hand leave as they were.
LEMMA SettingInv ==
  ASSUME Inv, NEW c \in Clients, NEW key, NEW row, Set(c, key, row), NEW rows,
         rows = [db EXCEPT ![key] = row], Typed(rows),
         \A m \in MovementIds : key # Movement(m),
         \A f \in FixedIds : key # Fixed(f),
         key # Ledger(Last),
         \A p \in Periods, k \in Categories : SpentOf(rows, p, k) = SpentOf(db, p, k)
  PROVE  Inv'
<1>1. /\ Settled(db) /\ alerts \in [AlertTypes -> 0 .. 1]
      /\ \A d \in Clients : tx[d] # Idle => TxInv(db, alerts, tx[d])
  BY OfInv
<1>2. Committed(db) /\ Committed(rows)
  BY <1>1 DEF Settled, Committed
<1>3. /\ \A m \in MovementIds : rows[Movement(m)] = db[Movement(m)]
      /\ \A f \in FixedIds : rows[Fixed(f)] = db[Fixed(f)]
      /\ rows[Ledger(Last)] = db[Ledger(Last)]
  BY <1>2, TheKeys, LastIsPeriod DEF Committed
<1>4. Settled(rows)
  <2>1. ASSUME NEW p \in Periods
        PROVE  SpentOK(rows, p)
    <3>1. SameMovements(db, rows, p)
      BY <1>3 DEF SameMovements
    <3>2. SpentOK(db, p)
      BY <1>1 DEF Settled
    <3>3. QED
      BY <3>1, <3>2, SpentOKIfSame
  <2>2. QED
    BY <1>2, <2>1 DEF Settled
<1>5. ASSUME NEW d \in Clients, tx[d] # Idle
      PROVE  TxInv(rows, alerts, tx[d])
  <2>1. TxInv(db, alerts, tx[d])
    BY <1>1, <1>5
  <2>2. QED
    BY <1>2, <1>3, <2>1, SettingsKeep
<1>6. tx = [d \in Clients |-> tx[d]]
  BY DEF Inv, RequestsOK
<1>7. tx' = [d \in Clients |-> IF d \in Clients THEN tx[d] ELSE Idle]
  BY <1>6 DEF Set
<1>8. QED
  BY <1>1, <1>4, <1>5, <1>7, CommittedInv DEF Set

\* A rule, the savings target, or what the goals ask.
LEMMA SetInv ==
  ASSUME Inv, NEW c \in Clients, NEW key, NEW row, Set(c, key, row),
         \/ \E k \in Categories : key = Rule(k) /\ row \in Percentages
         \/ key \in {Target, Required}
  PROVE  Inv'
<1>1. PICK rows : rows = [db EXCEPT ![key] = row]
  OBVIOUS
<1>2. Committed(db)
  BY OfInv DEF Settled
<1>3. /\ \A m \in MovementIds : key # Movement(m)
      /\ \A f \in FixedIds : key # Fixed(f)
      /\ \A p \in Periods : key # Ledger(p)
      /\ \A p \in Periods, k \in Categories : key # Budget(p, k)
  BY KeysApart
<1>4. \A p \in Periods, k \in Categories : rows[Budget(p, k)] = db[Budget(p, k)]
  BY <1>1, <1>2, <1>3, TheKeys DEF Committed
<1>5. \A p \in Periods, k \in Categories : SpentOf(rows, p, k) = SpentOf(db, p, k)
  BY <1>4 DEF SpentOf, Exists
<1>6. Typed(rows)
  <2>1. DOMAIN rows = DOMAIN db /\ \A other \in DOMAIN db \ {key} : rows[other] = db[other]
    BY <1>1
  <2>2. \A k \in Categories : Rule(k) = key => rows[Rule(k)] \in Percentages
    BY <1>1, <1>2, KeysApart, TheKeys DEF Committed
  <2>3. QED
    BY <1>2, <1>3, <2>1, <2>2 DEF Committed, Typed
<1>7. QED
  BY <1>1, <1>3, <1>5, <1>6, LastIsPeriod, SettingInv

LEMMA SetLimitInv ==
  ASSUME Inv, NEW c \in Clients, NEW p \in Periods, NEW k \in Categories, NEW amount \in Amounts,
         SetLimit(c, p, k, amount)
  PROVE  Inv'
<1>1. PICK key, row, rows : /\ key = Budget(p, k)
                            /\ row = Upserted(db, key, NewBudget, "limit", amount)
                            /\ rows = [db EXCEPT ![key] = row]
  OBVIOUS
<1>2. Committed(db)
  BY OfInv DEF Settled
<1>3. Set(c, key, row)
  BY <1>1 DEF SetLimit
<1>4. row \in BudgetRow /\ row.spent = SpentOf(db, p, k)
  BY <1>1, <1>2, AmountsAssumption, UpsertedBudget
<1>5. /\ \A m \in MovementIds : key # Movement(m)
      /\ \A f \in FixedIds : key # Fixed(f)
      /\ \A n \in Periods : key # Ledger(n)
      /\ \A j \in Categories : key # Rule(j)
      /\ \A n \in Periods, j \in Categories : key = Budget(n, j) => n = p /\ j = k
  BY <1>1, KeysApart
<1>6. /\ DOMAIN rows = DOMAIN db /\ rows[key] = row
      /\ \A other \in DOMAIN db \ {key} : rows[other] = db[other]
  BY <1>1, <1>2, TheKeys DEF Committed
<1>7. ASSUME NEW n \in Periods, NEW j \in Categories
      PROVE  SpentOf(rows, n, j) = SpentOf(db, n, j)
  <2>1. CASE Budget(n, j) = key
    <3>1. rows[Budget(n, j)] = row /\ n = p /\ j = k
      BY <1>5, <1>6, <2>1
    <3>2. Exists(rows, Budget(n, j))
      BY <1>4, <3>1, BudgetRowsAssumption DEF Exists
    <3>3. QED
      BY <1>4, <3>1, <3>2 DEF SpentOf
  <2>2. CASE Budget(n, j) # key
    BY <1>2, <1>6, <2>2, TheKeys DEF SpentOf, Exists, Committed
  <2>3. QED
    BY <2>1, <2>2
<1>8. Typed(rows)
  <2>1. \A n \in Periods, j \in Categories : Budget(n, j) = key => rows[Budget(n, j)] \in BudgetRow
    BY <1>4, <1>6
  <2>2. QED
    BY <1>2, <1>5, <1>6, <2>1 DEF Committed, Typed
<1>9. QED
  BY <1>1, <1>3, <1>5, <1>7, <1>8, LastIsPeriod, SettingInv

-----------------------------------------------------------------------------
(* Requests keep the invariant *)

LEMMA BeginDoes ==
  ASSUME Inv, NEW c \in Clients, NEW op, NEW at, NEW p, NEW got, NEW mine,
         Begin(c, op, at, p, got, mine)
  PROVE  tx[c] = Idle /\ op \in sends[c] /\ Becomes(c, BeginTx(op, at, p, got, mine))
BY DEF Begin, Becomes, BeginTx

\* A request begins with the rows it writes, which nobody else has written.
LEMMA BeginInv ==
  ASSUME Inv, NEW c \in Clients, NEW op, NEW at, NEW p, NEW got, NEW mine,
         Begin(c, op, at, p, got, mine),
         NEW r, r = BeginTx(op, at, p, got, mine), TxInv(db, alerts, r),
         NEW keys, Free(c, keys), DOMAIN r.mine \subseteq keys
  PROVE  Inv'
<1>1. tx[c] = Idle /\ op \in sends[c] /\ Becomes(c, r)
  BY BeginDoes
<1>2. r.op = op
  BY BeginFields
<1>3. QED
  BY <1>1, <1>2, StepInv

LEMMA RequestInv ==
  ASSUME Inv, NEW c \in Clients, Request(c)
  PROVE  Inv'
<1>0. Settled(db)
  BY OfInv
<1>1. ASSUME NEW m \in MovementIds, NEW row \in NewMovement, Add(c, m, row)
      PROVE  Inv'
  <2>1. PICK r : r = BeginTx("add", "chain", row.period, <<>>, Row(Movement(m), row))
    OBVIOUS
  <2>2. TxInv(db, alerts, r) /\ DOMAIN r.mine = {Movement(m)}
    BY <1>0, <1>1, <2>1, AddBegins DEF Add
  <2>3. QED
    BY <1>1, <2>1, <2>2, BeginInv DEF Add
<1>2. ASSUME NEW m \in MovementIds, NEW row \in NewMovement \union {Gone}, Change(c, m, row)
      PROVE  Inv'
  <2>1. PICK from, got : /\ from = Affected(db[Movement(m)], row)
                         /\ got = [key |-> Movement(m), row |-> row]
    OBVIOUS
  <2>2. PICK r : r = BeginTx("change", "write", from, got, NoRows)
    OBVIOUS
  <2>3. TxInv(db, alerts, r) /\ DOMAIN r.mine = {}
    BY <1>0, <1>2, <2>1, <2>2, ChangeBegins DEF Change
  <2>4. Begin(c, "change", "write", from, got, NoRows)
    BY <1>2, <2>1 DEF Change
  <2>5. QED
    BY <2>2, <2>3, <2>4, BeginInv, NothingFree
<1>3. ASSUME NEW p \in Periods, Recalculate(c, p)
      PROVE  Inv'
  <2>1. PICK op \in {"recalculate", "ledgers"} : Begin(c, op, "chain", p, <<>>, NoRows)
    BY <1>3 DEF Recalculate
  <2>2. PICK r : r = BeginTx(op, "chain", p, <<>>, NoRows)
    OBVIOUS
  <2>3. TxInv(db, alerts, r) /\ DOMAIN r.mine = {}
    BY <1>0, <2>2, RecalculateBegins
  <2>4. QED
    BY <2>1, <2>2, <2>3, BeginInv, NothingFree
<1>4. ASSUME NEW p \in Periods, ResetSpent(c, p)
      PROVE  Inv'
  <2>1. PICK r : r = BeginTx("resetSpent", "group", p, <<>>, NoRows)
    OBVIOUS
  <2>2. TxInv(db, alerts, r) /\ DOMAIN r.mine = {}
    BY <1>0, <2>1, ResetBegins
  <2>3. QED
    BY <1>4, <2>1, <2>2, BeginInv, NothingFree DEF ResetSpent
<1>5. ASSUME NEW f \in FixedIds, NEW row \in NewFixed, AddFixed(c, f, row)
      PROVE  Inv'
  <2>1. PICK r : r = BeginTx("fixed", "sources", Last, <<>>, Row(Fixed(f), row))
    OBVIOUS
  <2>2. TxInv(db, alerts, r) /\ DOMAIN r.mine = {Fixed(f)}
    BY <1>0, <2>1, AddFixedBegins
  <2>3. QED
    BY <1>5, <2>1, <2>2, BeginInv DEF AddFixed
<1>6. ASSUME NEW f \in FixedIds, NEW row \in NewFixed \union {Gone}, ChangeFixed(c, f, row)
      PROVE  Inv'
  <2>1. PICK got : got = [key |-> Fixed(f), row |-> row]
    OBVIOUS
  <2>2. PICK r : r = BeginTx("fixed", "write", Last, got, NoRows)
    OBVIOUS
  <2>3. TxInv(db, alerts, r) /\ DOMAIN r.mine = {}
    BY <1>0, <2>1, <2>2, ChangeFixedBegins
  <2>4. Begin(c, "fixed", "write", Last, got, NoRows)
    BY <1>6, <2>1 DEF ChangeFixed
  <2>5. QED
    BY <2>2, <2>3, <2>4, BeginInv, NothingFree
<1>7. ASSUME NEW k \in Categories, NEW percentage \in Percentages, Set(c, Rule(k), percentage)
      PROVE  Inv'
  BY <1>7, SetInv
<1>8. ASSUME NEW key \in {Target, Required}, NEW row, Set(c, key, row)
      PROVE  Inv'
  BY <1>8, SetInv
<1>9. ASSUME NEW p \in Periods, NEW k \in Categories, NEW amount \in Amounts,
             SetLimit(c, p, k, amount)
      PROVE  Inv'
  BY <1>9, SetLimitInv
<1>10. QED
  BY <1>1, <1>2, <1>3, <1>4, <1>5, <1>6, <1>7, <1>8, <1>9 DEF Request

-----------------------------------------------------------------------------
(* What holds always *)

OrderlyTeams == \A team \in Teams : team = [c \in Clients |-> team[c]] /\ Orderly(team)

LEMMA InitInv ==
  ASSUME OrderlyTeams, Init
  PROVE  Inv
<1>1. PICK target \in Percentages, required \in Requirements :
         db = [key \in Keys |-> CASE key = Target -> target [] key = Required -> required
                                  [] OTHER -> NotCreated]
  BY DEF Init
<1>2. DOMAIN db = Keys /\ \A key \in Keys \ {Target, Required} : db[key] = NotCreated
  BY <1>1
<1>3. /\ \A m \in MovementIds : db[Movement(m)] = NotCreated
      /\ \A p \in Periods : db[Ledger(p)] = NotCreated
      /\ \A p \in Periods, k \in Categories : db[Budget(p, k)] = NotCreated
      /\ \A f \in FixedIds : db[Fixed(f)] = NotCreated
      /\ \A k \in Categories : db[Rule(k)] = NotCreated
  BY <1>2, TheKeys, KeysApart
<1>4. TablesOK
  BY <1>2, <1>3 DEF TablesOK, Typed, Init
<1>5. RequestsOK
  BY DEF RequestsOK, Init, OrderlyTeams
<1>6. Locks
  BY DEF Locks, Init
<1>7. SpentFollowsMovements
  <2>1. ASSUME NEW p \in Periods, NEW k \in Categories
        PROVE  TotalOf(db, p, Spending, k) = 0
    <3>1. PICK none : none = {m \in MovementsOf(db, p, Spending) : db[Movement(m)].category = k}
      OBVIOUS
    <3>2. none = {}
      BY <1>3, <3>1 DEF MovementsOf, Exists
    <3>3. PICK table : table = [m \in {} |-> db[Movement(m)].amount]
      OBVIOUS
    <3>4. TotalOf(db, p, Spending, k) = SumFunction(table)
      BY <3>1, <3>2, <3>3 DEF TotalOf, Total
    <3>5. SumFunction(table) = SumFunctionOnSet(table, {})
      BY <3>3, SumOfTable
    <3>6. QED
      BY <3>4, <3>5, SumOfNone
  <2>2. QED
    BY <1>3, <2>1 DEF SpentFollowsMovements, Exists
<1>8. QED
  BY <1>4, <1>5, <1>6, <1>7 DEF Inv

LEMMA NextInv ==
  ASSUME Inv, [Next]_vars
  PROVE  Inv'
<1>1. CASE Next
  <2>1. PICK c \in Clients : Request(c) \/ Statement(c) \/ Rollback(c)
    BY <1>1 DEF Next
  <2>2. CASE Request(c)
    BY <2>2, RequestInv
  <2>3. CASE Statement(c)
    BY <2>3, WriteRowInv, ReadChainInv, SumMovementsInv, WriteLedgerInv, BuildLedgerInv,
       ReadSourcesInv, WriteLimitsInv, GroupSpentInv, WriteSpentInv, FindUnspentInv,
       EndPeriodInv, CreateOnceInv, CommitInv
       DEF Statement
  <2>4. CASE Rollback(c)
    BY <2>4, RollbackInv
  <2>5. QED
    BY <2>1, <2>2, <2>3, <2>4
<1>2. CASE UNCHANGED vars
  <2>1. /\ Settled(db) /\ alerts \in [AlertTypes -> 0 .. 1]
        /\ \A d \in Clients : tx[d] # Idle => TxInv(db, alerts, tx[d])
    BY OfInv
  <2>2. tx = [d \in Clients |-> tx[d]]
    BY DEF Inv, RequestsOK
  <2>3. tx' = [d \in Clients |-> IF d \in Clients THEN tx[d] ELSE Idle]
    BY <1>2, <2>2 DEF vars
  <2>4. QED
    BY <1>2, <2>1, <2>3, CommittedInv DEF vars
<1>3. QED
  BY <1>1, <1>2

\* If one client alone sends requests, or those that overlap are additions,
\* edits and removals of one client, and recalculations, the spent amounts
\* follow the movements.
THEOREM SpentAlwaysFollowsMovements ==
  ASSUME OrderlyTeams
  PROVE  Spec => []SpentFollowsMovements
<1>1. Init => Inv
  BY InitInv
<1>2. Inv /\ [Next]_vars => Inv'
  BY NextInv
<1>3. Inv => SpentFollowsMovements
  BY DEF Inv
<1>4. QED
  BY <1>1, <1>2, <1>3, PTL DEF Spec

\* An alert of a kind is created once in a period, under the same hypothesis.
THEOREM AlertsAreCreatedOnce ==
  ASSUME OrderlyTeams
  PROVE  Spec => []OneAlertPerPeriod
<1>1. Init => Inv
  BY InitInv
<1>2. Inv /\ [Next]_vars => Inv'
  BY NextInv
<1>3. Inv => OneAlertPerPeriod
  BY DEF Inv, TablesOK, OneAlertPerPeriod
<1>4. QED
  BY <1>1, <1>2, <1>3, PTL DEF Spec

\* A commit that leaves the open period in deficit leaves its alert.
LEMMA CommitAlerts ==
  ASSUME Inv, NEW c \in Clients, Commits(c), Reached(c) # {}, (BudgetBase(db, Last) < 0)'
  PROVE  (alerts["PERIOD_DEFICIT"] > 0)'
<1>1. PICK q, rows : q = tx[c] /\ rows = View(db, q)
  OBVIOUS
<1>2. q # Idle /\ q.at = "commit" /\ q.op \in Reaching
  BY <1>1 DEF Commits, At, Reached, Reaching
<1>3. AlertsSoFar(db, alerts, q) /\ alerts \in [AlertTypes -> 0 .. 1]
  BY <1>1, <1>2, OfInv DEF TxInv
<1>4. db' = rows
  BY <1>1 DEF Commits, Seen, View
<1>5. InDeficit(rows)
  BY <1>4 DEF InDeficit, BudgetBase, FixedCommitments, InstallmentCommitments, FixedAmount,
     FixedOf, Exists, TotalOf, Total, MovementsOf
<1>6. "PERIOD_DEFICIT" \in q.due \/ alerts["PERIOD_DEFICIT"] > 0
  BY <1>1, <1>2, <1>3, <1>5 DEF AlertsSoFar
<1>7. alerts'["PERIOD_DEFICIT"]
      = alerts["PERIOD_DEFICIT"] + (IF "PERIOD_DEFICIT" \in q.due THEN 1 ELSE 0)
  BY <1>1 DEF Commits, AlertsWith, AlertTypes
<1>8. alerts["PERIOD_DEFICIT"] \in 0 .. 1
  BY <1>3 DEF AlertTypes
<1>9. QED
  BY <1>6, <1>7, <1>8

\* Whatever leaves the open period in deficit leaves an alert that says so.
THEOREM DeficitIsAlwaysAlerted ==
  ASSUME OrderlyTeams
  PROVE  Spec => DeficitIsAlerted
<1>1. Init => Inv
  BY InitInv
<1>2. Inv /\ [Next]_vars => Inv'
  BY NextInv
<1>3. Inv /\ [Next]_vars =>
         [\A c \in Clients : (Commits(c) /\ Reached(c) # {} /\ (BudgetBase(db, Last) < 0)')
                              => (alerts["PERIOD_DEFICIT"] > 0)']_vars
  BY CommitAlerts
<1>4. QED
  BY <1>1, <1>2, <1>3, PTL DEF Spec, DeficitIsAlerted

-----------------------------------------------------------------------------
(* The sources of the limits *)

\* Of the periods before its first one a request sees the movements committed.
LEMMA MovementsBefore ==
  ASSUME NEW rows, Committed(rows), NEW q, MovesOK(rows, q), NEW p \in Periods,
         p < q.first \/ \A m \in MovementIds : Movement(m) \notin DOMAIN q.mine
  PROVE  SameMovements(rows, View(rows, q), p)
<1> DEFINE view == View(rows, q)
<1> SUFFICES ASSUME NEW m \in MovementIds
             PROVE  \/ rows[Movement(m)] = view[Movement(m)]
                    \/ Elsewhere(rows, m, p) /\ Elsewhere(view, m, p)
  BY DEF SameMovements
<1>1. CASE Movement(m) \in DOMAIN q.mine
  <2>1. Elsewhere(rows, m, p) /\ Elsewhere(q.mine, m, p)
    BY <1>1 DEF MovesOK
  <2>2. view[Movement(m)] = q.mine[Movement(m)]
    BY <1>1 DEF View, Over
  <2>3. QED
    BY <2>1, <2>2 DEF Elsewhere, Exists
<1>2. CASE Movement(m) \notin DOMAIN q.mine
  BY <1>2, TheKeys DEF View, Committed, Over
<1>3. QED
  BY <1>1, <1>2

-----------------------------------------------------------------------------
(* The limits of a period *)

\* The limits of period p are what its sources ask for, in any rows.
LimitsRight(rows, p) ==
    LET base == BudgetBase(rows, p)
    IN  \A k \in Categories :
          LET rest == rows[Budget(p, k)].limit - TotalOf(rows, p, Charging, k)
          IN  /\ FixedOf(rows, k) # {} =>
                    Exists(rows, Budget(p, k)) /\ rest = FixedAmount(rows, k)
              /\ (FixedOf(rows, k) = {} /\ Exists(rows, Rule(k))) =>
                    /\ Exists(rows, Budget(p, k))
                    /\ base <= 0 => rest = 0
                    /\ base > 0  => 200 * rest - 2 * rows[Rule(k)] * base \in -99..100
              /\ TotalOf(rows, p, Charging, k) > 0 => Exists(rows, Budget(p, k)) /\ rest >= 0

\* Two sets of rows in which the limits of period p have the same sources.
SameSources(a, b, p) ==
    /\ SameMovements(a, b, p)
    /\ \A f \in FixedIds : b[Fixed(f)] = a[Fixed(f)]
    /\ \A k \in Categories : b[Rule(k)] = a[Rule(k)]
    /\ b[Ledger(p)] = a[Ledger(p)]

\* The budgets of period p that are in a are in b, with their limits.
KeepLimits(a, b, p) ==
    \A k \in Categories : Exists(a, Budget(p, k)) =>
        Exists(b, Budget(p, k)) /\ b[Budget(p, k)].limit = a[Budget(p, k)].limit

\* What the limits are made of depends on their sources only.
LEMMA SourcesDecide ==
  ASSUME NEW a, NEW b, NEW p, SameSources(a, b, p), NEW k \in Categories
  PROVE  /\ TotalOf(b, p, Charging, k) = TotalOf(a, p, Charging, k)
         /\ FixedOf(b, k) = FixedOf(a, k)
         /\ FixedAmount(b, k) = FixedAmount(a, k)
         /\ Exists(b, Rule(k)) <=> Exists(a, Rule(k))
         /\ b[Rule(k)] = a[Rule(k)]
         /\ BudgetBase(b, p) = BudgetBase(a, p)
<1>1. TotalOf(b, p, Charging, k) = TotalOf(a, p, Charging, k)
  BY TotalOfSame DEF SameSources
<1>2. FixedOf(b, k) = FixedOf(a, k)
  BY DEF FixedOf, Exists, SameSources
<1>3. [f \in FixedOf(b, k) |-> b[Fixed(f)].amount] = [f \in FixedOf(a, k) |-> a[Fixed(f)].amount]
  BY <1>2 DEF FixedOf, SameSources
<1>4. FixedAmount(b, k) = FixedAmount(a, k)
  BY <1>3 DEF FixedAmount
<1>5. b[Rule(k)] = a[Rule(k)] /\ (Exists(b, Rule(k)) <=> Exists(a, Rule(k)))
  BY DEF SameSources, Exists
<1>6. BudgetBase(b, p) = BudgetBase(a, p)
  BY BaseIfSame DEF SameSources
<1>7. QED
  BY <1>1, <1>2, <1>4, <1>5, <1>6

LEMMA LimitDecided ==
  ASSUME NEW a, NEW b, NEW p, SameSources(a, b, p)
  PROVE  /\ Limited(b, p) = Limited(a, p)
         /\ \A k \in Categories : Limit(b, p, k) = Limit(a, p, k)
<1>1. Limited(b, p) = Limited(a, p)
  BY SourcesDecide DEF Limited
<1>2. ASSUME NEW k \in Categories
      PROVE  Limit(b, p, k) = Limit(a, p, k)
  <2>1. Distributable(b, p) = Distributable(a, p)
    BY SourcesDecide DEF Distributable
  <2>2. QED
    BY <2>1, SourcesDecide DEF Limit
<1>3. QED
  BY <1>1, <1>2

\* Limits that are right stay so while their sources and they are the same.
LEMMA LimitsKept ==
  ASSUME NEW a, NEW b, NEW p, SameSources(a, b, p), KeepLimits(a, b, p), LimitsRight(a, p)
  PROVE  LimitsRight(b, p)
<1> SUFFICES ASSUME NEW k \in Categories
             PROVE  LET base == BudgetBase(b, p)
                        rest == b[Budget(p, k)].limit - TotalOf(b, p, Charging, k)
                    IN  /\ FixedOf(b, k) # {} =>
                              Exists(b, Budget(p, k)) /\ rest = FixedAmount(b, k)
                        /\ (FixedOf(b, k) = {} /\ Exists(b, Rule(k))) =>
                              /\ Exists(b, Budget(p, k))
                              /\ base <= 0 => rest = 0
                              /\ base > 0  => 200 * rest - 2 * b[Rule(k)] * base \in -99..100
                        /\ TotalOf(b, p, Charging, k) > 0 =>
                              Exists(b, Budget(p, k)) /\ rest >= 0
  BY DEF LimitsRight
<1>1. /\ TotalOf(b, p, Charging, k) = TotalOf(a, p, Charging, k)
      /\ FixedOf(b, k) = FixedOf(a, k) /\ FixedAmount(b, k) = FixedAmount(a, k)
      /\ Exists(b, Rule(k)) <=> Exists(a, Rule(k))
      /\ b[Rule(k)] = a[Rule(k)]
      /\ BudgetBase(b, p) = BudgetBase(a, p)
  BY SourcesDecide
<1>2. Exists(a, Budget(p, k)) =>
        Exists(b, Budget(p, k)) /\ b[Budget(p, k)].limit = a[Budget(p, k)].limit
  BY DEF KeepLimits
<1>3. QED
  BY <1>1, <1>2 DEF LimitsRight

\* A percentage to the nearest cent, half up.
LEMMA PercentRounds ==
  ASSUME NEW percentage \in Nat, NEW amount \in Nat
  PROVE  200 * PercentOf(percentage, amount) - 2 * percentage * amount \in -99..100
<1>1. PICK n \in Nat : n = 2 * percentage * amount
  OBVIOUS
<1>2. PercentOf(percentage, amount) = (n + 100) \div 200
  BY <1>1 DEF PercentOf
<1>3. 200 * ((n + 100) \div 200) - n \in -99..100
  OBVIOUS
<1>4. QED
  BY <1>1, <1>2, <1>3

\* Limits as ReadSources computes them are right.
LEMMA LimitsComputed ==
  ASSUME NEW rows, Committed(rows), NEW p \in Periods, Exists(rows, Ledger(p)),
         \A k \in Limited(rows, p) :
            Exists(rows, Budget(p, k)) /\ rows[Budget(p, k)].limit = Limit(rows, p, k)
  PROVE  LimitsRight(rows, p)
<1>1. PICK base : base = BudgetBase(rows, p)
  OBVIOUS
<1>2. base \in Int /\ Distributable(rows, p) = (IF base < 0 THEN 0 ELSE base)
  BY <1>1, BudgetBaseIsInt DEF Distributable
<1> SUFFICES ASSUME NEW k \in Categories
             PROVE  LET rest == rows[Budget(p, k)].limit - TotalOf(rows, p, Charging, k)
                    IN  /\ FixedOf(rows, k) # {} =>
                              Exists(rows, Budget(p, k)) /\ rest = FixedAmount(rows, k)
                        /\ (FixedOf(rows, k) = {} /\ Exists(rows, Rule(k))) =>
                              /\ Exists(rows, Budget(p, k))
                              /\ base <= 0 => rest = 0
                              /\ base > 0  => 200 * rest - 2 * rows[Rule(k)] * base \in -99..100
                        /\ TotalOf(rows, p, Charging, k) > 0 =>
                              Exists(rows, Budget(p, k)) /\ rest >= 0
  BY <1>1 DEF LimitsRight
<1>3. PICK charged \in Nat : charged = TotalOf(rows, p, Charging, k)
  BY TotalOfIsNat DEF Committed
<1>4. PICK own : own = CASE FixedOf(rows, k) # {}                             -> FixedAmount(rows, k)
                         [] FixedOf(rows, k) = {} /\ Exists(rows, Rule(k)) ->
                               PercentOf(rows[Rule(k)], Distributable(rows, p))
                         [] OTHER                                             -> 0
  OBVIOUS
<1>5. Limit(rows, p, k) = charged + own
  BY <1>3, <1>4 DEF Limit
<1>6. k \in Limited(rows, p) => /\ Exists(rows, Budget(p, k))
                                /\ rows[Budget(p, k)].limit = charged + own
  BY <1>5
<1>7. FixedOf(rows, k) # {} \/ Exists(rows, Rule(k)) \/ charged # 0 => k \in Limited(rows, p)
  BY <1>3 DEF Limited
<1>8. CASE FixedOf(rows, k) # {}
  <2>1. own = FixedAmount(rows, k) /\ own \in Nat
    BY <1>4, <1>8, FixedAmountIsNat
  <2>2. QED
    BY <1>3, <1>6, <1>7, <1>8, <2>1
<1>9. CASE FixedOf(rows, k) = {} /\ Exists(rows, Rule(k))
  <2>1. PICK percentage, amount : percentage = rows[Rule(k)] /\ amount = Distributable(rows, p)
    OBVIOUS
  <2>2. percentage \in Percentages
    BY <1>9, <2>1, TheKeys DEF Committed, Typed, Exists
  <2>3. percentage \in Nat /\ amount \in Nat
    BY <1>2, <2>1, <2>2, PercentagesAssumption
  <2>4. own = PercentOf(percentage, amount)
    BY <1>4, <1>9, <2>1
  <2>5. own \in Nat
    BY <2>3, <2>4, PercentOfIsNat
  <2>6. 200 * own - 2 * percentage * amount \in -99..100
    BY <2>3, <2>4, PercentRounds
  <2>7. base > 0 => amount = base
    BY <1>2, <2>1
  <2>8. base <= 0 => own = 0
    <3>1. ASSUME base <= 0
          PROVE  amount = 0
      BY <1>2, <2>1, <3>1
    <3>2. ASSUME amount = 0
          PROVE  own = 0
      <4>1. 2 * percentage * 0 + 100 = 100 /\ 100 \div 200 = 0
        BY <2>3
      <4>2. QED
        BY <2>4, <3>2, <4>1 DEF PercentOf
    <3>3. QED
      BY <3>1, <3>2
  <2>9. Exists(rows, Budget(p, k)) /\ rows[Budget(p, k)].limit - charged = own
    BY <1>3, <1>6, <1>7, <1>9, <2>5
  <2>10. QED
    BY <1>3, <1>9, <2>1, <2>5, <2>6, <2>7, <2>8, <2>9
<1>10. CASE FixedOf(rows, k) = {} /\ ~ Exists(rows, Rule(k))
  BY <1>3, <1>4, <1>6, <1>7, <1>10
<1>11. QED
  BY <1>8, <1>9, <1>10

\* Budgets that keep the limits of a period keep them right.
LEMMA BudgetsKeepLimits ==
  ASSUME NEW rows, Committed(rows), NEW new, NEW p \in Periods,
         \A key \in DOMAIN new : \E n \in Periods, k \in Categories : key = Budget(n, k)
  PROVE  /\ SameSources(rows, Over(new, rows), p)
         /\ (\A k \in Categories : Budget(p, k) \in DOMAIN new =>
                /\ new[Budget(p, k)] \in BudgetRow
                /\ Exists(rows, Budget(p, k)) =>
                      new[Budget(p, k)].limit = rows[Budget(p, k)].limit)
            => KeepLimits(rows, Over(new, rows), p)
<1> DEFINE view == Over(new, rows)
<1>1. \A key \in Keys : key \notin DOMAIN new => view[key] = rows[key]
  BY DEF Over, Committed
<1>2. \A m \in MovementIds : view[Movement(m)] = rows[Movement(m)]
  BY <1>1, TheKeys, KeysApart
<1>3. \A f \in FixedIds : view[Fixed(f)] = rows[Fixed(f)]
  BY <1>1, TheKeys, KeysApart
<1>4. \A k \in Categories : view[Rule(k)] = rows[Rule(k)]
  BY <1>1, TheKeys, KeysApart
<1>5. view[Ledger(p)] = rows[Ledger(p)]
  BY <1>1, TheKeys, KeysApart
<1>6. SameSources(rows, view, p)
  BY <1>2, <1>3, <1>4, <1>5 DEF SameSources, SameMovements
<1>7. ASSUME NEW k \in Categories, Exists(rows, Budget(p, k)),
             Budget(p, k) \in DOMAIN new =>
                /\ new[Budget(p, k)] \in BudgetRow
                /\ Exists(rows, Budget(p, k)) =>
                      new[Budget(p, k)].limit = rows[Budget(p, k)].limit
      PROVE  Exists(view, Budget(p, k)) /\ view[Budget(p, k)].limit = rows[Budget(p, k)].limit
  <2>1. CASE Budget(p, k) \in DOMAIN new
    <3>1. view[Budget(p, k)] = new[Budget(p, k)]
      BY <2>1 DEF Over
    <3>2. Exists(view, Budget(p, k))
      BY <1>7, <2>1, <3>1, BudgetExists
    <3>3. QED
      BY <1>7, <2>1, <3>1, <3>2
  <2>2. CASE Budget(p, k) \notin DOMAIN new
    BY <1>1, <1>7, <2>2, TheKeys DEF Exists
  <2>3. QED
    BY <2>1, <2>2
<1>8. QED
  BY <1>6, <1>7 DEF KeepLimits

\* The periods whose limits a request has recalculated so far.
Recalculated(q) ==
    {p \in Periods : /\ q.op \in Reaching /\ q.first <= p
                     /\ \/ q.at \in {"sources", "limits"} /\ p < q.period
                        \/ q.at \in {"group", "spent", "unspent"} /\ p <= q.period
                        \/ q.at \in Closing}

\* The budget of a category has the limit its sources ask for.
LimitWritten(rows, p, k) ==
    Exists(rows, Budget(p, k)) /\ rows[Budget(p, k)].limit = Limit(rows, p, k)

\* Of the limits that have been read, these are left to write.
LimitsLeft(rows, p, got) ==
    /\ Exists(rows, Ledger(p))
    /\ \A k \in Limited(rows, p) :
          IF k \in DOMAIN got THEN got[k].limit = Limit(rows, p, k) ELSE LimitWritten(rows, p, k)
    /\ DOMAIN got \subseteq Limited(rows, p)

\* What a request leaves of the limits, as far as it has come.
LimitsSoFar(rows, q) ==
    /\ \A p \in Recalculated(q) : LimitsRight(View(rows, q), p)
    /\ q.at = "limits" => LimitsLeft(View(rows, q), q.period, q.got)
    /\ q.op = "resetSpent" =>
          \A p \in Periods, k \in Categories :
             Budget(p, k) \in DOMAIN q.mine /\ Exists(rows, Budget(p, k))
             => q.mine[Budget(p, k)].limit = rows[Budget(p, k)].limit

\* Before its first period a request has recalculated nothing.
LEMMA NothingRecalculated ==
  ASSUME NEW rows, NEW q, q.period \in Periods, q.first \in Periods,
         \/ q.at \in Early /\ q.op # "resetSpent"
         \/ q.at = "sources" /\ q.period = q.first /\ q.op # "resetSpent"
         \/ q.op = "ledgers" /\ q.at # "limits"
         \/ q.op = "resetSpent" /\ q.at = "group" /\ DOMAIN q.mine = {}
  PROVE  LimitsSoFar(rows, q)
<1>1. Recalculated(q) = {}
  <2>1. CASE q.at \in Early
    BY <2>1 DEF Recalculated, Early, Closing
  <2>2. CASE q.at = "sources" /\ q.period = q.first
    BY <2>2 DEF Recalculated, Closing, Periods
  <2>3. CASE q.op \in {"ledgers", "resetSpent"}
    BY <2>3 DEF Recalculated, Reaching
  <2>4. QED
    BY <2>1, <2>2, <2>3
<1>2. q.at # "limits"
  BY DEF Early
<1>3. QED
  BY <1>1, <1>2 DEF LimitsSoFar

\* The sources of a period have been read: the limits are known.
LEMMA LimitsKnown ==
  ASSUME NEW rows, NEW q, IsTx(q), q.at = "sources", LimitsSoFar(rows, q),
         Exists(View(rows, q), Ledger(q.period)),
         NEW limits, limits = [k \in Limited(View(rows, q), q.period) |->
                                  [limit |-> Limit(View(rows, q), q.period, k),
                                   rank |-> Rank(View(rows, q), k)]],
         NEW due
  PROVE  LimitsSoFar(rows, Sourced(q, limits, due))
<1>1. PICK r : r = Sourced(q, limits, due)
  OBVIOUS
<1>2. /\ r.op = q.op /\ r.at = "limits" /\ r.period = q.period /\ r.first = q.first
      /\ r.mine = q.mine /\ r.got = limits
  BY <1>1, SourcedFields DEF Fieldwise
<1>3. View(rows, r) = View(rows, q)
  BY <1>2 DEF View
<1>4. Recalculated(r) = Recalculated(q)
  BY <1>2 DEF Recalculated, Closing
<1>5. LimitsLeft(View(rows, r), r.period, r.got)
  BY <1>2, <1>3 DEF LimitsLeft
<1>6. LimitsSoFar(rows, r)
  BY <1>2, <1>3, <1>4, <1>5 DEF LimitsSoFar
<1>7. QED
  BY <1>1, <1>6

\* Budgets written over what a request sees, which keep the limits but those of
\* period `of`.
LEMMA LimitsBefore ==
  ASSUME NEW rows, Committed(rows), NEW q, Shape(q), NEW new,
         \A key \in DOMAIN new : \E n \in Periods, k \in Categories : key = Budget(n, k),
         NEW r, r.mine = Over(new, q.mine), NEW p \in Periods, LimitsRight(View(rows, q), p),
         \A k \in Categories : Budget(p, k) \in DOMAIN new =>
            /\ new[Budget(p, k)] \in BudgetRow
            /\ Exists(View(rows, q), Budget(p, k)) =>
                  new[Budget(p, k)].limit = View(rows, q)[Budget(p, k)].limit
  PROVE  LimitsRight(View(rows, r), p)
<1>1. PICK view : view = View(rows, q)
  OBVIOUS
<1>2. Committed(view)
  BY <1>1, ViewIsCommitted
<1>3. View(rows, r) = Over(new, view)
  BY <1>1, OverTwice DEF View
<1>4. SameSources(view, Over(new, view), p) /\ KeepLimits(view, Over(new, view), p)
  BY <1>1, <1>2, BudgetsKeepLimits
<1>5. QED
  BY <1>1, <1>3, <1>4, LimitsKept

\* One of the limits that were left has been written.
LEMMA OneLimitLess ==
  ASSUME NEW a, Committed(a), NEW new, NEW p \in Periods, NEW got, NEW k \in DOMAIN got,
         k \in Categories, LimitsLeft(a, p, got),
         DOMAIN new = {Budget(p, k)}, new[Budget(p, k)] \in BudgetRow,
         new[Budget(p, k)].limit = got[k].limit,
         NEW b, b = Over(new, a), NEW left, DOMAIN left = DOMAIN got \ {k},
         \A j \in DOMAIN left : left[j] = got[j]
  PROVE  LimitsLeft(b, p, left)
<1>1. \A key \in DOMAIN new : \E n \in Periods, j \in Categories : key = Budget(n, j)
  OBVIOUS
<1>2. SameSources(a, b, p)
  BY <1>1, BudgetsKeepLimits
<1>3. Limited(b, p) = Limited(a, p) /\ \A j \in Categories : Limit(b, p, j) = Limit(a, p, j)
  BY <1>2, LimitDecided
<1>4. Exists(b, Ledger(p))
  BY <1>2 DEF SameSources, Exists, LimitsLeft
<1>5. \A j \in Limited(a, p) : j \in Categories
  BY DEF Limited
<1>6. k \in Limited(a, p) /\ got[k].limit = Limit(a, p, k)
  BY DEF LimitsLeft
<1>7. LimitWritten(b, p, k)
  <2>1. b[Budget(p, k)] = new[Budget(p, k)]
    BY DEF Over
  <2>2. Exists(b, Budget(p, k))
    BY <2>1, BudgetExists
  <2>3. QED
    BY <1>3, <1>6, <2>1, <2>2 DEF LimitWritten
<1>8. ASSUME NEW j \in Limited(a, p), j # k
      PROVE  IF j \in DOMAIN left THEN left[j].limit = Limit(b, p, j) ELSE LimitWritten(b, p, j)
  <2>1. Budget(p, j) \notin DOMAIN new
    BY <1>5, <1>8, KeysApart
  <2>2. b[Budget(p, j)] = a[Budget(p, j)]
    BY <1>5, <2>1, TheKeys DEF Over, Committed
  <2>3. LimitWritten(a, p, j) => LimitWritten(b, p, j)
    BY <1>3, <1>5, <2>2 DEF LimitWritten, Exists
  <2>4. IF j \in DOMAIN got THEN got[j].limit = Limit(a, p, j) ELSE LimitWritten(a, p, j)
    BY DEF LimitsLeft
  <2>5. QED
    BY <1>3, <1>5, <1>8, <2>3, <2>4
<1>9. DOMAIN left \subseteq Limited(b, p)
  BY <1>3 DEF LimitsLeft
<1>10. \A j \in Limited(b, p) :
          IF j \in DOMAIN left THEN left[j].limit = Limit(b, p, j) ELSE LimitWritten(b, p, j)
  BY <1>3, <1>7, <1>8
<1>11. QED
  BY <1>4, <1>9, <1>10 DEF LimitsLeft

\* A budget has been written: a limit as it was read, or what was spent, which
\* keeps the limit.
LEMMA BudgetKeepsLimits ==
  ASSUME NEW rows, Committed(rows), NEW q, Shape(q), GotOK(q), OwnOK(q), LimitsSoFar(rows, q),
         NEW k \in DOMAIN q.got, NEW field, NEW value, Writes(q, k, field, value),
         NEW r, r = WithBudget(rows, q, k, field, value)
  PROVE  LimitsSoFar(rows, r)
<1>1. PICK new, view : new = BudgetOf(rows, q, k, field, value) /\ view = View(rows, q)
  OBVIOUS
<1>2. IsTx(q) /\ Committed(view)
  BY <1>1, ViewIsCommitted DEF Shape
<1>3. /\ r.op = q.op /\ r.at = q.at /\ r.period = q.period /\ r.first = q.first
      /\ r.mine = Over(new, q.mine)
  <2>1. Fieldwise(r, q, q.at, q.period, q.first, q.due, Over(new, q.mine))
    BY <1>1, <1>2, WithBudgetFields, Zenon
  <2>2. QED
    BY <2>1 DEF Fieldwise
<1>4. Without(r, q, k)
  BY <1>1, <1>2, WithBudgetFields, Zenon
<1>5. DOMAIN r.got = DOMAIN q.got \ {k} /\ \A j \in DOMAIN r.got : r.got[j] = q.got[j]
  BY <1>4 DEF Without
<1>6. /\ k \in Categories /\ q.period \in Periods /\ DOMAIN new = {Budget(q.period, k)}
      /\ new[Budget(q.period, k)] \in BudgetRow
      /\ field = "limit" => new[Budget(q.period, k)].limit = value
      /\ field = "spent" /\ Exists(view, Budget(q.period, k)) =>
            new[Budget(q.period, k)].limit = view[Budget(q.period, k)].limit
  BY <1>1, BudgetOfIs
<1>7. View(rows, r) = Over(new, view)
  BY <1>1, <1>3, OverTwice DEF View
<1>8. \A key \in DOMAIN new : \E n \in Periods, j \in Categories : key = Budget(n, j)
  BY <1>6
<1>9. \/ q.at = "limits" /\ field = "limit" /\ value = q.got[k].limit
      \/ q.at \in {"spent", "unspent"} /\ field = "spent"
  BY DEF Writes
<1>10. ASSUME NEW p \in Periods, p # q.period \/ field = "spent", NEW j \in Categories,
              Budget(p, j) \in DOMAIN new
       PROVE  /\ new[Budget(p, j)] \in BudgetRow
              /\ Exists(view, Budget(p, j)) => new[Budget(p, j)].limit = view[Budget(p, j)].limit
  <2>1. p = q.period /\ j = k
    BY <1>6, <1>10, KeysApart
  <2>2. QED
    BY <1>6, <1>10, <2>1
<1>11. ASSUME NEW p \in Recalculated(r)
       PROVE  LimitsRight(View(rows, r), p)
  <2>1. p \in Recalculated(q) /\ p \in Periods
    BY <1>3 DEF Recalculated
  <2>2. p # q.period \/ field = "spent"
    <3>1. q.at = "limits" => p < q.period
      BY <1>3 DEF Recalculated, Closing
    <3>2. q.period \in Int
      BY <1>6 DEF Periods
    <3>3. QED
      BY <1>9, <3>1, <3>2
  <2>3. LimitsRight(view, p)
    BY <1>1, <2>1 DEF LimitsSoFar
  <2>4. QED
    BY <1>1, <1>3, <1>8, <1>10, <2>1, <2>2, <2>3, LimitsBefore
<1>12. ASSUME q.at = "limits"
       PROVE  LimitsLeft(View(rows, r), q.period, r.got)
  <2>1. LimitsLeft(view, q.period, q.got)
    BY <1>1, <1>12 DEF LimitsSoFar
  <2>2. new[Budget(q.period, k)].limit = q.got[k].limit
    BY <1>6, <1>9, <1>12
  <2>3. QED
    BY <1>2, <1>5, <1>6, <1>7, <2>1, <2>2, OneLimitLess
<1>13. ASSUME q.op = "resetSpent", NEW p \in Periods, NEW j \in Categories,
              Budget(p, j) \in DOMAIN r.mine, Exists(rows, Budget(p, j))
       PROVE  r.mine[Budget(p, j)].limit = rows[Budget(p, j)].limit
  <2>1. Budget(p, j) \in DOMAIN q.mine =>
           q.mine[Budget(p, j)].limit = rows[Budget(p, j)].limit
    BY <1>13 DEF LimitsSoFar
  <2>2. field = "spent"
    BY <1>9, <1>13 DEF Shape
  <2>3. CASE Budget(p, j) \in DOMAIN new
    <3>1. r.mine[Budget(p, j)] = new[Budget(p, j)]
      BY <1>3, <2>3 DEF Over
    <3>2. Exists(view, Budget(p, j)) /\ view[Budget(p, j)].limit = rows[Budget(p, j)].limit
      <4>1. CASE Budget(p, j) \in DOMAIN q.mine
        <5>1. view[Budget(p, j)] = q.mine[Budget(p, j)]
          BY <1>1, <4>1 DEF View, Over
        <5>2. Exists(view, Budget(p, j))
          BY <4>1, <5>1, BudgetExists DEF OwnOK
        <5>3. QED
          BY <2>1, <4>1, <5>1, <5>2
      <4>2. CASE Budget(p, j) \notin DOMAIN q.mine
        <5>1. view[Budget(p, j)] = rows[Budget(p, j)]
          BY <1>1, <4>2, TheKeys DEF View, Over, Committed
        <5>2. QED
          BY <1>13, <5>1 DEF Exists
      <4>3. QED
        BY <4>1, <4>2
    <3>3. QED
      BY <1>10, <2>2, <2>3, <3>1, <3>2
  <2>4. CASE Budget(p, j) \notin DOMAIN new
    <3>1. Budget(p, j) \in DOMAIN q.mine /\ r.mine[Budget(p, j)] = q.mine[Budget(p, j)]
      BY <1>3, <1>13, <2>4 DEF Over
    <3>2. QED
      BY <2>1, <3>1
  <2>5. QED
    BY <2>3, <2>4
<1>14. QED
  BY <1>3, <1>11, <1>12, <1>13 DEF LimitsSoFar

\* Statements that only read leave the limits, if they claim no more of them.
LEMMA LimitsStay ==
  ASSUME NEW rows, NEW q, LimitsSoFar(rows, q), NEW r, r.op = q.op, r.mine = q.mine,
         r.at # "limits",
         \A p \in Recalculated(r) : p \in Recalculated(q) \/ LimitsRight(View(rows, q), p)
  PROVE  LimitsSoFar(rows, r)
<1>1. View(rows, r) = View(rows, q)
  BY DEF View
<1>2. QED
  BY <1>1 DEF LimitsSoFar

\* All limits of the period have been written, and what was spent been read.
LEMMA GroupsKeepLimits ==
  ASSUME NEW rows, Committed(rows), NEW q, Shape(q), LimitsSoFar(rows, q),
         q.at = "group" \/ (q.at = "limits" /\ DOMAIN q.got = {}),
         NEW groups, NEW r, r = Grouped(q, groups)
  PROVE  LimitsSoFar(rows, r)
<1>1. /\ r.op = q.op /\ r.at = "spent" /\ r.period = q.period /\ r.first = q.first
      /\ r.mine = q.mine
  BY GroupedFields DEF Fieldwise, Shape
<1>2. q.period \in Periods /\ \A p \in Periods : p \in Int
  BY DEF Shape, Periods
<1>3. \A p \in Recalculated(r) :
         p \in Recalculated(q) \/ (q.at = "limits" /\ p = q.period)
  BY <1>1, <1>2 DEF Recalculated, Closing
<1>4. ASSUME q.at = "limits"
      PROVE  LimitsRight(View(rows, q), q.period)
  <2>1. LimitsLeft(View(rows, q), q.period, q.got) /\ DOMAIN q.got = {}
    BY <1>4 DEF LimitsSoFar
  <2>2. Committed(View(rows, q))
    BY ViewIsCommitted
  <2>3. QED
    BY <1>2, <2>1, <2>2, LimitsComputed DEF LimitsLeft, LimitWritten
<1>5. QED
  BY <1>1, <1>3, <1>4, LimitsStay

\* The budgets without expenses have been looked for.
LEMMA FoundKeepsLimits ==
  ASSUME NEW rows, NEW q, IsTx(q), q.at = "spent", LimitsSoFar(rows, q),
         NEW left, NEW r, r = Found(q, left)
  PROVE  LimitsSoFar(rows, r)
<1>1. /\ r.op = q.op /\ r.at = "unspent" /\ r.period = q.period /\ r.first = q.first
      /\ r.mine = q.mine
  BY FoundFields DEF Fieldwise
<1>2. Recalculated(r) = Recalculated(q)
  BY <1>1 DEF Recalculated, Closing
<1>3. QED
  BY <1>1, <1>2, LimitsStay

\* A request goes on to the next period.
LEMMA PassedKeepsLimits ==
  ASSUME NEW rows, NEW q, Shape(q), q.at = "unspent", LimitsSoFar(rows, q),
         NEW r, r = WentOn(q)
  PROVE  LimitsSoFar(rows, r)
<1>1. /\ r.op = q.op /\ r.first = q.first /\ r.mine = q.mine
      /\ r.at = IF q.op = "resetSpent" THEN "commit"
                ELSE IF q.period < Last THEN "sources" ELSE "alerts"
      /\ r.period = IF q.op # "resetSpent" /\ q.period < Last THEN q.period + 1 ELSE q.period
  BY PassedFields DEF Fieldwise, Shape
<1>2. /\ q.period \in Periods /\ q.first \in Periods /\ Last \in Nat
      /\ \A p \in Periods : p \in Int /\ p <= Last
  BY LastAssumption DEF Shape, Periods
<1>3. Recalculated(r) \subseteq Recalculated(q)
  <2>1. CASE q.op \notin Reaching
    BY <1>1, <2>1 DEF Recalculated
  <2>2. CASE q.op \in Reaching /\ q.period < Last
    BY <1>1, <1>2, <2>2 DEF Recalculated, Reaching, Closing
  <2>3. CASE q.op \in Reaching /\ ~ (q.period < Last)
    BY <1>1, <1>2, <2>3 DEF Recalculated, Reaching, Closing
  <2>4. QED
    BY <2>1, <2>2, <2>3
<1>4. r.at # "limits"
  BY <1>1
<1>5. QED
  BY <1>1, <1>3, <1>4, LimitsStay

\* The alerts that are there already have been looked for.
LEMMA LookedKeepsLimits ==
  ASSUME NEW rows, NEW q, IsTx(q), q.at = "alerts", LimitsSoFar(rows, q), NEW due
  PROVE  LimitsSoFar(rows, Looked(q, due))
<1>1. PICK r : r = Looked(q, due)
  OBVIOUS
<1>2. /\ r.op = q.op /\ r.at = "commit" /\ r.period = q.period /\ r.first = q.first
      /\ r.mine = q.mine
  BY <1>1, LookedFields DEF Fieldwise
<1>3. View(rows, r) = View(rows, q) /\ Recalculated(r) = Recalculated(q)
  BY <1>2 DEF View, Recalculated, Closing
<1>4. LimitsSoFar(rows, r)
  BY <1>2, <1>3 DEF LimitsSoFar
<1>5. QED
  BY <1>1, <1>4

-----------------------------------------------------------------------------
(* The ledgers, while one client alone sends requests *)

\* What the ledger of period p goes on from.
Opening(rows, p) ==
    IF p > 1 /\ Exists(rows, Ledger(p - 1)) THEN rows[Ledger(p - 1)].closing ELSE 0

\* The ledger of period p, if there is one, follows its movements and the
\* ledger before, which is there too.
LedgerOK(rows, p) ==
    Exists(rows, Ledger(p)) =>
        /\ rows[Ledger(p)] = NewLedger(rows, p, Opening(rows, p))
        /\ p > 1 => Exists(rows, Ledger(p - 1))

\* What a request leaves of the ledgers, as far as it has come, while nobody
\* else writes.
LedgersSoFar(rows, q) ==
    /\ q.at \in {"chain", "sum", "ledger"} =>
          \A p \in Periods : p < q.period => LedgerOK(View(rows, q), p)
    /\ q.at \in Budgets \union Closing => \A p \in Periods : LedgerOK(View(rows, q), p)
    /\ q.at \in {"sum", "ledger"} /\ q.period > 1 => Exists(View(rows, q), Ledger(q.period - 1))
    /\ q.at = "sum" => q.got.opening = Opening(View(rows, q), q.period)
    /\ q.at = "ledger" =>
          q.got = NewLedger(View(rows, q), q.period, Opening(View(rows, q), q.period))
    /\ q.op = "ledgers" =>
          \A p \in Periods : Ledger(p) \in DOMAIN q.mine /\ Exists(rows, Ledger(p))
                             => q.mine[Ledger(p)] = rows[Ledger(p)]

\* A ledger depends on its movements and the ledger before only.
LEMMA LedgerIfSame ==
  ASSUME NEW a, NEW b, NEW p, SameMovements(a, b, p)
  PROVE  /\ \A opening : NewLedger(b, p, opening) = NewLedger(a, p, opening)
         /\ /\ b[Ledger(p)] = a[Ledger(p)]
            /\ p > 1 => b[Ledger(p - 1)] = a[Ledger(p - 1)]
            /\ LedgerOK(a, p)
            => LedgerOK(b, p)
<1>1. ASSUME NEW kinds
      PROVE  Total(b, MovementsOf(b, p, kinds)) = Total(a, MovementsOf(a, p, kinds))
  <2>1. \A m \in MovementsOf(a, p, kinds) :
           m \in MovementsOf(b, p, kinds) /\ b[Movement(m)] = a[Movement(m)]
    BY DEF SameMovements, Elsewhere, MovementsOf, Exists
  <2>2. \A m \in MovementsOf(b, p, kinds) : m \in MovementsOf(a, p, kinds)
    BY DEF SameMovements, Elsewhere, MovementsOf, Exists
  <2>3. MovementsOf(b, p, kinds) = MovementsOf(a, p, kinds)
    BY <2>1, <2>2
  <2>4. [m \in MovementsOf(b, p, kinds) |-> b[Movement(m)].amount]
        = [m \in MovementsOf(a, p, kinds) |-> a[Movement(m)].amount]
    BY <2>1, <2>3
  <2>5. QED
    BY <2>4 DEF Total
<1>2. \A opening : NewLedger(b, p, opening) = NewLedger(a, p, opening)
  BY <1>1 DEF NewLedger
<1>3. ASSUME b[Ledger(p)] = a[Ledger(p)], p > 1 => b[Ledger(p - 1)] = a[Ledger(p - 1)],
             LedgerOK(a, p)
      PROVE  LedgerOK(b, p)
  <2>1. Opening(b, p) = Opening(a, p) /\ (p > 1 => (Exists(b, Ledger(p - 1)) <=> Exists(a, Ledger(p - 1))))
    BY <1>3 DEF Opening, Exists
  <2>2. Exists(b, Ledger(p)) <=> Exists(a, Ledger(p))
    BY <1>3 DEF Exists
  <2>3. QED
    BY <1>2, <1>3, <2>1, <2>2 DEF LedgerOK
<1>4. QED
  BY <1>2, <1>3

\* What is written over the rows leaves the ledgers right if it touches neither
\* movements nor ledgers.
LEMMA WritesKeepLedgers ==
  ASSUME NEW rows, Committed(rows), NEW new, NEW p \in Periods,
         \A m \in MovementIds : Movement(m) \notin DOMAIN new,
         \A n \in Periods : Ledger(n) \notin DOMAIN new,
         LedgerOK(rows, p)
  PROVE  LedgerOK(Over(new, rows), p)
<1>0. PICK view : view = Over(new, rows)
  OBVIOUS
<1>1. \A key \in Keys : key \notin DOMAIN new => view[key] = rows[key]
  BY <1>0 DEF Over, Committed
<1>2. SameMovements(rows, view, p)
  BY <1>1, TheKeys DEF SameMovements
<1>3. \A n \in Periods : view[Ledger(n)] = rows[Ledger(n)]
  BY <1>1, TheKeys
<1>4. view[Ledger(p)] = rows[Ledger(p)] /\ (p > 1 => view[Ledger(p - 1)] = rows[Ledger(p - 1)])
  <2>1. p > 1 => p - 1 \in Periods
    BY LastAssumption DEF Periods
  <2>2. QED
    BY <1>3, <2>1
<1>5. LedgerOK(view, p)
  BY <1>2, <1>4, LedgerIfSame
<1>6. QED
  BY <1>0, <1>5

\* Before the first period a request reaches, it sees the ledgers committed.
LEMMA LedgersBefore ==
  ASSUME NEW rows, Committed(rows), NEW q, MovesOK(rows, q), NEW p \in Periods,
         p < q.first \/ \A m \in MovementIds : Movement(m) \notin DOMAIN q.mine,
         \A n \in Periods : Ledger(n) \notin DOMAIN q.mine,
         LedgerOK(rows, p)
  PROVE  LedgerOK(View(rows, q), p)
<1>0. PICK view : view = View(rows, q)
  OBVIOUS
<1>1. SameMovements(rows, view, p)
  BY <1>0, MovementsBefore
<1>2. \A n \in Periods : view[Ledger(n)] = rows[Ledger(n)]
  BY <1>0, TheKeys DEF View, Over, Committed
<1>3. view[Ledger(p)] = rows[Ledger(p)] /\ (p > 1 => view[Ledger(p - 1)] = rows[Ledger(p - 1)])
  <2>1. p > 1 => p - 1 \in Periods
    BY LastAssumption DEF Periods
  <2>2. QED
    BY <1>2, <2>1
<1>4. LedgerOK(view, p)
  BY <1>1, <1>3, LedgerIfSame
<1>5. QED
  BY <1>0, <1>4

\* A request begins, or has written its first row: the ledgers before its period
\* are those committed, and all of them if it writes no movement.
LEMMA LedgersAtFirst ==
  ASSUME NEW rows, Committed(rows), \A p \in Periods : LedgerOK(rows, p),
         NEW q, MovesOK(rows, q), q.period \in Periods,
         \A n \in Periods : Ledger(n) \notin DOMAIN q.mine,
         \/ q.at = "write" /\ q.op # "ledgers"
         \/ q.at = "chain" /\ q.period = q.first
         \/ /\ q.at \in {"sources", "group"} /\ q.op # "ledgers"
            /\ \A m \in MovementIds : Movement(m) \notin DOMAIN q.mine
  PROVE  LedgersSoFar(rows, q)
<1>1. CASE q.at = "write" /\ q.op # "ledgers"
  BY <1>1 DEF LedgersSoFar, Budgets, Closing
<1>2. CASE q.at = "chain" /\ q.period = q.first
  <2>1. \A p \in Periods : p < q.period => LedgerOK(View(rows, q), p)
    BY <1>2, LedgersBefore
  <2>2. QED
    BY <1>2, <2>1 DEF LedgersSoFar, Budgets, Closing
<1>3. CASE /\ q.at \in {"sources", "group"} /\ q.op # "ledgers"
           /\ \A m \in MovementIds : Movement(m) \notin DOMAIN q.mine
  <2>1. \A p \in Periods : LedgerOK(View(rows, q), p)
    BY <1>3, LedgersBefore
  <2>2. QED
    BY <1>3, <2>1 DEF LedgersSoFar, Budgets, Closing
<1>4. QED
  BY <1>1, <1>2, <1>3

\* The cascade goes back to the first period whose ledger has one to go on from.
LEMMA ChainKeepsLedgers ==
  ASSUME NEW rows, NEW q, Shape(q), q.at = "chain", LedgersSoFar(rows, q),
         NEW start \in Periods, start <= q.period,
         start # 1 => Exists(View(rows, q), Ledger(start - 1)),
         NEW opening,
         opening = IF start = 1 THEN 0 ELSE View(rows, q)[Ledger(start - 1)].closing
  PROVE  LedgersSoFar(rows, Chained(q, start, opening))
<1>1. PICK r : r = Chained(q, start, opening)
  OBVIOUS
<1>2. /\ r.op = q.op /\ r.at = "sum" /\ r.period = start /\ r.mine = q.mine
      /\ r.got = [opening |-> opening]
  BY <1>1, ChainedFields DEF Fieldwise, Shape
<1>3. View(rows, r) = View(rows, q)
  BY <1>2 DEF View
<1>4. q.period \in Periods /\ \A p \in Periods : p \in Int /\ p >= 1
  BY DEF Shape, Periods
<1>5. \A p \in Periods : p < start => LedgerOK(View(rows, r), p)
  BY <1>3, <1>4 DEF LedgersSoFar
<1>6. opening = Opening(View(rows, r), start)
  BY <1>3, <1>4 DEF Opening
<1>7. start > 1 => Exists(View(rows, r), Ledger(start - 1))
  BY <1>3
<1>8. LedgersSoFar(rows, r)
  BY <1>2, <1>5, <1>6, <1>7 DEF LedgersSoFar, Budgets, Closing
<1>9. QED
  BY <1>1, <1>8

LEMMA SumKeepsLedgers ==
  ASSUME NEW rows, NEW q, IsTx(q), q.at = "sum", LedgersSoFar(rows, q),
         NEW ledger, ledger = NewLedger(View(rows, q), q.period, q.got.opening)
  PROVE  LedgersSoFar(rows, Summed(q, ledger))
<1>1. PICK r : r = Summed(q, ledger)
  OBVIOUS
<1>2. r.op = q.op /\ r.at = "ledger" /\ r.period = q.period /\ r.mine = q.mine /\ r.got = ledger
  BY <1>1, SummedFields DEF Fieldwise
<1>3. View(rows, r) = View(rows, q)
  BY <1>2 DEF View
<1>4. LedgersSoFar(rows, r)
  BY <1>2, <1>3 DEF LedgersSoFar, Budgets, Closing
<1>5. QED
  BY <1>1, <1>4

\* A ledger has been written: it is right, and so are those before it still.
LEMMA LedgerIsRight ==
  ASSUME NEW rows, Committed(rows), \A p \in Periods : LedgerOK(rows, p),
         NEW q, Shape(q), GotOK(q), OwnOK(q), q.at = "ledger", LedgersSoFar(rows, q),
         NEW r, \/ q.period < Last /\ r = NextLedger(q)
                \/ ~ (q.period < Last) /\ r = LastLedger(q)
  PROVE  LedgersSoFar(rows, r)
<1>1. PICK view, b : view = View(rows, q) /\ b = View(rows, r)
  OBVIOUS
<1>2. /\ r.op = q.op /\ r.mine = Over(Row(Ledger(q.period), q.got), q.mine)
      /\ \/ /\ r.at = "sum" /\ r.period = q.period + 1
            /\ r.got = [opening |-> q.got.closing] /\ q.period < Last
         \/ r.at \in {"sources", "commit"} /\ ~ (q.period < Last)
  BY NextLedgerFields, LastLedgerFields DEF Fieldwise, Shape
<1>3. /\ q.period \in Periods /\ q.period \in Int /\ Last \in Nat /\ q.got \in LedgerRow
      /\ \A p \in Periods : p \in Int /\ p <= Last /\ p >= 1 /\ (p > 1 => p - 1 \in Periods)
  BY LastAssumption DEF Shape, GotOK, Periods
<1>4. Committed(view)
  BY <1>1, ViewIsCommitted
<1>5. b = Over(Row(Ledger(q.period), q.got), view)
  BY <1>1, <1>2, OverTwice DEF View
<1>6. /\ b[Ledger(q.period)] = q.got
      /\ \A key \in Keys : key # Ledger(q.period) => b[key] = view[key]
  BY <1>4, <1>5 DEF Over, Row, Committed
<1>7. \A p \in Periods : SameMovements(view, b, p)
  BY <1>6, TheKeys, KeysApart DEF SameMovements
<1>8. \A p \in Periods : p # q.period => b[Ledger(p)] = view[Ledger(p)]
  BY <1>6, TheKeys, KeysApart
<1>9. Exists(b, Ledger(q.period))
  BY <1>3, <1>6, BudgetRowsAssumption DEF Exists
<1>10. /\ q.period > 1 => Exists(view, Ledger(q.period - 1))
       /\ q.got = NewLedger(view, q.period, Opening(view, q.period))
       /\ \A p \in Periods : p < q.period => LedgerOK(view, p)
  BY <1>1 DEF LedgersSoFar
<1>11. Opening(b, q.period) = Opening(view, q.period)
       /\ (q.period > 1 => Exists(b, Ledger(q.period - 1)))
  <2>1. q.period > 1 => b[Ledger(q.period - 1)] = view[Ledger(q.period - 1)]
    <3>1. q.period - 1 # q.period
      BY <1>3
    <3>2. QED
      BY <1>3, <1>8, <3>1
  <2>2. QED
    BY <1>10, <2>1 DEF Opening, Exists
<1>12. LedgerOK(b, q.period)
  <2>1. NewLedger(b, q.period, Opening(b, q.period)) = q.got
    BY <1>3, <1>7, <1>10, <1>11, LedgerIfSame
  <2>2. QED
    BY <1>6, <1>11, <2>1 DEF LedgerOK
<1>13. ASSUME NEW p \in Periods, p < q.period
       PROVE  LedgerOK(b, p)
  <2>1. b[Ledger(p)] = view[Ledger(p)]
    BY <1>3, <1>8, <1>13
  <2>2. p > 1 => b[Ledger(p - 1)] = view[Ledger(p - 1)]
    <3>1. p - 1 # q.period
      BY <1>3, <1>13
    <3>2. QED
      BY <1>3, <1>8, <3>1
  <2>3. QED
    BY <1>7, <1>10, <1>13, <2>1, <2>2, LedgerIfSame
<1>14. ASSUME r.op = "ledgers", NEW p \in Periods, Ledger(p) \in DOMAIN r.mine,
              Exists(rows, Ledger(p))
       PROVE  r.mine[Ledger(p)] = rows[Ledger(p)]
  <2>1. \A n \in Periods : Ledger(n) \in DOMAIN q.mine /\ Exists(rows, Ledger(n))
                           => q.mine[Ledger(n)] = rows[Ledger(n)]
    BY <1>2, <1>14 DEF LedgersSoFar
  <2>2. \A n \in Periods : Exists(rows, Ledger(n)) => view[Ledger(n)] = rows[Ledger(n)]
    BY <1>1, <2>1, TheKeys DEF View, Over, Committed
  <2>3. CASE p = q.period
    <3>1. r.mine[Ledger(p)] = q.got
      BY <1>2, <2>3 DEF Over, Row
    <3>2. SameMovements(rows, view, p)
      <4>1. \A m \in MovementIds : Movement(m) \notin DOMAIN q.mine
        BY <1>2, <1>14 DEF OwnOK
      <4>2. QED
        BY <1>1, <4>1, TheKeys DEF SameMovements, View, Over, Committed
    <3>3. /\ rows[Ledger(p)] = NewLedger(rows, p, Opening(rows, p))
          /\ p > 1 => Exists(rows, Ledger(p - 1))
      BY <1>14 DEF LedgerOK
    <3>4. Opening(view, p) = Opening(rows, p)
      <4>1. p > 1 => view[Ledger(p - 1)] = rows[Ledger(p - 1)]
        BY <1>3, <2>2, <3>3
      <4>2. QED
        BY <4>1 DEF Opening, Exists
    <3>5. NewLedger(view, p, Opening(rows, p)) = NewLedger(rows, p, Opening(rows, p))
      BY <3>2, LedgerIfSame
    <3>6. QED
      BY <1>10, <2>3, <3>1, <3>3, <3>4, <3>5
  <2>4. CASE p # q.period
    <3>1. Ledger(p) # Ledger(q.period)
      BY <2>4, KeysApart
    <3>2. Ledger(p) \in DOMAIN q.mine /\ r.mine[Ledger(p)] = q.mine[Ledger(p)]
      BY <1>2, <1>14, <3>1 DEF Over, Row
    <3>3. QED
      BY <1>14, <2>1, <3>2
  <2>5. QED
    BY <2>3, <2>4
<1>15. CASE r.at = "sum" /\ r.period = q.period + 1 /\ r.got = [opening |-> q.got.closing]
  <2>1. \A p \in Periods : p < r.period => LedgerOK(b, p)
    <3>1. \A p \in Periods : p < q.period + 1 => p < q.period \/ p = q.period
      BY <1>3 DEF Periods
    <3>2. QED
      BY <1>12, <1>13, <1>15, <3>1
  <2>2. r.period > 1 /\ r.period - 1 = q.period
    BY <1>3, <1>15
  <2>3. r.got.opening = Opening(b, r.period)
    BY <1>6, <1>9, <1>15, <2>2 DEF Opening
  <2>4. QED
    BY <1>1, <1>9, <1>14, <1>15, <2>1, <2>2, <2>3 DEF LedgersSoFar, Budgets, Closing
<1>16. CASE r.at \in {"sources", "commit"} /\ ~ (q.period < Last)
  <2>1. \A p \in Periods : p < q.period \/ p = q.period
    BY <1>3, <1>16
  <2>2. \A p \in Periods : LedgerOK(b, p)
    BY <1>12, <1>13, <2>1
  <2>3. QED
    BY <1>1, <1>14, <1>16, <2>2 DEF LedgersSoFar
<1>17. QED
  BY <1>2, <1>15, <1>16

\* Statements that write nothing, once the ledgers are there.
LEMMA ReadsKeepLedgers ==
  ASSUME NEW rows, NEW q, q.at \in Budgets \union Closing, LedgersSoFar(rows, q),
         NEW r, r.op = q.op, r.mine = q.mine,
         \/ r.at \in Budgets \union Closing
         \/ r.at = "chain"
  PROVE  LedgersSoFar(rows, r)
<1>1. View(rows, r) = View(rows, q)
  BY DEF View
<1>2. \A p \in Periods : LedgerOK(View(rows, r), p)
  BY <1>1 DEF LedgersSoFar
<1>3. QED
  BY <1>2 DEF LedgersSoFar, Budgets, Closing

\* Statements that write budgets.
LEMMA BudgetsKeepLedgers ==
  ASSUME NEW rows, Committed(rows), NEW q, Shape(q), q.at \in Budgets, LedgersSoFar(rows, q),
         NEW new, \A key \in DOMAIN new : \E n \in Periods, k \in Categories : key = Budget(n, k),
         NEW r, r.op = q.op, r.mine = Over(new, q.mine), r.at \in Budgets \union Closing
  PROVE  LedgersSoFar(rows, r)
<1>1. PICK view : view = View(rows, q)
  OBVIOUS
<1>2. Committed(view) /\ \A p \in Periods : LedgerOK(view, p)
  BY <1>1, ViewIsCommitted DEF LedgersSoFar
<1>3. View(rows, r) = Over(new, view)
  BY <1>1, OverTwice DEF View
<1>4. /\ \A m \in MovementIds : Movement(m) \notin DOMAIN new
      /\ \A n \in Periods : Ledger(n) \notin DOMAIN new
  BY KeysApart
<1>5. \A p \in Periods : LedgerOK(View(rows, r), p)
  BY <1>2, <1>3, <1>4, WritesKeepLedgers
<1>6. r.op # "ledgers"
  BY DEF Shape, Budgets
<1>7. QED
  BY <1>5, <1>6 DEF LedgersSoFar, Budgets, Closing

-----------------------------------------------------------------------------
(* The limits while requests overlap *)

\* The requests that may overlap without leaving a limit wrong.
SettlingTeam(team) ==
    /\ \A c \in Clients : team[c] \subseteq {"add", "change", "recalculate"}
    /\ \A c, d \in Clients : "change" \in team[c] /\ "change" \in team[d] => c = d

\* Inductive beside Inv.
LimitsInv ==
    /\ AloneTeam(sends) \/ SettlingTeam(sends)
    /\ \A c \in Clients : tx[c] # Idle => LimitsSoFar(db, tx[c])
    /\ AloneTeam(sends) =>
          /\ \A p \in Periods : LedgerOK(db, p)
          /\ \A c \in Clients : tx[c] # Idle => LedgersSoFar(db, tx[c])

\* What the request of c has found out and written so far is right.
Onward(q) == LimitsSoFar(db, q) /\ (AloneTeam(sends) => LedgersSoFar(db, q))

\* While one client alone sends requests, nobody else has one in progress.
LEMMA OthersAreIdle ==
  ASSUME Inv, AloneTeam(sends), NEW c \in Clients, sends[c] # {}
  PROVE  \A d \in Clients : d # c => tx[d] = Idle
<1>1. PICK e \in Clients : \A d \in Clients : d # e => sends[d] = {}
  BY DEF AloneTeam
<1>2. e = c
  BY <1>1
<1>3. \A d \in Clients : tx[d] # Idle => sends[d] # {}
  BY DEF Inv, RequestsOK
<1>4. QED
  BY <1>1, <1>2, <1>3

\* A step of the transaction of c, which begins or goes on.
LEMMA StepLimits ==
  ASSUME Inv, LimitsInv, NEW c \in Clients, NEW r, Becomes(c, r), Onward(r)
  PROVE  LimitsInv'
<1>1. tx' = [tx EXCEPT ![c] = r] /\ tx = [d \in Clients |-> tx[d]] /\ db' = db /\ sends' = sends
  BY DEF Becomes, Inv, RequestsOK
<1>2. tx'[c] = r /\ \A d \in Clients \ {c} : tx'[d] = tx[d]
  BY <1>1
<1>3. ASSUME NEW d \in Clients, tx'[d] # Idle
      PROVE  LimitsSoFar(db, tx'[d]) /\ (AloneTeam(sends) => LedgersSoFar(db, tx'[d]))
  BY <1>2, <1>3 DEF LimitsInv, Onward
<1>4. ASSUME NEW d \in Clients, tx'[d] # Idle
      PROVE  LimitsSoFar(db, tx[d])' /\ (AloneTeam(sends) => LedgersSoFar(db, tx[d])')
  <2>1. PICK q : q = tx'[d]
    OBVIOUS
  <2>2. LimitsSoFar(db, q) /\ (AloneTeam(sends) => LedgersSoFar(db, q))
    BY <1>3, <1>4, <2>1
  <2>3. QED
    BY <1>1, <2>1, <2>2
<1>5. AloneTeam(sends) => \A p \in Periods : LedgerOK(db, p)'
  <2>1. PICK rows : rows = db
    OBVIOUS
  <2>2. AloneTeam(sends) => \A p \in Periods : LedgerOK(rows, p)
    BY <2>1 DEF LimitsInv
  <2>3. QED
    BY <1>1, <2>1, <2>2
<1>6. AloneTeam(sends') \/ SettlingTeam(sends')
  BY <1>1 DEF LimitsInv
<1>7. QED
  BY <1>1, <1>4, <1>5, <1>6 DEF LimitsInv

\* A step that leaves c, or nobody, without its transaction.
LEMMA CommittedLimits ==
  ASSUME Inv, LimitsInv, NEW others \in SUBSET Clients, NEW rows, db' = rows, sends' = sends,
         tx' = [d \in Clients |-> IF d \in others THEN tx[d] ELSE Idle],
         \A d \in others : tx[d] # Idle => LimitsSoFar(rows, tx[d]),
         AloneTeam(sends) =>
            /\ \A p \in Periods : LedgerOK(rows, p)
            /\ \A d \in others : tx[d] # Idle => LedgersSoFar(rows, tx[d])
  PROVE  LimitsInv'
<1>1. \A d \in Clients : tx'[d] # Idle => d \in others /\ tx'[d] = tx[d]
  OBVIOUS
<1>2. ASSUME NEW d \in Clients, tx'[d] # Idle
      PROVE  LimitsSoFar(db, tx[d])' /\ (AloneTeam(sends) => LedgersSoFar(db, tx[d])')
  <2>1. PICK q : q = tx'[d]
    OBVIOUS
  <2>2. d \in others /\ q = tx[d]
    BY <1>1, <1>2, <2>1
  <2>3. LimitsSoFar(rows, q) /\ (AloneTeam(sends) => LedgersSoFar(rows, q))
    BY <1>2, <2>1, <2>2
  <2>4. QED
    BY <2>1, <2>3
<1>3. AloneTeam(sends) => \A p \in Periods : LedgerOK(db, p)'
  OBVIOUS
<1>4. AloneTeam(sends') \/ SettlingTeam(sends')
  BY DEF LimitsInv
<1>5. QED
  BY <1>2, <1>3, <1>4 DEF LimitsInv

\* What the invariants say of the transaction of c and the rows.
LEMMA OfLimitsInv ==
  ASSUME Inv, LimitsInv, NEW c \in Clients, NEW q, q = tx[c], q # Idle
  PROVE  /\ Committed(db) /\ Settled(db) /\ Clear(c)
         /\ IsTx(q) /\ Shape(q) /\ GotOK(q) /\ OwnOK(q) /\ MovesOK(db, q)
         /\ TxInv(db, alerts, q)
         /\ LimitsSoFar(db, q)
         /\ AloneTeam(sends) => /\ \A p \in Periods : LedgerOK(db, p)
                                /\ LedgersSoFar(db, q)
<1>1. Settled(db) /\ Clear(c) /\ IsTx(q) /\ Shape(q) /\ TxInv(db, alerts, q)
  BY OfInv
<1>2. QED
  BY <1>1 DEF TxInv, Settled, LimitsInv

LEMMA WriteRowLimits ==
  ASSUME Inv, LimitsInv, NEW c \in Clients, WriteRow(c)
  PROVE  LimitsInv'
<1>1. PICK q : q = tx[c]
  OBVIOUS
<1>2. q # Idle
  BY <1>1 DEF WriteRow, At
<1>3. PICK r : r = Written(q)
  OBVIOUS
<1>4. /\ Settled(db) /\ Committed(db) /\ Clear(c) /\ IsTx(q) /\ Shape(q) /\ GotOK(q)
      /\ TxInv(db, alerts, q)
      /\ AloneTeam(sends) => \A p \in Periods : LedgerOK(db, p)
  BY <1>1, <1>2, OfLimitsInv
<1>5. q.at = "write" /\ Becomes(c, r)
  BY <1>1, <1>3, <1>4, WriteRowDoes
<1>6. q.op \in {"change", "fixed"} /\ DOMAIN q.mine = {}
  BY <1>4, <1>5 DEF Shape
<1>7. TxInv(db, alerts, r)
  BY <1>3, <1>4, <1>5, <1>6, MovementWritten, FixedWritten
<1>8. /\ r.op = q.op /\ r.at = IF q.op = "fixed" THEN "sources" ELSE "chain"
      /\ r.period = q.period /\ r.first = q.first
      /\ r.mine = Over(Row(q.got.key, q.got.row), q.mine)
  BY <1>3, <1>4, WrittenFields DEF Fieldwise
<1>9. DOMAIN r.mine = {q.got.key}
  BY <1>6, <1>8 DEF Over, Row
<1>10. /\ q.period \in Periods /\ q.first \in Periods /\ q.period = q.first
  BY <1>4, <1>5 DEF Shape
<1>11. /\ q.op = "change" => \E m \in MovementIds : q.got.key = Movement(m)
       /\ q.op = "fixed" => \E f \in FixedIds : q.got.key = Fixed(f)
  BY <1>4, <1>5 DEF GotOK
<1>12. LimitsSoFar(db, r)
  BY <1>6, <1>8, <1>10, NothingRecalculated DEF Early
<1>13. ASSUME AloneTeam(sends)
       PROVE  LedgersSoFar(db, r)
  <2>1. \A n \in Periods : Ledger(n) \notin DOMAIN r.mine
    BY <1>6, <1>9, <1>11, KeysApart
  <2>2. q.op = "fixed" => \A m \in MovementIds : Movement(m) \notin DOMAIN r.mine
    BY <1>9, <1>11, KeysApart
  <2>3. MovesOK(db, r)
    BY <1>7 DEF TxInv
  <2>4. QED
    BY <1>4, <1>6, <1>8, <1>10, <1>13, <2>1, <2>2, <2>3, LedgersAtFirst
<1>14. QED
  BY <1>5, <1>12, <1>13, StepLimits DEF Onward

LEMMA ReadChainLimits ==
  ASSUME Inv, LimitsInv, NEW c \in Clients, ReadChain(c)
  PROVE  LimitsInv'
<1>1. PICK q, rows : q = tx[c] /\ rows = View(db, q)
  OBVIOUS
<1>2. q # Idle
  BY <1>1 DEF ReadChain, At
<1>3. /\ Committed(db) /\ Clear(c) /\ IsTx(q) /\ Shape(q)
      /\ AloneTeam(sends) => LedgersSoFar(db, q)
  BY <1>1, <1>2, OfLimitsInv
<1>4. PICK start : start = Max({p \in 1..q.period : p = 1 \/ Exists(rows, Ledger(p - 1))})
  OBVIOUS
<1>5. PICK opening : opening = IF start = 1 THEN 0 ELSE rows[Ledger(start - 1)].closing
  OBVIOUS
<1>6. PICK r : r = Chained(q, start, opening)
  OBVIOUS
<1>7. Seen(c) = rows
  BY <1>1 DEF Seen, View
<1>8. q.at = "chain" /\ Becomes(c, r)
  BY <1>1, <1>3, <1>4, <1>5, <1>6, <1>7, ReadChainDoes
<1>9. q.period \in Periods /\ Last \in Periods /\ q.op # "resetSpent"
  BY <1>3, <1>8, LastIsPeriod DEF Shape
<1>10. /\ start \in Periods /\ start <= q.period
       /\ start # 1 => Exists(rows, Ledger(start - 1))
  BY <1>1, <1>3, <1>4, <1>9, ViewIsCommitted, CascadeStart
<1>11. /\ r.op = q.op /\ r.at = "sum" /\ r.period = start
       /\ r.first = IF q.op = "fixed" THEN Last ELSE start
  <2>1. Fieldwise(r, q, "sum", start, IF q.op = "fixed" THEN Last ELSE start, q.due, q.mine)
    BY <1>3, <1>6, ChainedFields
  <2>2. QED
    BY <2>1 DEF Fieldwise
<1>12. LimitsSoFar(db, r)
  BY <1>9, <1>10, <1>11, NothingRecalculated DEF Early
<1>13. AloneTeam(sends) => LedgersSoFar(db, r)
  BY <1>1, <1>3, <1>5, <1>6, <1>8, <1>10, ChainKeepsLedgers
<1>14. QED
  BY <1>8, <1>12, <1>13, StepLimits DEF Onward

LEMMA SumMovementsLimits ==
  ASSUME Inv, LimitsInv, NEW c \in Clients, SumMovements(c)
  PROVE  LimitsInv'
<1>1. PICK q : q = tx[c]
  OBVIOUS
<1>2. q # Idle
  BY <1>1 DEF SumMovements, At
<1>3. Clear(c) /\ IsTx(q) /\ Shape(q) /\ (AloneTeam(sends) => LedgersSoFar(db, q))
  BY <1>1, <1>2, OfLimitsInv
<1>4. PICK ledger : ledger = NewLedger(View(db, q), q.period, q.got.opening)
  OBVIOUS
<1>5. PICK r : r = Summed(q, ledger)
  OBVIOUS
<1>6. Seen(c) = View(db, q)
  BY <1>1 DEF Seen, View
<1>7. q.at = "sum" /\ Becomes(c, r)
  BY <1>1, <1>3, <1>4, <1>5, <1>6, SumMovementsDoes
<1>8. /\ r.op = q.op /\ r.at = "ledger" /\ r.period = q.period /\ r.first = q.first
      /\ q.period \in Periods /\ q.first \in Periods /\ q.op # "resetSpent"
  BY <1>3, <1>5, <1>7, SummedFields DEF Fieldwise, Shape
<1>9. LimitsSoFar(db, r)
  BY <1>8, NothingRecalculated DEF Early
<1>10. AloneTeam(sends) => LedgersSoFar(db, r)
  BY <1>3, <1>4, <1>5, <1>7, SumKeepsLedgers
<1>11. QED
  BY <1>7, <1>9, <1>10, StepLimits DEF Onward

LEMMA WriteLedgerLimits ==
  ASSUME Inv, LimitsInv, NEW c \in Clients, WriteLedger(c)
  PROVE  LimitsInv'
<1>1. PICK q : q = tx[c]
  OBVIOUS
<1>2. q # Idle
  BY <1>1 DEF WriteLedger, At
<1>3. /\ Committed(db) /\ Clear(c) /\ IsTx(q) /\ Shape(q) /\ GotOK(q) /\ OwnOK(q)
      /\ AloneTeam(sends) => LedgersSoFar(db, q) /\ \A p \in Periods : LedgerOK(db, p)
  BY <1>1, <1>2, OfLimitsInv
<1>4. q.at = "ledger"
  BY <1>1, <1>3, WriteLedgerDoes
<1>5. PICK r : /\ Becomes(c, r)
               /\ \/ q.period < Last /\ r = NextLedger(q)
                  \/ ~ (q.period < Last) /\ r = LastLedger(q)
  BY <1>1, <1>3, WriteLedgerDoes
<1>6. /\ r.op = q.op /\ r.first = q.first
      /\ \/ q.period < Last /\ r.at = "sum" /\ r.period = q.period + 1
         \/ /\ r.at = (IF q.op = "ledgers" THEN "commit" ELSE "sources") /\ r.period = q.first
  BY <1>3, <1>5, NextLedgerFields, LastLedgerFields DEF Fieldwise
<1>7. q.period \in Periods /\ q.first \in Periods /\ q.op # "resetSpent"
  BY <1>3, <1>4 DEF Shape
<1>8. r.period \in Periods
  BY <1>6, <1>7, LastAssumption DEF Periods
<1>9. LimitsSoFar(db, r)
  BY <1>6, <1>7, <1>8, NothingRecalculated DEF Early
<1>10. AloneTeam(sends) => LedgersSoFar(db, r)
  BY <1>3, <1>4, <1>5, LedgerIsRight
<1>11. QED
  BY <1>5, <1>9, <1>10, StepLimits DEF Onward

LEMMA BuildLedgerLimits ==
  ASSUME Inv, LimitsInv, NEW c \in Clients, BuildLedger(c)
  PROVE  LimitsInv'
<1>1. PICK q : q = tx[c]
  OBVIOUS
<1>2. q # Idle
  BY <1>1 DEF BuildLedger, At
<1>3. Clear(c) /\ IsTx(q) /\ Shape(q) /\ (AloneTeam(sends) => LedgersSoFar(db, q))
  BY <1>1, <1>2, OfLimitsInv
<1>4. PICK r : r = Built(q)
  OBVIOUS
<1>5. q.at = "sources" /\ Becomes(c, r)
  BY <1>1, <1>3, <1>4, BuildLedgerDoes
<1>6. /\ r.op = q.op /\ r.at = "chain" /\ r.period = q.period /\ r.first = q.first
      /\ r.mine = q.mine
      /\ q.period \in Periods /\ q.first \in Periods /\ q.op # "resetSpent"
  BY <1>3, <1>4, <1>5, BuiltFields DEF Fieldwise, Shape
<1>7. LimitsSoFar(db, r)
  BY <1>6, NothingRecalculated DEF Early
<1>8. AloneTeam(sends) => LedgersSoFar(db, r)
  BY <1>3, <1>5, <1>6, ReadsKeepLedgers DEF Budgets
<1>9. QED
  BY <1>5, <1>7, <1>8, StepLimits DEF Onward

LEMMA ReadSourcesLimits ==
  ASSUME Inv, LimitsInv, NEW c \in Clients, ReadSources(c)
  PROVE  LimitsInv'
<1>1. PICK q, rows : q = tx[c] /\ rows = View(db, q)
  OBVIOUS
<1>2. q # Idle
  BY <1>1 DEF ReadSources, At
<1>3. /\ Clear(c) /\ IsTx(q) /\ LimitsSoFar(db, q)
      /\ AloneTeam(sends) => LedgersSoFar(db, q)
  BY <1>1, <1>2, OfLimitsInv
<1>4. PICK limits, due : /\ limits = [k \in Limited(rows, q.period) |->
                                         [limit |-> Limit(rows, q.period, k), rank |-> Rank(rows, k)]]
                         /\ due = IF q.period = Last THEN Due(rows) ELSE {}
  OBVIOUS
<1>5. PICK r : r = Sourced(q, limits, due)
  OBVIOUS
<1>6. q.at = "sources" /\ Exists(rows, Ledger(q.period)) /\ Becomes(c, r)
  BY <1>1, <1>3, <1>4, <1>5, ReadSourcesDoes
<1>7. r.op = q.op /\ r.at = "limits" /\ r.mine = q.mine
  BY <1>3, <1>5, SourcedFields DEF Fieldwise
<1>8. LimitsSoFar(db, r)
  BY <1>1, <1>3, <1>4, <1>5, <1>6, LimitsKnown
<1>9. AloneTeam(sends) => LedgersSoFar(db, r)
  BY <1>3, <1>6, <1>7, ReadsKeepLedgers DEF Budgets
<1>10. QED
  BY <1>6, <1>8, <1>9, StepLimits DEF Onward

LEMMA WriteBudgetLimits ==
  ASSUME Inv, LimitsInv, NEW c \in Clients, NEW q, q = tx[c], q # Idle,
         NEW k \in DOMAIN q.got, NEW field, NEW value, Writes(q, k, field, value),
         Becomes(c, WithBudget(db, q, k, field, value))
  PROVE  LimitsInv'
<1>1. PICK r, new : r = WithBudget(db, q, k, field, value) /\ new = BudgetOf(db, q, k, field, value)
  OBVIOUS
<1>2. /\ Committed(db) /\ IsTx(q) /\ Shape(q) /\ GotOK(q) /\ OwnOK(q) /\ LimitsSoFar(db, q)
      /\ AloneTeam(sends) => LedgersSoFar(db, q)
  BY OfLimitsInv
<1>3. LimitsSoFar(db, r)
  BY <1>1, <1>2, BudgetKeepsLimits
<1>4. r.op = q.op /\ r.at = q.at /\ r.mine = Over(new, q.mine)
  <2>1. Fieldwise(r, q, q.at, q.period, q.first, q.due, Over(new, q.mine))
    BY <1>1, <1>2, WithBudgetFields, Zenon
  <2>2. QED
    BY <2>1 DEF Fieldwise
<1>5. \A key \in DOMAIN new : \E n \in Periods, j \in Categories : key = Budget(n, j)
  <2>1. k \in Categories /\ q.period \in Periods
    BY <1>2 DEF Shape, GotOK, Writes
  <2>2. DOMAIN new = {Budget(q.period, k)}
    BY <1>1 DEF BudgetOf, Row
  <2>3. QED
    BY <2>1, <2>2
<1>6. q.at \in Budgets
  BY DEF Writes, Budgets
<1>7. AloneTeam(sends) => LedgersSoFar(db, r)
  BY <1>2, <1>4, <1>5, <1>6, BudgetsKeepLedgers
<1>8. QED
  BY <1>1, <1>3, <1>7, StepLimits DEF Onward

LEMMA WriteLimitsLimits ==
  ASSUME Inv, LimitsInv, NEW c \in Clients, WriteLimits(c)
  PROVE  LimitsInv'
<1>1. PICK q : q = tx[c]
  OBVIOUS
<1>2. q # Idle
  BY <1>1 DEF WriteLimits, At
<1>3. Clear(c)
  BY <1>1, <1>2, OfInv
<1>4. PICK k \in DOMAIN q.got :
         /\ q.at = "limits"
         /\ Becomes(c, WithBudget(db, q, k, "limit", q.got[k].limit))
  BY <1>1, <1>3, WriteLimitsDoes
<1>5. QED
  BY <1>1, <1>2, <1>4, WriteBudgetLimits DEF Writes

LEMMA GroupSpentLimits ==
  ASSUME Inv, LimitsInv, NEW c \in Clients, GroupSpent(c)
  PROVE  LimitsInv'
<1>1. PICK q : q = tx[c]
  OBVIOUS
<1>2. q # Idle
  BY <1>1 DEF GroupSpent, At
<1>3. /\ Clear(c) /\ Committed(db) /\ IsTx(q) /\ Shape(q) /\ LimitsSoFar(db, q)
      /\ AloneTeam(sends) => LedgersSoFar(db, q)
  BY <1>1, <1>2, OfLimitsInv
<1>4. PICK groups : /\ q.at = "group" \/ (q.at = "limits" /\ DOMAIN q.got = {})
                    /\ Becomes(c, Grouped(q, groups))
  BY <1>1, <1>3, GroupSpentDoes
<1>5. PICK r : r = Grouped(q, groups)
  OBVIOUS
<1>6. r.op = q.op /\ r.at = "spent" /\ r.mine = q.mine
  BY <1>3, <1>5, GroupedFields DEF Fieldwise
<1>7. LimitsSoFar(db, r)
  BY <1>3, <1>4, <1>5, GroupsKeepLimits
<1>8. AloneTeam(sends) => LedgersSoFar(db, r)
  BY <1>3, <1>4, <1>6, ReadsKeepLedgers DEF Budgets
<1>9. QED
  BY <1>4, <1>5, <1>7, <1>8, StepLimits DEF Onward

LEMMA WriteSpentLimits ==
  ASSUME Inv, LimitsInv, NEW c \in Clients, WriteSpent(c)
  PROVE  LimitsInv'
<1>1. PICK q : q = tx[c]
  OBVIOUS
<1>2. q # Idle
  BY <1>1 DEF WriteSpent
<1>3. Clear(c)
  BY <1>1, <1>2, OfInv
<1>4. PICK k \in DOMAIN q.got :
         /\ q.at \in {"spent", "unspent"}
         /\ Becomes(c, WithBudget(db, q, k, "spent", q.got[k]))
  BY <1>1, <1>3, WriteSpentDoes
<1>5. QED
  BY <1>1, <1>2, <1>4, WriteBudgetLimits DEF Writes

LEMMA FindUnspentLimits ==
  ASSUME Inv, LimitsInv, NEW c \in Clients, FindUnspent(c)
  PROVE  LimitsInv'
<1>1. PICK q : q = tx[c]
  OBVIOUS
<1>2. q # Idle
  BY <1>1 DEF FindUnspent, At
<1>3. /\ Clear(c) /\ IsTx(q) /\ LimitsSoFar(db, q)
      /\ AloneTeam(sends) => LedgersSoFar(db, q)
  BY <1>1, <1>2, OfLimitsInv
<1>4. PICK left : q.at = "spent" /\ Becomes(c, Found(q, left))
  BY <1>1, <1>3, FindUnspentDoes
<1>5. PICK r : r = Found(q, left)
  OBVIOUS
<1>6. r.op = q.op /\ r.at = "unspent" /\ r.mine = q.mine
  BY <1>3, <1>5, FoundFields DEF Fieldwise
<1>7. LimitsSoFar(db, r)
  BY <1>3, <1>4, <1>5, FoundKeepsLimits
<1>8. AloneTeam(sends) => LedgersSoFar(db, r)
  BY <1>3, <1>4, <1>6, ReadsKeepLedgers DEF Budgets
<1>9. QED
  BY <1>4, <1>5, <1>7, <1>8, StepLimits DEF Onward

LEMMA EndPeriodLimits ==
  ASSUME Inv, LimitsInv, NEW c \in Clients, EndPeriod(c)
  PROVE  LimitsInv'
<1>1. PICK q : q = tx[c]
  OBVIOUS
<1>2. q # Idle
  BY <1>1 DEF EndPeriod, At
<1>3. /\ Clear(c) /\ IsTx(q) /\ Shape(q) /\ LimitsSoFar(db, q)
      /\ AloneTeam(sends) => LedgersSoFar(db, q)
  BY <1>1, <1>2, OfLimitsInv
<1>4. q.at = "unspent" /\ Becomes(c, WentOn(q))
  BY <1>1, <1>3, EndPeriodDoes
<1>5. PICK r : r = WentOn(q)
  OBVIOUS
<1>6. r.op = q.op /\ r.at \in {"commit", "sources", "alerts"} /\ r.mine = q.mine
  BY <1>3, <1>5, PassedFields DEF Fieldwise
<1>7. LimitsSoFar(db, r)
  BY <1>3, <1>4, <1>5, PassedKeepsLimits
<1>8. AloneTeam(sends) => LedgersSoFar(db, r)
  BY <1>3, <1>4, <1>6, ReadsKeepLedgers DEF Budgets, Closing
<1>9. QED
  BY <1>4, <1>5, <1>7, <1>8, StepLimits DEF Onward

LEMMA CreateOnceLimits ==
  ASSUME Inv, LimitsInv, NEW c \in Clients, CreateOnce(c)
  PROVE  LimitsInv'
<1>1. PICK q : q = tx[c]
  OBVIOUS
<1>2. q # Idle
  BY <1>1 DEF CreateOnce, At
<1>3. /\ Clear(c) /\ IsTx(q) /\ LimitsSoFar(db, q)
      /\ AloneTeam(sends) => LedgersSoFar(db, q)
  BY <1>1, <1>2, OfLimitsInv
<1>4. PICK r, due : q.at = "alerts" /\ Becomes(c, r) /\ r = Looked(q, due)
  BY <1>1, <1>3, CreateOnceDoes
<1>5. r.op = q.op /\ r.at = "commit" /\ r.mine = q.mine
  BY <1>3, <1>4, LookedFields DEF Fieldwise
<1>6. LimitsSoFar(db, r)
  BY <1>3, <1>4, LookedKeepsLimits
<1>7. AloneTeam(sends) => LedgersSoFar(db, r)
  BY <1>3, <1>4, <1>5, ReadsKeepLedgers DEF Closing
<1>8. QED
  BY <1>4, <1>6, <1>7, StepLimits DEF Onward

LEMMA RollbackLimits ==
  ASSUME Inv, LimitsInv, NEW c \in Clients, Rollback(c)
  PROVE  LimitsInv'
<1>1. tx = [d \in Clients |-> tx[d]]
  BY DEF Inv, RequestsOK
<1>2. tx' = [d \in Clients |-> IF d \in Clients \ {c} THEN tx[d] ELSE Idle]
  BY <1>1 DEF Rollback
<1>3. /\ \A d \in Clients : tx[d] # Idle => LimitsSoFar(db, tx[d])
      /\ AloneTeam(sends) => /\ \A p \in Periods : LedgerOK(db, p)
                             /\ \A d \in Clients : tx[d] # Idle => LedgersSoFar(db, tx[d])
  BY DEF LimitsInv
<1>4. QED
  BY <1>2, <1>3, CommittedLimits DEF Rollback

\* Those that overlap a commit have recalculated nothing yet.
LEMMA CommitLimits ==
  ASSUME Inv, LimitsInv, NEW c \in Clients, Commit(c)
  PROVE  LimitsInv'
<1>1. PICK q, rows : q = tx[c] /\ rows = View(db, q)
  OBVIOUS
<1>2. q # Idle /\ q.at = "commit"
  BY <1>1 DEF Commit, At
<1>3. /\ Clear(c) /\ q.op \in sends[c]
      /\ AloneTeam(sends) => LedgersSoFar(db, q)
  BY <1>1, <1>2, OfLimitsInv DEF Inv, RequestsOK
<1>4. db' = rows /\ sends' = sends
  BY <1>1 DEF Commit, Seen, View
<1>5. tx' = [d \in Clients |-> IF d \in Clients \ {c} THEN tx[d] ELSE Idle]
  BY <1>3 DEF Commit, Clear
<1>6. ASSUME NEW d \in Clients \ {c}, tx[d] # Idle
      PROVE  LimitsSoFar(rows, tx[d])
  <2>1. PICK r : r = tx[d]
    OBVIOUS
  <2>2. r.at \in Early
    BY <1>1, <1>2, <1>6, <2>1, OthersAreEarly DEF Closing
  <2>3. Shape(r)
    BY <1>6, <2>1, OfInv
  <2>4. r.op # "resetSpent" /\ r.period \in Periods /\ r.first \in Periods
    BY <2>2, <2>3 DEF Shape, Early
  <2>5. QED
    BY <2>1, <2>2, <2>4, NothingRecalculated
<1>7. ASSUME AloneTeam(sends)
      PROVE  /\ \A p \in Periods : LedgerOK(rows, p)
             /\ \A d \in Clients \ {c} : tx[d] = Idle
  <2>1. \A p \in Periods : LedgerOK(rows, p)
    BY <1>1, <1>2, <1>3, <1>7 DEF LedgersSoFar, Closing
  <2>2. sends[c] # {}
    BY <1>3
  <2>3. QED
    BY <1>7, <2>1, <2>2, OthersAreIdle
<1>8. QED
  BY <1>4, <1>5, <1>6, <1>7, CommittedLimits

\* Rules, targets and limits set by hand leave the ledgers as they are.  Only a
\* client that is alone sends them.
LEMMA SettingLimits ==
  ASSUME Inv, LimitsInv, NEW c \in Clients, NEW key, NEW row, Set(c, key, row),
         \A m \in MovementIds : key # Movement(m),
         \A p \in Periods : key # Ledger(p)
  PROVE  LimitsInv'
<1>1. PICK rows : rows = [db EXCEPT ![key] = row]
  OBVIOUS
<1>2. DOMAIN db = Keys
  BY DEF Inv, TablesOK
<1>3. tx[c] = Idle /\ "set" \in sends[c] /\ db' = rows /\ tx' = tx /\ sends' = sends
  BY <1>1 DEF Set
<1>4. AloneTeam(sends)
  BY <1>3 DEF LimitsInv, SettlingTeam
<1>5. \A d \in Clients : tx[d] = Idle
  <2>1. sends[c] # {}
    BY <1>3
  <2>2. QED
    BY <1>3, <1>4, <2>1, OthersAreIdle
<1>6. /\ \A m \in MovementIds : rows[Movement(m)] = db[Movement(m)]
      /\ \A p \in Periods : rows[Ledger(p)] = db[Ledger(p)]
  BY <1>1, <1>2, TheKeys
<1>7. ASSUME NEW p \in Periods
      PROVE  LedgerOK(rows, p)
  <2>1. SameMovements(db, rows, p)
    BY <1>6 DEF SameMovements
  <2>2. p > 1 => p - 1 \in Periods
    BY LastAssumption DEF Periods
  <2>3. rows[Ledger(p)] = db[Ledger(p)] /\ (p > 1 => rows[Ledger(p - 1)] = db[Ledger(p - 1)])
    BY <1>6, <2>2
  <2>4. LedgerOK(db, p)
    BY <1>4 DEF LimitsInv
  <2>5. QED
    BY <2>1, <2>3, <2>4, LedgerIfSame
<1>8. tx' = [d \in Clients |-> IF d \in Clients THEN tx[d] ELSE Idle]
  <2>1. tx = [d \in Clients |-> tx[d]]
    BY DEF Inv, RequestsOK
  <2>2. QED
    BY <1>3, <2>1
<1>9. QED
  BY <1>3, <1>5, <1>7, <1>8, CommittedLimits

\* Where a request is when it begins, and what it may have written.
Beginning(op, at, mine) ==
    /\ \A n \in Periods : Ledger(n) \notin DOMAIN mine
    /\ \/ at = "chain" /\ op # "resetSpent"
       \/ at = "write" /\ op \in {"change", "fixed"}
       \/ /\ at = "sources" /\ op = "fixed"
          /\ \A m \in MovementIds : Movement(m) \notin DOMAIN mine
       \/ at = "group" /\ op = "resetSpent" /\ DOMAIN mine = {}

LEMMA BeginLimits ==
  ASSUME Inv, LimitsInv, NEW c \in Clients, NEW op, NEW at, NEW p, NEW got, NEW mine,
         Begin(c, op, at, p, got, mine), Beginning(op, at, mine),
         NEW r, r = BeginTx(op, at, p, got, mine), TxInv(db, alerts, r)
  PROVE  LimitsInv'
<1>1. Becomes(c, r)
  BY BeginDoes
<1>2. /\ r.op = op /\ r.at = at /\ r.period = p /\ r.first = p /\ r.mine = mine
  BY BeginFields
<1>3. p \in Periods /\ MovesOK(db, r)
  BY <1>2 DEF TxInv, Shape
<1>4. LimitsSoFar(db, r)
  BY <1>2, <1>3, NothingRecalculated DEF Early, Beginning
<1>5. ASSUME AloneTeam(sends)
      PROVE  LedgersSoFar(db, r)
  <2>1. Committed(db)
    BY OfInv DEF Settled
  <2>2. \A n \in Periods : LedgerOK(db, n)
    BY <1>5 DEF LimitsInv
  <2>3. QED
    BY <1>2, <1>3, <2>1, <2>2, LedgersAtFirst DEF Beginning
<1>6. QED
  BY <1>1, <1>4, <1>5, StepLimits DEF Onward

LEMMA RequestLimits ==
  ASSUME Inv, LimitsInv, NEW c \in Clients, Request(c)
  PROVE  LimitsInv'
<1>0. Settled(db) /\ DOMAIN NoRows = {}
  BY OfInv DEF NoRows
<1>1. ASSUME NEW m \in MovementIds, NEW row \in NewMovement, Add(c, m, row)
      PROVE  LimitsInv'
  <2>1. PICK mine : mine = Row(Movement(m), row)
    OBVIOUS
  <2>2. PICK r : r = BeginTx("add", "chain", row.period, <<>>, mine)
    OBVIOUS
  <2>3. TxInv(db, alerts, r)
    BY <1>0, <1>1, <2>1, <2>2, AddBegins DEF Add
  <2>4. Beginning("add", "chain", mine)
    BY <2>1, KeysApart DEF Row, Beginning
  <2>5. Begin(c, "add", "chain", row.period, <<>>, mine)
    BY <1>1, <2>1 DEF Add
  <2>6. QED
    BY <2>2, <2>3, <2>4, <2>5, BeginLimits
<1>2. ASSUME NEW m \in MovementIds, NEW row \in NewMovement \union {Gone}, Change(c, m, row)
      PROVE  LimitsInv'
  <2>1. PICK from, got : /\ from = Affected(db[Movement(m)], row)
                         /\ got = [key |-> Movement(m), row |-> row]
    OBVIOUS
  <2>2. PICK r : r = BeginTx("change", "write", from, got, NoRows)
    OBVIOUS
  <2>3. TxInv(db, alerts, r)
    BY <1>0, <1>2, <2>1, <2>2, ChangeBegins DEF Change
  <2>4. Begin(c, "change", "write", from, got, NoRows)
    BY <1>2, <2>1 DEF Change
  <2>5. Beginning("change", "write", NoRows)
    BY <1>0 DEF Beginning
  <2>6. QED
    BY <2>2, <2>3, <2>4, <2>5, BeginLimits
<1>3. ASSUME NEW p \in Periods, Recalculate(c, p)
      PROVE  LimitsInv'
  <2>1. PICK op \in {"recalculate", "ledgers"} : Begin(c, op, "chain", p, <<>>, NoRows)
    BY <1>3 DEF Recalculate
  <2>2. PICK r : r = BeginTx(op, "chain", p, <<>>, NoRows)
    OBVIOUS
  <2>3. TxInv(db, alerts, r)
    BY <1>0, <2>2, RecalculateBegins
  <2>4. Beginning(op, "chain", NoRows)
    BY <1>0 DEF Beginning
  <2>5. QED
    BY <2>1, <2>2, <2>3, <2>4, BeginLimits
<1>4. ASSUME NEW p \in Periods, ResetSpent(c, p)
      PROVE  LimitsInv'
  <2>1. PICK r : r = BeginTx("resetSpent", "group", p, <<>>, NoRows)
    OBVIOUS
  <2>2. TxInv(db, alerts, r)
    BY <1>0, <2>1, ResetBegins
  <2>3. Begin(c, "resetSpent", "group", p, <<>>, NoRows)
    BY <1>4 DEF ResetSpent
  <2>4. Beginning("resetSpent", "group", NoRows)
    BY <1>0 DEF Beginning
  <2>5. QED
    BY <2>1, <2>2, <2>3, <2>4, BeginLimits
<1>5. ASSUME NEW f \in FixedIds, NEW row \in NewFixed, AddFixed(c, f, row)
      PROVE  LimitsInv'
  <2>1. PICK mine : mine = Row(Fixed(f), row)
    OBVIOUS
  <2>2. PICK r : r = BeginTx("fixed", "sources", Last, <<>>, mine)
    OBVIOUS
  <2>3. TxInv(db, alerts, r)
    BY <1>0, <2>1, <2>2, AddFixedBegins
  <2>4. Beginning("fixed", "sources", mine)
    BY <2>1, KeysApart DEF Row, Beginning
  <2>5. Begin(c, "fixed", "sources", Last, <<>>, mine)
    BY <1>5, <2>1 DEF AddFixed
  <2>6. QED
    BY <2>2, <2>3, <2>4, <2>5, BeginLimits
<1>6. ASSUME NEW f \in FixedIds, NEW row \in NewFixed \union {Gone}, ChangeFixed(c, f, row)
      PROVE  LimitsInv'
  <2>1. PICK got : got = [key |-> Fixed(f), row |-> row]
    OBVIOUS
  <2>2. PICK r : r = BeginTx("fixed", "write", Last, got, NoRows)
    OBVIOUS
  <2>3. TxInv(db, alerts, r)
    BY <1>0, <2>1, <2>2, ChangeFixedBegins
  <2>4. Begin(c, "fixed", "write", Last, got, NoRows)
    BY <1>6, <2>1 DEF ChangeFixed
  <2>5. Beginning("fixed", "write", NoRows)
    BY <1>0 DEF Beginning
  <2>6. QED
    BY <2>2, <2>3, <2>4, <2>5, BeginLimits
<1>7. ASSUME NEW k \in Categories, NEW percentage \in Percentages, Set(c, Rule(k), percentage)
      PROVE  LimitsInv'
  BY <1>7, KeysApart, SettingLimits
<1>8. ASSUME NEW key \in {Target, Required}, NEW row, Set(c, key, row)
      PROVE  LimitsInv'
  BY <1>8, KeysApart, SettingLimits
<1>9. ASSUME NEW p \in Periods, NEW k \in Categories, NEW amount \in Amounts,
             SetLimit(c, p, k, amount)
      PROVE  LimitsInv'
  BY <1>9, KeysApart, SettingLimits DEF SetLimit
<1>10. QED
  BY <1>1, <1>2, <1>3, <1>4, <1>5, <1>6, <1>7, <1>8, <1>9 DEF Request

LEMMA NextLimits ==
  ASSUME Inv, LimitsInv, [Next]_vars
  PROVE  LimitsInv'
<1>1. CASE Next
  <2>1. PICK c \in Clients : Request(c) \/ Statement(c) \/ Rollback(c)
    BY <1>1 DEF Next
  <2>2. CASE Request(c)
    BY <2>2, RequestLimits
  <2>3. CASE Statement(c)
    BY <2>3, WriteRowLimits, ReadChainLimits, SumMovementsLimits, WriteLedgerLimits,
       BuildLedgerLimits, ReadSourcesLimits, WriteLimitsLimits, GroupSpentLimits,
       WriteSpentLimits, FindUnspentLimits, EndPeriodLimits, CreateOnceLimits, CommitLimits
       DEF Statement
  <2>4. CASE Rollback(c)
    BY <2>4, RollbackLimits
  <2>5. QED
    BY <2>1, <2>2, <2>3, <2>4
<1>2. CASE UNCHANGED vars
  <2>1. /\ \A d \in Clients : tx[d] # Idle => LimitsSoFar(db, tx[d])
        /\ AloneTeam(sends) => /\ \A p \in Periods : LedgerOK(db, p)
                               /\ \A d \in Clients : tx[d] # Idle => LedgersSoFar(db, tx[d])
    BY DEF LimitsInv
  <2>2. tx = [d \in Clients |-> tx[d]]
    BY DEF Inv, RequestsOK
  <2>3. tx' = [d \in Clients |-> IF d \in Clients THEN tx[d] ELSE Idle]
    BY <1>2, <2>2 DEF vars
  <2>4. QED
    BY <1>2, <2>1, <2>3, CommittedLimits DEF vars
<1>3. QED
  BY <1>1, <1>2

\* The sets of clients the theorem on the limits is about; all are orderly.
SettlingTeams ==
    \A team \in Teams : /\ team = [c \in Clients |-> team[c]]
                        /\ AloneTeam(team) \/ SettlingTeam(team)

LEMMA SettlingIsOrderly ==
  ASSUME SettlingTeams
  PROVE  OrderlyTeams
BY DEF SettlingTeams, OrderlyTeams, Orderly, SettlingTeam, OverlappingTeam, Cascading

LEMMA InitLimits ==
  ASSUME SettlingTeams, Init
  PROVE  LimitsInv
<1>1. PICK target \in Percentages, required \in Requirements :
         db = [key \in Keys |-> CASE key = Target -> target [] key = Required -> required
                                  [] OTHER -> NotCreated]
  BY DEF Init
<1>2. \A p \in Periods : db[Ledger(p)] = NotCreated
  BY <1>1, TheKeys, KeysApart
<1>3. \A p \in Periods : LedgerOK(db, p)
  BY <1>2 DEF LedgerOK, Exists
<1>4. \A c \in Clients : tx[c] = Idle
  BY DEF Init
<1>5. AloneTeam(sends) \/ SettlingTeam(sends)
  BY DEF Init, SettlingTeams
<1>6. QED
  BY <1>3, <1>4, <1>5 DEF LimitsInv

\* A commit leaves right the limits of the periods its request reaches, and all
\* others that were, but for a fixed expense.
LEMMA CommitsLimits ==
  ASSUME Inv, LimitsInv, NEW c \in Clients, Commits(c), NEW p \in Periods,
         \/ p \in Reached(c)
         \/ tx[c].op # "fixed" /\ Exists(db, Ledger(p)) /\ LimitsOK(p)
  PROVE  LimitsOK(p)'
<1>1. PICK q, rows : q = tx[c] /\ rows = View(db, q)
  OBVIOUS
<1>2. q # Idle /\ q.at = "commit" /\ db' = rows
  BY <1>1 DEF Commits, At, Seen, View
<1>3. /\ Committed(db) /\ Shape(q) /\ OwnOK(q) /\ MovesOK(db, q) /\ LimitsSoFar(db, q)
      /\ q.op \in sends[c]
      /\ AloneTeam(sends) => LedgersSoFar(db, q)
  BY <1>1, <1>2, OfLimitsInv DEF Inv, RequestsOK
<1>4. /\ q.first \in Periods /\ q.op \in Reaching \union {"ledgers", "resetSpent"}
      /\ Last \in Nat /\ \A n \in Periods : n \in Int /\ n <= Last
  BY <1>3, LastAssumption DEF Shape, Reaching, Cascading, Periods
<1>5. CASE p \in Reached(c)
  <2>1. q.op \in Reaching /\ p \in q.first..Last
    BY <1>1, <1>5 DEF Reached, Reaching
  <2>2. p \in Recalculated(q)
    BY <1>2, <2>1 DEF Recalculated, Closing
  <2>3. LimitsRight(rows, p)
    BY <1>1, <1>3, <2>2 DEF LimitsSoFar
  <2>4. QED
    BY <1>2, <2>3 DEF LimitsOK, LimitsRight
<1>6. CASE p \notin Reached(c)
  <2>1. /\ q.op # "fixed" /\ Exists(db, Ledger(p)) /\ LimitsRight(db, p)
        /\ q.op \in Reaching => p < q.first
    <3>1. q.op # "fixed" /\ Exists(db, Ledger(p)) /\ LimitsOK(p)
      BY <1>1, <1>6
    <3>2. ASSUME q.op \in Reaching
          PROVE  p < q.first
      <4>1. p \notin q.first..Last
        BY <1>1, <1>6, <3>2 DEF Reached, Reaching
      <4>2. QED
        BY <1>4, <4>1 DEF Periods
    <3>3. QED
      BY <3>1, <3>2 DEF LimitsOK, LimitsRight
  <2>2. SameMovements(db, rows, p)
    <3>1. p < q.first \/ \A m \in MovementIds : Movement(m) \notin DOMAIN q.mine
      BY <1>3, <1>4, <2>1 DEF OwnOK
    <3>2. QED
      BY <1>1, <1>3, <3>1, MovementsBefore
  <2>3. \A f \in FixedIds : rows[Fixed(f)] = db[Fixed(f)]
    BY <1>1, <1>3, <2>1, TheKeys DEF OwnOK, View, Over, Committed
  <2>4. \A k \in Categories : rows[Rule(k)] = db[Rule(k)]
    BY <1>1, <1>3, TheKeys DEF OwnOK, View, Over, Committed
  <2>5. rows[Ledger(p)] = db[Ledger(p)]
    <3>1. CASE Ledger(p) \notin DOMAIN q.mine
      BY <1>1, <1>3, <3>1, TheKeys DEF View, Over, Committed
    <3>2. CASE Ledger(p) \in DOMAIN q.mine
      <4>1. q.op = "ledgers"
        BY <1>3, <1>4, <2>1, <3>2 DEF OwnOK, Periods
      <4>2. AloneTeam(sends)
        BY <1>3, <4>1 DEF LimitsInv, SettlingTeam
      <4>3. q.mine[Ledger(p)] = db[Ledger(p)]
        BY <1>3, <2>1, <3>2, <4>1, <4>2 DEF LedgersSoFar
      <4>4. QED
        BY <1>1, <3>2, <4>3 DEF View, Over
    <3>3. QED
      BY <3>1, <3>2
  <2>6. KeepLimits(db, rows, p)
    <3>1. ASSUME NEW k \in Categories, Exists(db, Budget(p, k))
          PROVE  /\ Exists(rows, Budget(p, k))
                 /\ rows[Budget(p, k)].limit = db[Budget(p, k)].limit
      <4>1. CASE Budget(p, k) \notin DOMAIN q.mine
        BY <1>1, <1>3, <3>1, <4>1, TheKeys DEF View, Over, Committed, Exists
      <4>2. CASE Budget(p, k) \in DOMAIN q.mine
        <5>1. p >= q.first /\ q.op # "ledgers" /\ q.mine[Budget(p, k)] \in BudgetRow
          BY <1>3, <4>2 DEF OwnOK
        <5>2. q.op = "resetSpent"
          BY <1>4, <2>1, <5>1 DEF Periods
        <5>3. rows[Budget(p, k)] = q.mine[Budget(p, k)]
          BY <1>1, <4>2 DEF View, Over
        <5>4. QED
          BY <1>3, <3>1, <4>2, <5>1, <5>2, <5>3, BudgetExists DEF LimitsSoFar
      <4>3. QED
        BY <4>1, <4>2
    <3>2. QED
      BY <3>1 DEF KeepLimits
  <2>7. LimitsRight(rows, p)
    BY <2>1, <2>2, <2>3, <2>4, <2>5, <2>6, LimitsKept DEF SameSources
  <2>8. QED
    BY <1>2, <2>7 DEF LimitsOK, LimitsRight
<1>7. QED
  BY <1>5, <1>6

\* If one client alone sends requests, or those that overlap are additions, edits
\* and removals of one client, and recalculations of budgets: a request leaves
\* right the limits of every period it reaches, and none that was right becomes
\* wrong but those of closed periods when a fixed expense changes.
THEOREM LimitsAlwaysFollowSources ==
  ASSUME SettlingTeams
  PROVE  Spec => LimitsFollowSources
<1>1. Init => Inv /\ LimitsInv
  BY InitInv, InitLimits, SettlingIsOrderly
<1>2. Inv /\ LimitsInv /\ [Next]_vars => (Inv /\ LimitsInv)'
  BY NextInv, NextLimits
<1>3. Inv /\ LimitsInv /\ [Next]_vars =>
         [\A c \in Clients : Commits(c) =>
             \A p \in Periods :
                 \/ p \in Reached(c)
                 \/ tx[c].op # "fixed" /\ Exists(db, Ledger(p)) /\ LimitsOK(p)
                 => LimitsOK(p)']_vars
  BY CommitsLimits
<1>4. QED
  BY <1>1, <1>2, <1>3, PTL DEF Spec, LimitsFollowSources

\* What the clients send is chosen in the beginning.
LEMMA SendsStay ==
  ASSUME [Next]_vars
  PROVE  sends' = sends
<1>1. CASE UNCHANGED vars
  BY <1>1 DEF vars
<1>2. ASSUME NEW c \in Clients, Request(c)
      PROVE  sends' = sends
  <2>1. ASSUME NEW m, NEW row, Add(c, m, row) \/ Change(c, m, row)
        PROVE  sends' = sends
    BY <2>1 DEF Add, Change, Begin
  <2>2. ASSUME NEW p, Recalculate(c, p) \/ ResetSpent(c, p)
        PROVE  sends' = sends
    BY <2>2 DEF Recalculate, ResetSpent, Begin
  <2>3. ASSUME NEW f, NEW row, AddFixed(c, f, row) \/ ChangeFixed(c, f, row)
        PROVE  sends' = sends
    BY <2>3 DEF AddFixed, ChangeFixed, Begin
  <2>4. ASSUME NEW key, NEW row, Set(c, key, row)
        PROVE  sends' = sends
    BY <2>4 DEF Set
  <2>5. QED
    BY <1>2, <2>1, <2>2, <2>3, <2>4, Zenon DEF Request, SetLimit
<1>3. ASSUME NEW c \in Clients, Statement(c) \/ Rollback(c)
      PROVE  sends' = sends
  <2>1. ASSUME NEW at, NEW changes, Read(c, at, changes)
        PROVE  sends' = sends
    BY <2>1 DEF Read
  <2>2. ASSUME NEW rows, NEW changes, Write(c, rows, changes)
        PROVE  sends' = sends
    BY <2>2 DEF Write
  <2>3. CASE WriteRow(c) \/ WriteLedger(c)
    BY <2>2, <2>3, Zenon DEF WriteRow, WriteLedger
  <2>4. CASE WriteLimits(c) \/ WriteSpent(c)
    BY <2>2, <2>4, Zenon DEF WriteLimits, WriteSpent, WriteBudget
  <2>5. CASE ReadChain(c) \/ SumMovements(c) \/ BuildLedger(c)
    BY <2>1, <2>5, Zenon DEF ReadChain, SumMovements, BuildLedger
  <2>6. CASE ReadSources(c) \/ GroupSpent(c) \/ FindUnspent(c) \/ EndPeriod(c) \/ CreateOnce(c)
    BY <2>1, <2>6, Zenon DEF ReadSources, GroupSpent, FindUnspent, EndPeriod, CreateOnce
  <2>7. CASE Commit(c) \/ Rollback(c)
    BY <2>7 DEF Commit, Rollback
  <2>8. QED
    BY <1>3, <2>3, <2>4, <2>5, <2>6, <2>7, Zenon DEF Statement
<1>4. QED
  BY <1>1, <1>2, <1>3 DEF Next

\* In every behaviour one client alone sends requests.
AloneTeams == \A team \in Teams : team = [c \in Clients |-> team[c]] /\ AloneTeam(team)

\* While one client alone sends requests every ledger says what the movements of
\* its period say and goes on from the one before, as the schema has it.
THEOREM LedgersFollowWhileAlone ==
  ASSUME AloneTeams
  PROVE  Spec => []LedgersFollowMovements
<1>1. Init => Inv /\ LimitsInv /\ AloneTeam(sends)
  <2>1. SettlingTeams
    BY DEF AloneTeams, SettlingTeams
  <2>2. Init => AloneTeam(sends)
    BY DEF Init, AloneTeams
  <2>3. QED
    BY <2>1, <2>2, InitInv, InitLimits, SettlingIsOrderly
<1>2. Inv /\ LimitsInv /\ AloneTeam(sends) /\ [Next]_vars => (Inv /\ LimitsInv /\ AloneTeam(sends))'
  BY NextInv, NextLimits, SendsStay
<1>3. Inv /\ LimitsInv /\ AloneTeam(sends) => LedgersFollowMovements
  BY DEF LimitsInv, LedgerOK, Opening, LedgersFollowMovements
<1>4. QED
  BY <1>1, <1>2, <1>3, PTL DEF Spec

-----------------------------------------------------------------------------
(* Reminders *)

\* Registered or reminded of, in a period that was open this month.
Covered(e) ==
    \E p \in untouched.periods : <<p, e>> \in registered \/ reminders[<<p, e>>].sent > 0

\* The reminder in progress is not done with e.
Ahead(e) == run # None /\ (e \in run.left \/ run.visiting = e)

\* The reminder of the day e is due has been, as far as e goes.
Done(e) ==
    \/ DueDay(expenses[e].dayOfMonth) < day
    \/ DueDay(expenses[e].dayOfMonth) = day /\ ran /\ ~ Ahead(e)

TypeInv ==
    /\ TypeOK
    /\ ran \in BOOLEAN
    /\ untouched \in [expenses : SUBSET Expenses, periods : SUBSET OpenedPeriods]
    /\ run # None /\ run.visiting # None => run.period \in OpenedPeriods
    /\ run # None /\ run.missing => run.visiting # None

CoverInv ==
    /\ period \in untouched.periods
    /\ run # None => ran
    /\ run # None /\ run.visiting # None => run.period \in untouched.periods
    /\ \A e \in untouched.expenses \intersect Active : Done(e) => Covered(e)

-----------------------------------------------------------------------------
(* Days *)

\* A month has days.
LEMMA DaysOfMonth ==
  ASSUME month \in DOMAIN MonthLengths
  PROVE  daysInMonth \in Nat \ {0}
BY MonthLengthsAssumption DEF daysInMonth

\* The day an expense is due is one of the month.
LEMMA DueDayInMonth ==
  ASSUME month \in DOMAIN MonthLengths, NEW dayOfMonth \in DueDays
  PROVE  DueDay(dayOfMonth) \in 1 .. daysInMonth
<1>1. daysInMonth \in Nat \ {0}
  BY DaysOfMonth
<1>2. dayOfMonth \in Nat \ {0}
  BY DueDaysAssumption
<1>3. QED
  BY <1>1, <1>2 DEF DueDay

\* After the last month comes the first one.
LEMMA NextMonth ==
  ASSUME month \in DOMAIN MonthLengths
  PROVE  (month % Len(MonthLengths)) + 1 \in DOMAIN MonthLengths
<1>1. DOMAIN MonthLengths = 1 .. Len(MonthLengths) /\ Len(MonthLengths) \in Nat
  BY MonthLengthsAssumption
<1>2. Len(MonthLengths) > 0 /\ month \in Nat
  BY <1>1
<1>3. month % Len(MonthLengths) \in 0 .. (Len(MonthLengths) - 1)
  BY <1>1, <1>2
<1>4. QED
  BY <1>1, <1>3

\* What is active is an expense.
LEMMA ActiveIsExpense ==
  ASSUME TypeOK
  PROVE  \A e \in Active : /\ e \in Expenses /\ expenses[e] \in Expense
                          /\ expenses[e].dayOfMonth \in DueDays
BY ValuesAssumption DEF TypeOK, Active, Stored, Expense

-----------------------------------------------------------------------------
(* Types *)

LEMMA InitTypeInv == InitReminders => TypeInv
<1> SUFFICES ASSUME InitReminders PROVE TypeInv
  OBVIOUS
<1>1. 1 \in OpenedPeriods /\ 1 \in DOMAIN MonthLengths
  BY BoundsAssumption, MonthLengthsAssumption DEF OpenedPeriods
<1>2. daysInMonth \in Nat \ {0}
  BY <1>1, DaysOfMonth DEF InitReminders
<1>3. expenses \in [Expenses -> Expense \union {Absent, Removed}]
  BY DEF InitReminders, Expense
<1>4. /\ month \in DOMAIN MonthLengths /\ day \in 1 .. daysInMonth
      /\ period \in OpenedPeriods /\ registered \subseteq OpenedPeriods \X Expenses
      /\ outages \in 0 .. MaxOutages /\ run = None /\ ran \in BOOLEAN
  <2>1. month = 1 /\ day = 1 /\ ran = FALSE /\ period = 1 /\ registered = {} /\ outages = 0
        /\ run = None
    BY DEF InitReminders
  <2>2. 0 \in 0 .. MaxOutages
    BY BoundsAssumption
  <2>3. 1 \in 1 .. daysInMonth
    BY <1>2
  <2>4. ran \in BOOLEAN
    BY <2>1
  <2>5. QED
    BY <1>1, <2>1, <2>2, <2>3, <2>4
<1>5. reminders \in [OpenedPeriods \X Expenses -> [sent : Nat, unread : Nat]]
  BY DEF InitReminders
<1>6. untouched \in [expenses : SUBSET Expenses, periods : SUBSET OpenedPeriods]
  BY <1>1 DEF InitReminders
<1>7. QED
  BY <1>3, <1>4, <1>5, <1>6 DEF TypeInv, TypeOK

LEMMA TypeOfRequest ==
  ASSUME TypeInv, ExpenseRequest
  PROVE  TypeInv'
<1>1. /\ UNCHANGED <<month, day, run, ran, outages, requests>>
      /\ daysInMonth' = daysInMonth
  BY DEF ExpenseRequest, SetExpense, Register, Unregister, OpenPeriod, MarkRead, MarkAllRead,
         UnchangedByRequest, daysInMonth
<1>2. ASSUME NEW e \in Expenses, NEW row \in Expense \union {Removed}, SetExpense(e, row)
      PROVE  TypeInv'
  BY <1>1, <1>2 DEF SetExpense, Touch, TypeInv, TypeOK
<1>3. ASSUME NEW e \in Expenses, NEW p \in OpenedPeriods, Register(e, p)
      PROVE  TypeInv'
  BY <1>1, <1>3 DEF Register, TypeInv, TypeOK
<1>4. ASSUME NEW k \in OpenedPeriods \X Expenses, Unregister(k)
      PROVE  TypeInv'
  BY <1>1, <1>4 DEF Unregister, Touch, TypeInv, TypeOK
<1>5. ASSUME NEW k \in OpenedPeriods \X Expenses, MarkRead(k)
      PROVE  TypeInv'
  <2>1. reminders[k] \in [sent : Nat, unread : Nat] /\ reminders[k].unread - 1 \in Nat
    BY <1>5 DEF MarkRead, TypeInv, TypeOK
  <2>2. reminders' \in [OpenedPeriods \X Expenses -> [sent : Nat, unread : Nat]]
    BY <1>5, <2>1 DEF MarkRead, TypeInv, TypeOK
  <2>3. QED
    BY <1>1, <1>5, <2>2 DEF MarkRead, TypeInv, TypeOK
<1>6. ASSUME MarkAllRead
      PROVE  TypeInv'
  <2>1. reminders' \in [OpenedPeriods \X Expenses -> [sent : Nat, unread : Nat]]
    BY <1>6 DEF MarkAllRead, TypeInv, TypeOK
  <2>2. QED
    BY <1>1, <1>6, <2>1 DEF MarkAllRead, TypeInv, TypeOK
<1>7. ASSUME NEW moved \in SUBSET Expenses, OpenPeriod(moved)
      PROVE  TypeInv'
  <2>1. period + 1 \in OpenedPeriods
    BY <1>7, BoundsAssumption DEF OpenPeriod, TypeInv, TypeOK, OpenedPeriods
  <2>2. registered' \subseteq OpenedPeriods \X Expenses
    BY <1>7, <2>1 DEF OpenPeriod, TypeInv, TypeOK
  <2>3. QED
    BY <1>1, <1>7, <2>1, <2>2 DEF OpenPeriod, TypeInv, TypeOK
<1>8. QED
  BY <1>2, <1>3, <1>4, <1>5, <1>6, <1>7 DEF ExpenseRequest

\* A reminder that passes over an expense is at none.
LEMMA PassedIsRun ==
  ASSUME run \in RunInProgress
  PROVE  /\ Passed \in RunInProgress /\ Passed.visiting = None /\ Passed.missing = FALSE
         /\ Passed.left = run.left
<1>1. Passed = [left |-> run.left, visiting |-> None, period |-> None, missing |-> FALSE]
  <2> DEFINE first  == [run EXCEPT !.visiting = None]
             second == [first EXCEPT !.period = None]
  <2>1. first = [left |-> run.left, visiting |-> None, period |-> run.period,
                 missing |-> run.missing]
    BY DEF RunInProgress
  <2>2. Passed = [second EXCEPT !.missing = FALSE]
    BY DEF Passed
  <2> HIDE DEF first
  <2>3. second = [left |-> run.left, visiting |-> None, period |-> None,
                  missing |-> run.missing]
    BY <2>1
  <2> HIDE DEF second
  <2>4. QED
    BY <2>2, <2>3
<1>2. QED
  BY <1>1 DEF RunInProgress

\* A reminder raises one count, from 0, or none.
LEMMA RemindedOnce ==
  ASSUME TypeOK, run # None /\ run.visiting # None => run.period \in OpenedPeriods,
         run # None /\ run.missing => run.visiting # None,
         Remind
  PROVE  LET k == <<run.period, run.visiting>>
         IN  /\ k \in OpenedPeriods \X Expenses
             /\ reminders' \in [OpenedPeriods \X Expenses -> [sent : Nat, unread : Nat]]
             /\ \A other \in OpenedPeriods \X Expenses :
                   other # k => reminders'[other] = reminders[other]
             /\ reminders'[k].sent = IF reminders[k].sent > 0 THEN reminders[k].sent ELSE 1
<1> DEFINE k == <<run.period, run.visiting>>
<1>1. run \in RunInProgress /\ run.missing /\ run.visiting # None
  BY DEF Remind, TypeOK
<1>2. k \in OpenedPeriods \X Expenses
  <2>1. run.visiting \in Expenses
    BY <1>1 DEF RunInProgress
  <2>2. run.period \in OpenedPeriods
    BY <1>1 DEF Remind
  <2>3. QED
    BY <2>1, <2>2
<1>3. reminders' = IF reminders[k].sent > 0 THEN reminders
                ELSE [reminders EXCEPT ![k] = [sent |-> @.sent + 1, unread |-> @.unread + 1]]
  BY DEF Remind, ReminderExists
<1> HIDE DEF k
<1>4. reminders[k].sent \in Nat /\ reminders[k].unread \in Nat
  BY <1>2 DEF TypeOK
<1>5. CASE reminders[k].sent > 0
  BY <1>2, <1>3, <1>5 DEF TypeOK, k
<1>6. CASE ~ (reminders[k].sent > 0)
  <2>1. [sent |-> reminders[k].sent + 1, unread |-> reminders[k].unread + 1]
           \in [sent : Nat, unread : Nat]
    BY <1>4
  <2>2. reminders[k].sent = 0
    BY <1>4, <1>6
  <2>3. QED
    BY <1>2, <1>3, <1>6, <2>1, <2>2 DEF TypeOK, k
<1>7. QED
  BY <1>5, <1>6

LEMMA TypeOfRun ==
  ASSUME TypeInv, Run
  PROVE  TypeInv'
<1>1. /\ UNCHANGED <<month, day, expenses, period, registered, outages, requests, untouched>>
      /\ daysInMonth' = daysInMonth
  BY DEF Run, StartRun, Visit, LookForPayment, Remind, EndRun, UnchangedByRun, daysInMonth
<1>2. CASE StartRun
  BY <1>1, <1>2 DEF StartRun, Active, TypeInv, TypeOK, RunInProgress
<1>3. ASSUME NEW e \in Expenses, Visit(e)
      PROVE  TypeInv'
  <2>1. run \in RunInProgress
    BY <1>3 DEF Visit, TypeInv, TypeOK
  <2>2. run' = [left |-> run.left \ {e}, visiting |-> e, period |-> period, missing |-> run.missing]
    BY <1>3, <2>1 DEF Visit, RunInProgress
  <2>3. run' \in RunInProgress
    BY <2>1, <2>2 DEF TypeInv, TypeOK, RunInProgress
  <2>4. QED
    BY <1>1, <1>3, <2>1, <2>2, <2>3, ValuesAssumption DEF Visit, TypeInv, TypeOK
<1>4. CASE LookForPayment
  <2>1. run \in RunInProgress /\ UNCHANGED <<reminders, ran>> /\ run.visiting # None
    BY <1>4 DEF LookForPayment, TypeInv, TypeOK
  <2>2. Passed \in RunInProgress /\ Passed.visiting = None /\ Passed.missing = FALSE
    BY <2>1, PassedIsRun
  <2>3. CASE run' = Passed
    BY <1>1, <2>1, <2>2, <2>3 DEF TypeInv, TypeOK
  <2>4. CASE run' = [run EXCEPT !.missing = TRUE]
    <3>1. run' \in RunInProgress /\ run'.visiting = run.visiting /\ run'.period = run.period
      BY <2>1, <2>4 DEF RunInProgress
    <3>2. QED
      BY <1>1, <2>1, <3>1, ValuesAssumption DEF TypeInv, TypeOK
  <2>5. QED
    BY <1>4, <2>3, <2>4 DEF LookForPayment
<1>5. CASE Remind
  <2>1. run \in RunInProgress /\ run' = Passed /\ ran' = ran
    BY <1>5 DEF Remind, TypeInv, TypeOK
  <2>2. Passed \in RunInProgress /\ Passed.visiting = None /\ Passed.missing = FALSE
    BY <2>1, PassedIsRun
  <2>3. reminders' \in [OpenedPeriods \X Expenses -> [sent : Nat, unread : Nat]]
    BY <1>5, RemindedOnce DEF TypeInv
  <2>4. QED
    BY <1>1, <2>1, <2>2, <2>3 DEF TypeInv, TypeOK
<1>6. CASE EndRun
  BY <1>1, <1>6 DEF EndRun, TypeInv, TypeOK
<1>7. QED
  BY <1>2, <1>3, <1>4, <1>5, <1>6 DEF Run

LEMMA TypeOfOutage ==
  ASSUME TypeInv, Outage
  PROVE  TypeInv'
<1>1. /\ run' = None /\ ran' = TRUE /\ outages' \in 0 .. MaxOutages
      /\ UNCHANGED <<month, day, expenses, period, registered, reminders>>
      /\ daysInMonth' = daysInMonth
  BY BoundsAssumption DEF Outage, TypeInv, TypeOK, daysInMonth
<1>2. untouched' \in [expenses : SUBSET Expenses, periods : SUBSET OpenedPeriods]
  BY DEF Outage, TypeInv
<1>3. QED
  BY <1>1, <1>2 DEF TypeInv, TypeOK

LEMMA TypeOfTick ==
  ASSUME TypeInv, Tick
  PROVE  TypeInv'
<1>1. /\ run = None /\ run' = None /\ ran' = FALSE
      /\ UNCHANGED <<expenses, period, registered, reminders, outages>>
  BY DEF Tick
<1>2. CASE day < daysInMonth
  <2>1. day' = day + 1 /\ UNCHANGED <<month, untouched>> /\ daysInMonth' = daysInMonth
    BY <1>2 DEF Tick, daysInMonth
  <2>2. daysInMonth \in Nat
    BY DaysOfMonth DEF TypeInv, TypeOK
  <2>3. day' \in 1 .. daysInMonth
    BY <1>2, <2>1, <2>2 DEF TypeInv, TypeOK
  <2>4. QED
    BY <1>1, <2>1, <2>3 DEF TypeInv, TypeOK
<1>3. CASE ~ (day < daysInMonth)
  <2>1. /\ day' = 1 /\ month' = (month % Len(MonthLengths)) + 1
        /\ untouched' = [expenses |-> Expenses, periods |-> {period}]
    BY <1>3 DEF Tick
  <2>2. month' \in DOMAIN MonthLengths
    BY <2>1, NextMonth DEF TypeInv, TypeOK
  <2>3. daysInMonth' \in Nat \ {0}
    BY <2>2, MonthLengthsAssumption DEF daysInMonth
  <2>4. day' \in 1 .. daysInMonth'
    BY <2>1, <2>3
  <2>5. untouched' \in [expenses : SUBSET Expenses, periods : SUBSET OpenedPeriods]
    BY <2>1 DEF TypeInv, TypeOK
  <2>6. QED
    BY <1>1, <2>2, <2>4, <2>5 DEF TypeInv, TypeOK
<1>4. QED
  BY <1>2, <1>3

LEMMA NextTypeInv == TypeInv /\ [NextReminders]_reminderVars => TypeInv'
<1>1. TypeInv /\ UNCHANGED reminderVars => TypeInv'
  BY DEF reminderVars, TypeInv, TypeOK, daysInMonth
<1>2. QED
  BY <1>1, TypeOfRequest, TypeOfRun, TypeOfOutage, TypeOfTick DEF NextReminders

-----------------------------------------------------------------------------
(* Once a period *)

\* Only the reminder adds alerts, and one of each at most.
LEMMA NextOnce ==
  TypeInv /\ OneReminderPerPeriod /\ [NextReminders]_reminderVars => OneReminderPerPeriod'
<1> SUFFICES ASSUME TypeInv, OneReminderPerPeriod, [NextReminders]_reminderVars
             PROVE  OneReminderPerPeriod'
  OBVIOUS
<1>1. ASSUME NEW k \in OpenedPeriods \X Expenses, MarkRead(k)
      PROVE  OneReminderPerPeriod'
  BY <1>1 DEF MarkRead, TypeInv, TypeOK, OneReminderPerPeriod
<1>2. CASE MarkAllRead
  BY <1>2 DEF MarkAllRead, TypeInv, TypeOK, OneReminderPerPeriod
<1>3. CASE Remind
  <2>1. PICK k \in OpenedPeriods \X Expenses :
           /\ reminders' \in [OpenedPeriods \X Expenses -> [sent : Nat, unread : Nat]]
           /\ \A other \in OpenedPeriods \X Expenses :
                 other # k => reminders'[other] = reminders[other]
           /\ reminders'[k].sent = IF reminders[k].sent > 0 THEN reminders[k].sent ELSE 1
    BY <1>3, RemindedOnce DEF TypeInv
  <2>2. \A other \in OpenedPeriods \X Expenses : reminders[other].sent <= 1
    BY DEF OneReminderPerPeriod, TypeInv, TypeOK
  <2>3. \A other \in OpenedPeriods \X Expenses : reminders'[other].sent <= 1
    BY <2>1, <2>2
  <2>4. QED
    BY <2>1, <2>3 DEF OneReminderPerPeriod
<1>4. CASE UNCHANGED reminders
  BY <1>4 DEF OneReminderPerPeriod
<1>5. QED
  BY <1>1, <1>2, <1>3, <1>4
     DEF NextReminders, ExpenseRequest, Run, SetExpense, Register, Unregister, OpenPeriod,
         StartRun, Visit, LookForPayment, EndRun, Outage, Tick, reminderVars

\* A period reminds of an expense once.
THEOREM RemindsOncePerPeriod == RemindersSpec => []OneReminderPerPeriod
<1>1. InitReminders => OneReminderPerPeriod
  BY DEF InitReminders, OneReminderPerPeriod
<1>2. QED
  BY <1>1, InitTypeInv, NextTypeInv, NextOnce, PTL DEF RemindersSpec

-----------------------------------------------------------------------------
(* Nothing that is due is passed over *)

LEMMA InitCoverInv == InitReminders /\ TypeInv => CoverInv
<1> SUFFICES ASSUME InitReminders, TypeInv PROVE CoverInv
  OBVIOUS
<1>1. ASSUME NEW e \in Active
      PROVE  ~ Done(e)
  <2>1. DueDay(expenses[e].dayOfMonth) \in 1 .. daysInMonth
    BY <1>1, ActiveIsExpense, DueDayInMonth DEF TypeInv, TypeOK
  <2>2. daysInMonth \in Nat
    BY DaysOfMonth DEF TypeInv, TypeOK
  <2>3. ~ (DueDay(expenses[e].dayOfMonth) < 1)
    BY <2>1, <2>2
  <2>4. QED
    BY <2>3 DEF InitReminders, Done
<1>2. QED
  BY <1>1 DEF InitReminders, CoverInv

\* What an expense is covered by stays, and what is done was: of the expenses
\* that nobody changed since.
LEMMA CoverKept ==
  ASSUME CoverInv,
         period' \in untouched'.periods, run' # None => ran',
         run' # None /\ run'.visiting # None => run'.period \in untouched'.periods,
         \A e \in untouched'.expenses \intersect Active' :
            /\ e \in untouched.expenses \intersect Active
            /\ Done(e)' => Done(e) \/ Covered(e)'
            /\ Covered(e) => Covered(e)'
  PROVE  CoverInv'
BY DEF CoverInv

LEMMA CoverOfRequest ==
  ASSUME TypeInv, CoverInv, ExpenseRequest
  PROVE  CoverInv'
<1>1. /\ UNCHANGED <<month, day, run, ran, outages, requests>>
      /\ \A dayOfMonth : DueDay(dayOfMonth)' = DueDay(dayOfMonth)
  BY DEF ExpenseRequest, SetExpense, Register, Unregister, OpenPeriod, MarkRead, MarkAllRead,
         UnchangedByRequest, DueDay, daysInMonth
<1>2. \A e \in Expenses : expenses'[e] = expenses[e] =>
         (e \in Active' <=> e \in Active) /\ (Done(e)' <=> Done(e))
  BY <1>1 DEF Active, Stored, Done, Ahead
<1>3. Active \subseteq Expenses /\ Active' \subseteq Expenses
  BY DEF Active
<1>4. ASSUME NEW e \in Expenses, NEW row \in Expense \union {Removed}, SetExpense(e, row)
      PROVE  CoverInv'
  <2>1. /\ untouched'.expenses = untouched.expenses \ {e} /\ untouched'.periods = untouched.periods
        /\ \A d \in Expenses : d # e => expenses'[d] = expenses[d]
        /\ \A p \in OpenedPeriods, d \in Expenses :
              d # e => (<<p, d>> \in registered' <=> <<p, d>> \in registered)
        /\ UNCHANGED <<period, reminders>>
    BY <1>4 DEF SetExpense, Touch, TypeInv, TypeOK
  <2>2. ASSUME NEW d \in Expenses, d # e, Covered(d)
        PROVE  Covered(d)'
    BY <2>1, <2>2 DEF Covered, TypeInv
  <2>3. QED
    BY <1>1, <1>2, <1>3, <2>1, <2>2, CoverKept DEF CoverInv
<1>5. ASSUME NEW e \in Expenses, NEW p \in OpenedPeriods, Register(e, p)
      PROVE  CoverInv'
  <2>1. UNCHANGED <<expenses, period, reminders, untouched>> /\ registered \subseteq registered'
    BY <1>5 DEF Register
  <2>2. \A d \in Expenses : Covered(d) => Covered(d)'
    BY <2>1 DEF Covered
  <2>3. QED
    BY <1>1, <1>2, <1>3, <2>1, <2>2, CoverKept DEF CoverInv
<1>6. ASSUME NEW k \in OpenedPeriods \X Expenses, Unregister(k)
      PROVE  CoverInv'
  <2>1. /\ untouched'.expenses = untouched.expenses \ {k[2]}
        /\ untouched'.periods = untouched.periods
        /\ UNCHANGED <<expenses, period, reminders>>
        /\ registered' = registered \ {k}
    BY <1>6 DEF Unregister, Touch, TypeInv
  <2>2. ASSUME NEW d \in Expenses, d # k[2], Covered(d)
        PROVE  Covered(d)'
    BY <2>1, <2>2 DEF Covered
  <2>3. QED
    BY <1>1, <1>2, <1>3, <2>1, <2>2, CoverKept DEF CoverInv
<1>7. ASSUME NEW k \in OpenedPeriods \X Expenses, MarkRead(k)
      PROVE  CoverInv'
  <2>1. /\ UNCHANGED <<expenses, period, registered, untouched>>
        /\ \A j \in OpenedPeriods \X Expenses : reminders'[j].sent = reminders[j].sent
    BY <1>7 DEF MarkRead, TypeInv, TypeOK
  <2>2. \A d \in Expenses : Covered(d) => Covered(d)'
    BY <2>1 DEF Covered, TypeInv
  <2>3. QED
    BY <1>1, <1>2, <1>3, <2>1, <2>2, CoverKept DEF CoverInv
<1>8. ASSUME MarkAllRead
      PROVE  CoverInv'
  <2>1. /\ UNCHANGED <<expenses, period, registered, untouched>>
        /\ \A j \in OpenedPeriods \X Expenses : reminders'[j].sent = reminders[j].sent
    BY <1>8 DEF MarkAllRead, TypeInv, TypeOK
  <2>2. \A d \in Expenses : Covered(d) => Covered(d)'
    BY <2>1 DEF Covered, TypeInv
  <2>3. QED
    BY <1>1, <1>2, <1>3, <2>1, <2>2, CoverKept DEF CoverInv
<1>9. ASSUME NEW moved \in SUBSET Expenses, OpenPeriod(moved)
      PROVE  CoverInv'
  <2>1. /\ UNCHANGED <<expenses, reminders>> /\ period' = period + 1
        /\ untouched'.expenses = untouched.expenses
        /\ untouched'.periods = untouched.periods \union {period + 1}
        /\ \A p \in OpenedPeriods, d \in Expenses : <<p, d>> \in registered =>
              <<p, d>> \in registered' \/ <<period + 1, d>> \in registered'
    BY <1>9 DEF OpenPeriod, TypeInv, TypeOK
  <2>2. \A d \in Expenses : Covered(d) => Covered(d)'
    BY <2>1 DEF Covered, TypeInv
  <2>3. QED
    BY <1>1, <1>2, <1>3, <2>1, <2>2, CoverKept DEF CoverInv
<1>10. QED
  BY <1>4, <1>5, <1>6, <1>7, <1>8, <1>9 DEF ExpenseRequest

\* Nothing gets done by what leaves ahead what was.
LEMMA DoneKept ==
  ASSUME NEW e, UNCHANGED <<day, ran>>, Ahead(e) => Ahead(e)',
         DueDay(expenses[e].dayOfMonth)' = DueDay(expenses[e].dayOfMonth)
  PROVE  Done(e)' => Done(e)
BY DEF Done

\* What the reminder does with an expense is what makes it done.
LEMMA CoverOfRun ==
  ASSUME TypeInv, CoverInv, Run
  PROVE  CoverInv'
<1>1. /\ UNCHANGED <<month, day, expenses, period, registered, outages, requests, untouched>>
      /\ Active' = Active
      /\ \A e \in Expenses :
            DueDay(expenses[e].dayOfMonth)' = DueDay(expenses[e].dayOfMonth)
  BY DEF Run, StartRun, Visit, LookForPayment, Remind, EndRun, UnchangedByRun, Active, Stored,
         DueDay, daysInMonth
<1>2. Active \subseteq Expenses
  BY DEF Active
<1>3. CASE StartRun
  <2>1. run' = [left |-> {e \in Active : InWindow(expenses[e].dayOfMonth)},
                visiting |-> None, period |-> None, missing |-> FALSE]
        /\ ran' = TRUE /\ run = None /\ reminders' = reminders
    BY <1>3 DEF StartRun
  <2>2. run'.left = {e \in Active : InWindow(expenses[e].dayOfMonth)}
        /\ run' # None /\ run'.visiting = None
    <3>1. run' \in RunInProgress
      BY <1>2, <2>1 DEF RunInProgress
    <3>2. QED
      BY <2>1, <3>1, ValuesAssumption
  <2>3. ASSUME NEW e \in Active, DueDay(expenses[e].dayOfMonth) = day
        PROVE  e \in run'.left
    <3>1. day \in Int
      BY DEF TypeInv, TypeOK
    <3>2. InWindow(expenses[e].dayOfMonth)
      BY <2>3, <3>1, WindowAssumption DEF InWindow
    <3>3. QED
      BY <2>2, <3>2
  <2>4. ASSUME NEW e \in untouched.expenses \intersect Active
        PROVE  Done(e)' => Done(e)
    BY <1>1, <1>2, <2>2, <2>3, <2>4 DEF Done, Ahead
  <2>5. QED
    BY <1>1, <2>1, <2>2, <2>4, CoverKept DEF CoverInv, Covered
<1>4. ASSUME NEW e \in Expenses, Visit(e)
      PROVE  CoverInv'
  <2>1. run \in RunInProgress /\ run # None /\ UNCHANGED <<reminders, ran>>
    BY <1>4 DEF Visit, TypeInv, TypeOK
  <2>2. /\ run'.left = run.left \ {e} /\ run'.visiting = e /\ run'.period = period
        /\ run' # None
    <3>1. run' = [left |-> run.left \ {e}, visiting |-> e, period |-> period,
                  missing |-> run.missing]
      BY <1>4, <2>1 DEF Visit, RunInProgress
    <3>2. run' \in RunInProgress
      BY <2>1, <3>1 DEF RunInProgress, TypeInv, TypeOK
    <3>3. QED
      BY <3>1, <3>2, ValuesAssumption
  <2>3. \A d \in Expenses : Done(d)' => Done(d)
    <3>1. ASSUME NEW d \in Expenses
          PROVE  Ahead(d) => Ahead(d)'
      <4>1. Ahead(d) => d \in run.left
        BY <1>4, ValuesAssumption DEF Visit, Ahead
      <4>2. d \in run.left => Ahead(d)'
        BY <2>2 DEF Ahead
      <4>3. QED
        BY <4>1, <4>2
    <3>2. UNCHANGED <<day, ran>>
      BY <1>1, <2>1
    <3>3. QED
      BY <1>1, <3>1, <3>2, DoneKept
  <2>4. QED
    BY <1>1, <1>2, <2>1, <2>2, <2>3, CoverKept DEF CoverInv, Covered
<1>5. ASSUME NEW e \in Expenses, run # None, run.visiting = e, run' = Passed, ran' = ran,
             \A d \in Expenses : Covered(d) => Covered(d)', Covered(e)'
      PROVE  CoverInv'
  <2>1. run \in RunInProgress
    BY <1>5 DEF TypeInv, TypeOK
  <2>2. run'.left = run.left /\ run'.visiting = None /\ run' # None
    BY <1>5, <2>1, PassedIsRun, ValuesAssumption
  <2>3. \A d \in Expenses : Done(d)' => Done(d) \/ d = e
    BY <1>1, <1>5, <2>2 DEF Done, Ahead
  <2>4. QED
    BY <1>1, <1>2, <1>5, <2>2, <2>3, CoverKept DEF CoverInv
<1>6. CASE LookForPayment
  <2>1. run \in RunInProgress /\ run # None /\ run.visiting # None /\ UNCHANGED <<reminders, ran>>
    BY <1>6 DEF LookForPayment, TypeInv, TypeOK
  <2>2. run.visiting \in Expenses
    BY <2>1 DEF RunInProgress
  <2>3. \A d \in Expenses : Covered(d)' <=> Covered(d)
    BY <1>1, <2>1 DEF Covered
  <2>4. CASE <<run.period, run.visiting>> \in registered
    <3>1. run' = Passed
      BY <1>6, <2>4 DEF LookForPayment
    <3>2. Covered(run.visiting)
      BY <2>1, <2>4 DEF Covered, CoverInv
    <3>3. QED
      BY <1>5, <2>1, <2>2, <2>3, <3>1, <3>2
  <2>5. CASE <<run.period, run.visiting>> \notin registered
    <3>1. run' = [run EXCEPT !.missing = TRUE]
      BY <1>6, <2>5 DEF LookForPayment
    <3>2. run'.left = run.left /\ run'.visiting = run.visiting /\ run'.period = run.period
      BY <2>1, <3>1 DEF RunInProgress
    <3>3. \A d \in Expenses : Done(d)' => Done(d)
      <4>1. run' # None
        BY <2>1, <3>1, ValuesAssumption DEF RunInProgress
      <4>2. \A d \in Expenses : Ahead(d) => Ahead(d)'
        BY <2>1, <3>2, <4>1 DEF Ahead
      <4>3. UNCHANGED <<day, ran>>
        BY <1>1, <2>1
      <4>4. QED
        BY <1>1, <4>2, <4>3, DoneKept
    <3>4. QED
      BY <1>1, <1>2, <2>1, <2>3, <3>2, <3>3, CoverKept DEF CoverInv
  <2>6. QED
    BY <2>4, <2>5
<1>7. CASE Remind
  <2>1. run \in RunInProgress /\ run # None /\ run.visiting # None /\ run' = Passed /\ ran' = ran
    BY <1>7 DEF Remind, TypeInv, TypeOK
  <2>2. PICK e \in Expenses : run.visiting = e
    BY <2>1 DEF RunInProgress
  <2> DEFINE k == <<run.period, e>>
  <2>3. /\ k \in OpenedPeriods \X Expenses
        /\ \A other \in OpenedPeriods \X Expenses :
              other # k => reminders'[other] = reminders[other]
        /\ reminders'[k].sent = IF reminders[k].sent > 0 THEN reminders[k].sent ELSE 1
    BY <1>7, <2>2, RemindedOnce DEF TypeInv
  <2>4. Covered(e)'
    <3>1. run.period \in untouched'.periods
      BY <1>1, <2>1 DEF CoverInv
    <3>2. reminders'[k].sent > 0
      <4> HIDE DEF k
      <4>1. QED
        BY <2>3
    <3>3. \E p \in untouched'.periods : reminders'[<<p, e>>].sent > 0
      BY <3>1, <3>2
    <3>4. QED
      BY <3>3 DEF Covered
  <2>5. ASSUME NEW d \in Expenses, Covered(d)
        PROVE  Covered(d)'
    <3>1. PICK p \in untouched.periods : <<p, d>> \in registered \/ reminders[<<p, d>>].sent > 0
      BY <2>5 DEF Covered
    <3>2. p \in OpenedPeriods /\ <<p, d>> \in OpenedPeriods \X Expenses
      BY DEF TypeInv
    <3>3. reminders[<<p, d>>].sent > 0 => reminders'[<<p, d>>].sent > 0
      <4> HIDE DEF k
      <4>1. CASE <<p, d>> = k
        BY <2>3, <4>1
      <4>2. CASE <<p, d>> # k
        BY <2>3, <3>2, <4>2
      <4>3. QED
        BY <4>1, <4>2
    <3>4. QED
      BY <1>1, <3>1, <3>3 DEF Covered
  <2>6. \A d \in Expenses : Covered(d) => Covered(d)'
    BY <2>5
  <2> HIDE DEF k
  <2>7. QED
    BY <1>5, <2>1, <2>2, <2>4, <2>6
<1>8. CASE EndRun
  <2>1. /\ run # None /\ run' = None /\ UNCHANGED <<reminders, ran>>
        /\ run.visiting = None /\ run.left = {}
    BY <1>8 DEF EndRun
  <2>2. \A d \in Expenses : Done(d)' => Done(d)
    BY <1>1, <2>1, ValuesAssumption DEF Done, Ahead
  <2>3. QED
    BY <1>1, <1>2, <2>1, <2>2, CoverKept DEF CoverInv, Covered
<1>9. QED
  BY <1>3, <1>4, <1>6, <1>7, <1>8 DEF Run

\* At the end of a month everything that is due in it is done.
LEMMA DoneAtTick ==
  ASSUME TypeInv, Tick, NEW e \in Active, DueDay(expenses[e].dayOfMonth) <= day
  PROVE  Done(e)
<1>1. DueDay(expenses[e].dayOfMonth) \in Int /\ day \in Int
  <2>1. daysInMonth \in Nat /\ day \in 1 .. daysInMonth
    BY DaysOfMonth DEF TypeInv, TypeOK
  <2>2. DueDay(expenses[e].dayOfMonth) \in 1 .. daysInMonth
    BY ActiveIsExpense, DueDayInMonth DEF TypeInv, TypeOK
  <2>3. QED
    BY <2>1, <2>2
<1>2. ran /\ run = None
  BY DEF Tick
<1>3. QED
  BY <1>1, <1>2 DEF Done, Ahead

LEMMA CoverOfTick ==
  ASSUME TypeInv, CoverInv, Tick
  PROVE  CoverInv'
<1>1. /\ run = None /\ run' = None /\ ran' = FALSE
      /\ UNCHANGED <<expenses, period, registered, reminders>>
      /\ Active' = Active
  BY DEF Tick, Active, Stored
<1>2. Active \subseteq Expenses
  BY DEF Active
<1>3. CASE day < daysInMonth
  <2>1. day' = day + 1 /\ UNCHANGED <<month, untouched>>
        /\ \A e \in Expenses : DueDay(expenses[e].dayOfMonth)' = DueDay(expenses[e].dayOfMonth)
    BY <1>1, <1>3 DEF Tick, DueDay, daysInMonth
  <2>2. ASSUME NEW e \in Active, Done(e)'
        PROVE  Done(e)
    <3>1. DueDay(expenses[e].dayOfMonth) < day + 1
      BY <1>1, <1>2, <2>1, <2>2 DEF Done
    <3>2. daysInMonth \in Nat /\ day \in 1 .. daysInMonth
      BY DaysOfMonth DEF TypeInv, TypeOK
    <3>3. DueDay(expenses[e].dayOfMonth) \in 1 .. daysInMonth
      BY ActiveIsExpense, DueDayInMonth DEF TypeInv, TypeOK
    <3>4. DueDay(expenses[e].dayOfMonth) <= day
      BY <3>1, <3>2, <3>3
    <3>5. QED
      BY <3>4, DoneAtTick
  <2>3. QED
    BY <1>1, <2>1, <2>2, CoverKept DEF CoverInv, Covered
<1>4. CASE ~ (day < daysInMonth)
  <2>1. day' = 1 /\ untouched' = [expenses |-> Expenses, periods |-> {period}]
        /\ month' = (month % Len(MonthLengths)) + 1
    BY <1>4 DEF Tick
  <2>2. month' \in DOMAIN MonthLengths
    BY <2>1, NextMonth DEF TypeInv, TypeOK
  <2>3. ASSUME NEW e \in Active
        PROVE  ~ Done(e)'
    <3>1. expenses[e].dayOfMonth \in Nat \ {0}
      BY ActiveIsExpense, DueDaysAssumption DEF TypeInv
    <3>2. daysInMonth' \in Nat \ {0}
      BY <2>2, MonthLengthsAssumption DEF daysInMonth
    <3>3. DueDay(expenses[e].dayOfMonth)' =
            IF expenses[e].dayOfMonth < daysInMonth' THEN expenses[e].dayOfMonth ELSE daysInMonth'
      BY <1>1 DEF DueDay
    <3>4. ~ (DueDay(expenses[e].dayOfMonth)' < 1)
      BY <3>1, <3>2, <3>3
    <3>5. QED
      BY <1>1, <2>1, <3>4 DEF Done
  <2>4. QED
    BY <1>1, <2>1, <2>3 DEF CoverInv
<1>5. QED
  BY <1>3, <1>4

LEMMA NextCoverInv == TypeInv /\ CoverInv /\ [NextReminders]_reminderVars => CoverInv'
<1>1. TypeInv /\ CoverInv /\ Outage => CoverInv'
  BY DEF Outage, TypeInv, CoverInv
<1>2. CoverInv /\ UNCHANGED reminderVars => CoverInv'
  BY DEF reminderVars, CoverInv, Active, Stored, Done, Ahead, Covered, DueDay, daysInMonth
<1>3. QED
  BY <1>1, <1>2, CoverOfRequest, CoverOfRun, CoverOfTick DEF NextReminders

\* Of whatever length the month and however many expenses, salaries and payments
\* there are, an expense that is active all month is registered or reminded of.
THEOREM EveryDueIsAlwaysReminded == RemindersSpec => EveryDueIsReminded
<1>1. ASSUME TypeInv, CoverInv, NextReminders, month' # month,
             NEW e \in untouched.expenses \intersect Active
      PROVE  \E p \in untouched.periods :
                <<p, e>> \in registered \/ reminders[<<p, e>>].sent > 0
  <2>1. Tick /\ ~ (day < daysInMonth)
    BY <1>1 DEF NextReminders, ExpenseRequest, Run, SetExpense, Register, Unregister, OpenPeriod,
                MarkRead, MarkAllRead, UnchangedByRequest, StartRun, Visit, LookForPayment, Remind,
                EndRun, UnchangedByRun, Outage, Tick
  <2>2. daysInMonth \in Nat /\ day \in 1 .. daysInMonth
    BY <1>1, DaysOfMonth DEF TypeInv, TypeOK
  <2>3. DueDay(expenses[e].dayOfMonth) \in 1 .. daysInMonth
    BY <1>1, ActiveIsExpense, DueDayInMonth DEF TypeInv, TypeOK
  <2>4. DueDay(expenses[e].dayOfMonth) <= day
    BY <2>1, <2>2, <2>3
  <2>5. Done(e)
    BY <1>1, <2>1, <2>4, DoneAtTick
  <2>6. QED
    BY <1>1, <2>5 DEF CoverInv, Covered
<1>2. TypeInv /\ CoverInv /\ [NextReminders]_reminderVars =>
        [month' # month =>
           \A e \in untouched.expenses \intersect Active :
              \E p \in untouched.periods :
                 <<p, e>> \in registered \/ reminders[<<p, e>>].sent > 0]_reminderVars
  BY <1>1
<1>3. QED
  BY <1>2, InitTypeInv, NextTypeInv, InitCoverInv, NextCoverInv, PTL
     DEF RemindersSpec, EveryDueIsReminded

=============================================================================
