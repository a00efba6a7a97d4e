------------------------------- MODULE Accounts -------------------------------
(***************************************************************************)
(* AccountsService, BalanceAdjustmentsService and NetWorthService: the     *)
(* products of the user, the anchor from which each counts its movements,  *)
(* and the history of the anchors.                                         *)
(*                                                                         *)
(* A request reads the account, checks what it would become and then       *)
(* writes, as in Loans: Begin... and the action that writes are two steps. *)
(*                                                                         *)
(* The days of movements and statements start at 1; an anchor of day 0 is  *)
(* one without a date, which counts every movement.  balanceBefore and     *)
(* balanceAfter of an adjustment are left out, and so are the name, the    *)
(* institution and the rate of an account.  One type stands for those that *)
(* hold a debit card, one for the others that are no cards; hasDigits says *)
(* whether there are cardLast4, and cycle is NoCycle unless both           *)
(* statementDay and paymentDueDay are set.  Only the days of a card are    *)
(* read off the calendar (today): the dates of its next cut and payment.   *)
(***************************************************************************)
EXTENDS CardCalendar, Sequences, FiniteSets

CONSTANTS
    Clients, AccountIds, MovementIds,
    Bodies,         \* the bodies of POST /accounts
    Patches,        \* the bodies of PATCH /accounts/:id
    MovementTypes,  \* the types of transaction in play
    Amounts,        \* amounts of movements and of balances
    Limits,         \* credit limits
    Cycles,         \* days of cut and of payment of the cards
    Today,          \* the last day that has passed
    MaxHistory,     \* bound: adjustments per account
    Scopes,         \* bounds: which of these one behaviour uses together
    NoLimit, NoCycle, NotCreated, Gone, Idle, Unchanged

AccountTypes == {"CREDIT_CARD", "SAVINGS_ACCOUNT", "CASH"}
DEBIT_CARD_HOLDER_TYPES == {"SAVINGS_ACCOUNT"}
Days == 1 .. Today

BALANCE_INCREASING_TYPES == {"INCOME", "LOAN_REPAYMENT"}
BALANCE_DECREASING_TYPES ==
    {"EXPENSE", "SAVING", "DEBT_PAYMENT", "LOAN_GIVEN", "TRANSFER", "FINANCED_PURCHASE"}

ProductFields == {"type", "hasDebitCard", "hasDigits", "creditLimit", "cycle"}

Product == [type : AccountTypes, hasDebitCard : BOOLEAN, hasDigits : BOOLEAN,
            creditLimit : Limits \union {NoLimit}, cycle : Cycles \union {NoCycle}]

ASSUME BodiesAssumption == Bodies \subseteq Product

ASSUME NotCreatedAssumption == NotCreated \notin Product

ASSUME NumbersAssumption == Amounts \subseteq Nat /\ Today \in Nat /\ MaxHistory \in Nat

ASSUME PatchesAssumption ==
    Patches \subseteq [type : AccountTypes \union {Unchanged},
                      hasDebitCard : BOOLEAN \union {Unchanged},
                      hasDigits : BOOLEAN \union {Unchanged},
                      creditLimit : Limits \union {NoLimit, Unchanged},
                      cycle : Cycles \union {NoCycle, Unchanged}]

ASSUME CyclesAssumption == Cycles \subseteq [statementDay : 1 .. 31, paymentDueDay : 1 .. 31]

ASSUME MovementTypesAssumption ==
    MovementTypes \subseteq BALANCE_INCREASING_TYPES \union BALANCE_DECREASING_TYPES

Movement == [account : AccountIds, to : AccountIds, type : MovementTypes, amount : Amounts, day : Days]

ASSUME MovementRowsAssumption ==
    /\ NotCreated \notin Movement /\ Gone \notin Movement
    /\ IsFiniteSet(MovementIds) /\ IsFiniteSet(AccountIds)

ASSUME ScopesAssumption ==
    \A s \in Scopes : /\ s.clients \subseteq Clients
                      /\ s.accounts \subseteq AccountIds
                      /\ s.bodies \subseteq Bodies
                      /\ s.patches \subseteq Patches
                      /\ s.types \subseteq MovementTypes
                      /\ s.amounts \subseteq Amounts
                      /\ s.limits \subseteq Limits
                      /\ s.history \in 0 .. MaxHistory
                      /\ IsCalendarDate(s.since) /\ IsCalendarDate(s.until)
                      /\ s.since.year > 1    \* months before it have a year

VARIABLES
    products,   \* accounts: id -> the attributes of the product
    anchors,    \* accounts: id -> [amount, since]
    history,    \* account_balance_adjustments: id -> sequence, the oldest first
    movements,  \* transactions: id -> [account, to, type, amount, day]
    plans,      \* the accounts that have installment plans
    requests,   \* client -> the request it has read for and not yet written
    today,      \* the date, as a card shows its days
    scope       \* what this behaviour uses; never changes

vars == <<products, anchors, history, movements, plans, requests, today, scope>>

Exists(a) == products[a] # NotCreated

Stored(m) == movements[m] \notin {NotCreated, Gone}

MovementsOf(a) == {m \in MovementIds : Stored(m) /\ a \in {movements[m].account, movements[m].to}}

NoAnchor == [amount |-> 0, since |-> 0]

Init ==
    /\ products  = [a \in AccountIds |-> NotCreated]
    /\ anchors   = [a \in AccountIds |-> NoAnchor]
    /\ history   = [a \in AccountIds |-> <<>>]
    /\ movements = [m \in MovementIds |-> NotCreated]
    /\ plans     = {}
    /\ requests  = [c \in Clients |-> Idle]
    /\ scope \in Scopes
    /\ today = scope.since

-----------------------------------------------------------------------------
(* Balances *)

Total(ms) == SumFunction([m \in ms |-> movements[m].amount])

\* computeCurrentBalance: a TRANSFER leaves its account and reaches `to`.
CurrentBalance(a) ==
    LET counted   == {m \in MovementsOf(a) : movements[m].day >= anchors[a].since}
        increases == {m \in counted : movements[m].account = a
                                      /\ movements[m].type \in BALANCE_INCREASING_TYPES}
        incoming  == {m \in counted : movements[m].to = a /\ movements[m].type = "TRANSFER"}
        decreases == {m \in counted : movements[m].account = a
                                      /\ movements[m].type \in BALANCE_DECREASING_TYPES}
    IN  anchors[a].amount + Total(increases) + Total(incoming) - Total(decreases)

Positive(n) == IF n > 0 THEN n ELSE 0

IsCard(a) == products[a].type = "CREDIT_CARD"

PlainAccounts == {a \in AccountIds : Exists(a) /\ ~IsCard(a)}

ConfiguredCards == {a \in AccountIds : Exists(a) /\ IsCard(a) /\ products[a].creditLimit # NoLimit}

\* Mutant: what a card has in favour of its holder is not counted.
AccountsBalanceWithoutCredit == SumFunction([a \in PlainAccounts |-> CurrentBalance(a)])

\* Accounts that are no cards, and what configured cards have in favour.
AccountsBalance ==
    SumFunction([a \in PlainAccounts |-> CurrentBalance(a)])
    + SumFunction([a \in ConfiguredCards |-> Positive(CurrentBalance(a))])

CreditCardsDebt == SumFunction([a \in ConfiguredCards |-> Positive(-CurrentBalance(a))])

\* Loans are left out: their movements are in the accounts, and what is owed
\* for them is the business of Loans.
NetWorth == AccountsBalance - CreditCardsDebt

-----------------------------------------------------------------------------
(* Other components: transactions and plans *)

\* TransactionsService.create, and LoansService and InstallmentPlansService for
\* their own types: a TRANSFER has another account to go to.  Movements without
\* an account are left out.
AddMovement(m, a, b, type, amount, day) ==
    /\ movements[m] = NotCreated
    /\ Exists(a) /\ Exists(b)
    /\ (type = "TRANSFER") = (a # b)
    /\ movements' = [movements EXCEPT ![m] =
                       [account |-> a, to |-> b, type |-> type, amount |-> amount, day |-> day]]
    /\ UNCHANGED <<products, anchors, history, plans, requests>>

\* update: what is a TRANSFER stays one, and nothing else becomes one.
EditMovement(m, a, b, type, amount, day) ==
    /\ Stored(m)
    /\ Exists(a) /\ Exists(b)
    /\ (type = "TRANSFER") = (movements[m].type = "TRANSFER")
    /\ (type = "TRANSFER") = (a # b)
    /\ movements' = [movements EXCEPT ![m] =
                       [account |-> a, to |-> b, type |-> type, amount |-> amount, day |-> day]]
    /\ UNCHANGED <<products, anchors, history, plans, requests>>

RemoveMovement(m) ==
    /\ Stored(m)
    /\ movements' = [movements EXCEPT ![m] = Gone]
    /\ UNCHANGED <<products, anchors, history, plans, requests>>

\* InstallmentPlansService.create: a plan needs a card with its days.
AddPlan(a) ==
    /\ Exists(a) /\ IsCard(a) /\ products[a].cycle # NoCycle
    /\ plans' = plans \union {a}
    /\ UNCHANGED <<products, anchors, history, movements, requests>>

RemovePlans(a) ==
    /\ a \in plans
    /\ plans' = plans \ {a}
    /\ UNCHANGED <<products, anchors, history, movements, requests>>

-----------------------------------------------------------------------------
(* AccountsService *)

\* assertProductFields
FieldsAllowed(product) ==
    /\ product.creditLimit # NoLimit \/ product.cycle # NoCycle => product.type = "CREDIT_CARD"
    /\ product.hasDebitCard => product.type \in DEBIT_CARD_HOLDER_TYPES
    /\ product.hasDigits => product.type = "CREDIT_CARD" \/ product.hasDebitCard

Create(a, body) ==
    /\ ~Exists(a)
    /\ FieldsAllowed(body)
    /\ products' = [products EXCEPT ![a] = body]
    /\ UNCHANGED <<anchors, history, movements, plans, requests>>

Begin(c, request) ==
    /\ requests[c] = Idle
    /\ requests' = [requests EXCEPT ![c] = request]
    /\ UNCHANGED <<products, anchors, history, movements, plans>>

Patched(product, patch) ==
    [f \in ProductFields |-> IF patch[f] = Unchanged THEN product[f] ELSE patch[f]]

\* A card and another account read their balances with opposite signs.
TypeChangeAllowed(a, patch) ==
    patch.type # Unchanged /\ (patch.type = "CREDIT_CARD") # IsCard(a) => MovementsOf(a) = {}

\* A card with a balance gets its first limit from a statement.
FirstLimitAllowed(a, patch) ==
    products[a].creditLimit = NoLimit /\ patch.creditLimit \notin {NoLimit, Unchanged} =>
        MovementsOf(a) = {} /\ anchors[a].amount = 0

\* Mutant: the plans of a card that only loses its days are not looked at.
PlansAllowDays(a, patch) == patch.type \notin {"CREDIT_CARD", Unchanged} => a \notin plans

\* The schedule of a plan comes from the days of its card.
PlansAllow(a, patch) ==
    patch.cycle = NoCycle \/ patch.type \notin {"CREDIT_CARD", Unchanged} => a \notin plans

BeginUpdate(c, a, patch) ==
    /\ Exists(a)
    /\ FieldsAllowed(Patched(products[a], patch))
    /\ TypeChangeAllowed(a, patch)
    /\ FirstLimitAllowed(a, patch)
    /\ PlansAllow(a, patch)
    /\ Begin(c, [op |-> "update", account |-> a, patch |-> patch])

Writes(c, op) == requests[c] # Idle /\ requests[c].op = op

Answer(c) == requests' = [requests EXCEPT ![c] = Idle]

\* Only the fields sent are written.
Update(c) ==
    /\ Writes(c, "update")
    /\ LET a == requests[c].account
       IN  products' = [products EXCEPT ![a] = Patched(@, requests[c].patch)]
    /\ Answer(c)
    /\ UNCHANGED <<anchors, history, movements, plans>>

-----------------------------------------------------------------------------
(* BalanceAdjustmentsService *)

\* What applyAnchor is going to write: the new anchor and limit, and the record
\* with those that were read.
BeginAnchor(c, a, reason, anchor, limit, reverts) ==
    Begin(c, [op |-> "applyAnchor", account |-> a,
              adjustment |-> [reason |-> reason, old |-> anchors[a], new |-> anchor,
                              oldLimit |-> products[a].creditLimit, newLimit |-> limit,
                              reverts |-> reverts]])

StartOfNextDay(day) == day + 1

\* The anchor is at the start of the day after the statement. What is owed on a
\* card is a negative balance; only a card may bring a limit with it.
BeginStatement(c, a, amount, day, limit) ==
    /\ Exists(a)
    /\ limit # NoLimit => IsCard(a)
    /\ BeginAnchor(c, a, "STATEMENT",
                   [amount |-> IF IsCard(a) THEN -amount ELSE amount, since |-> StartOfNextDay(day)],
                   IF limit = NoLimit THEN products[a].creditLimit ELSE limit, 0)

BeginInitialBalance(c, a, amount, day) ==
    /\ Exists(a)
    /\ BeginAnchor(c, a, "INITIAL_BALANCE", [amount |-> amount, since |-> day],
                   products[a].creditLimit, 0)

RevertedBy(a, k) == {j \in 1 .. Len(history[a]) : history[a][j].reverts = k}

ChangedLimit(adjustment) == adjustment.oldLimit # adjustment.newLimit

LimitRestorable(a, adjustment) ==
    ChangedLimit(adjustment) /\ adjustment.oldLimit # NoLimit => IsCard(a)

\* Mutant: any adjustment may be reverted, the current one or not.
RevertableAny(a, k) == RevertedBy(a, k) = {}

\* Not reverted yet, and its anchor is the one in force.
Revertable(a, k) ==
    /\ RevertedBy(a, k) = {}
    /\ anchors[a] = history[a][k].new

BeginRevert(c, a, k) ==
    /\ Exists(a)
    /\ k \in 1 .. Len(history[a])
    /\ Revertable(a, k)
    /\ LET adjustment == history[a][k]
       IN  /\ LimitRestorable(a, adjustment)
           /\ BeginAnchor(c, a, "REVERT", adjustment.old,
                          IF ChangedLimit(adjustment) THEN adjustment.oldLimit
                          ELSE products[a].creditLimit, k)

\* Mutant: a reversion leaves no record of its own.
RecordedUnlessRevert(a, adjustment) ==
    IF adjustment.reason = "REVERT" THEN history[a] ELSE Append(history[a], adjustment)

Recorded(a, adjustment) == Append(history[a], adjustment)

\* One transaction: the account and the record. An adjustment is reverted once
\* (a unique constraint).
ApplyAnchor(c) ==
    /\ Writes(c, "applyAnchor")
    /\ LET a == requests[c].account
           adjustment == requests[c].adjustment
       IN  /\ Len(history[a]) < scope.history
           /\ adjustment.reverts # 0 => RevertedBy(a, adjustment.reverts) = {}
           /\ anchors' = [anchors EXCEPT ![a] = adjustment.new]
           /\ products' = [products EXCEPT ![a].creditLimit = adjustment.newLimit]
           /\ history' = [history EXCEPT ![a] = Recorded(a, adjustment)]
    /\ Answer(c)
    /\ UNCHANGED <<movements, plans>>

\* The unique constraint refuses the write, or the server stopped before it.
Fail(c) ==
    /\ requests[c] # Idle
    /\ Answer(c)
    /\ UNCHANGED <<products, anchors, history, movements, plans>>

\* The requests that take one step: any client with none under way makes them.
Single ==
    /\ \E c \in scope.clients : requests[c] = Idle
    /\ \/ \E a \in scope.accounts :
             \/ \E body \in scope.bodies : Create(a, body)
             \/ AddPlan(a)
             \/ RemovePlans(a)
       \/ \E m \in MovementIds :
             \/ \E a, b \in scope.accounts, type \in scope.types, amount \in scope.amounts, day \in Days :
                   \/ AddMovement(m, a, b, type, amount, day)
                   \/ EditMovement(m, a, b, type, amount, day)
             \/ RemoveMovement(m)

\* A day passes.
Tomorrow ==
    /\ today # scope.until
    /\ today' = NextDay(today)
    /\ UNCHANGED <<products, anchors, history, movements, plans, requests>>

Request ==
    \/ Single
    \/ \E c \in scope.clients, a \in scope.accounts :
          \/ \E patch \in scope.patches : BeginUpdate(c, a, patch)
          \/ \E amount \in scope.amounts, day \in Days, limit \in scope.limits \union {NoLimit} :
                BeginStatement(c, a, amount, day, limit)
          \/ \E amount \in scope.amounts, day \in Days : BeginInitialBalance(c, a, amount, day)
          \/ \E k \in 1 .. MaxHistory : BeginRevert(c, a, k)
    \/ \E c \in Clients : Update(c) \/ ApplyAnchor(c) \/ Fail(c)

Next ==
    /\ UNCHANGED scope
    /\ \/ Tomorrow
       \/ Request /\ UNCHANGED today

Spec == Init /\ [][Next]_vars

-----------------------------------------------------------------------------
(* Properties *)

Anchor == [amount : Int, since : 0 .. Today + 1]

Adjustment == [reason : {"STATEMENT", "INITIAL_BALANCE", "REVERT"}, old : Anchor, new : Anchor,
               oldLimit : Limits \union {NoLimit}, newLimit : Limits \union {NoLimit},
               reverts : 0 .. MaxHistory]

TypeOK ==
    /\ products \in [AccountIds -> Product \union {NotCreated}]
    /\ anchors \in [AccountIds -> Anchor]
    /\ history \in [AccountIds -> Seq(Adjustment)]
    /\ movements \in [MovementIds -> Movement \union {NotCreated, Gone}]
    /\ plans \subseteq AccountIds
    /\ IsCalendarDate(today)

\* Only one client sends requests: what a request reads is still so when it writes.
OneByOne == \A c, d \in scope.clients : c = d

\* The latest adjustment of an account says what its anchor is, even if several
\* were under way.
LatestExplainsAnchor ==
    \A a \in AccountIds :
        anchors[a] = IF history[a] = <<>> THEN NoAnchor ELSE history[a][Len(history[a])].new

\* What each adjustment says there was before is what the one before it left:
\* undoing them goes back through every anchor there was ("Vuelve al ancla que
\* habia antes", revert). Of requests that come one by one.
HistoryIsAChain ==
    OneByOne => \A a \in AccountIds : \A k \in 1 .. Len(history[a]) :
        history[a][k].old = IF k = 1 THEN NoAnchor ELSE history[a][k - 1].new

\* Reverting an adjustment gives the anchor that was there before it, and its
\* limit if it had changed it. Of requests that come one by one.
RevertRestores ==
    OneByOne => \A a \in AccountIds : \A k \in 1 .. Len(history[a]) :
        history[a][k].reverts # 0 =>
            LET reverted == history[a][history[a][k].reverts]
            IN  /\ history[a][k].old = reverted.new
                /\ history[a][k].new = reverted.old
                /\ ChangedLimit(reverted) => history[a][k].newLimit = reverted.oldLimit

\* The card of a plan keeps the days that its schedule comes from, and the
\* attributes of every account fit together ("Se valida el estado final, no solo
\* lo que llega en el body", assertProductFields), whatever edits, statements,
\* reversions and plans led there: of requests that come one by one.
ProductsFit ==
    OneByOne => /\ \A a \in plans : IsCard(a) /\ products[a].cycle # NoCycle
                /\ \A a \in AccountIds : Exists(a) => FieldsAllowed(products[a])

CardCycles == {products[a].cycle : a \in {b \in AccountIds : Exists(b)}} \ {NoCycle}

\* The payments that fall on this day or later, of the cuts around it.
PaymentsAhead(cycle) ==
    {date \in {PaymentFor(cycle, shiftMonth(today, delta)) : delta \in -2 .. 0} :
        NotAfter(today, date)}

\* The next payment a card shows is the earliest one ahead, today included, in
\* months of any length: no payment is skipped. It holds of a card that pays
\* before it cuts again; of the others (cut on the 5th, paid on the 25th of the
\* next month) two payments may be ahead and the later one is shown.
NoPaymentIsSkipped ==
    \A cycle \in CardCycles : cycle.paymentDueDay <= cycle.statementDay =>
        \A date \in PaymentsAhead(cycle) : NotAfter(nextPaymentDate(cycle, today), date)

\* The month of the last cut, as the card shows the next one.
LastCut(cycle) ==
    LET next == statementOnOrAfter(cycle.statementDay, today)
    IN  monthIndex(next) - (IF next = today THEN 0 ELSE 1)

\* A plan bills its installments at the cuts of its card, day by day, across
\* months too short for the day and the end of the year: what is billed by now is
\* what counting the months of the cuts gives, as InstallmentSchedule does.
PlansFollowTheirCard ==
    \A cycle \in CardCycles :
        LET first == clampedDay(shiftMonth(today, -2), cycle.statementDay)
        IN  \A k \in 1 .. 4 :
               LET cut == StatementDate(cycle, first, k)
               IN  /\ IsCalendarDate(cut)
                   /\ NotAfter(cut, today) <=> monthIndex(first) + k - 1 <= LastCut(cycle)

\* Days of the last three months on which a period still open may have begun: the
\* first, and those that some months lack.
OpenStarts ==
    {start \in {clampedDay(shiftMonth(today, delta), day) : delta \in -2 .. 0, day \in {1} \union 29 .. 31} :
        NotAfter(start, today)}

\* An installment that the open period is charged is not lost when the next salary
\* comes early, late or not at all, across months of any length: if no salary comes
\* today it is in the range of tomorrow, and if one does it is in the period that
\* this closes or in the one it opens.
InstallmentsStayCharged ==
    \A cycle \in CardCycles, start \in OpenStarts, k \in 1 .. 3 :
        LET due == DueDate(cycle, shiftMonth(start, -1), k)
        IN  inRange(due, start, periodRangeEnd(start, today)) =>
                /\ inRange(due, start, periodRangeEnd(start, NextDay(today)))
                /\ inRange(due, start, today) \/ inRange(due, today, periodRangeEnd(today, today))

Counted(a) == Exists(a) /\ (IsCard(a) => a \in ConfiguredCards)

\* Money moved between two accounts that count, dated since both anchors, leaves
\* the net worth as it was; paying a card is such a movement.
TransfersKeepNetWorth ==
    [][\A m \in MovementIds :
         (movements[m] = NotCreated /\ movements'[m] # NotCreated /\ movements'[m].type = "TRANSFER")
         => LET t == movements'[m]
            IN  (\A a \in {t.account, t.to} : Counted(a) /\ t.day >= anchors[a].since)
                    => NetWorth' = NetWorth]_vars

=============================================================================
