--------------------------- MODULE InstallmentPlans ---------------------------
(***************************************************************************)
(* InstallmentPlansService: plans of card installments, the purchase that  *)
(* raised the debt and the expenses that recognize the installments.       *)
(*                                                                         *)
(* As in Loans, a request reads the plan and decides what to write before  *)
(* it opens its transaction (registerPending: before it writes, in the     *)
(* same transaction, which under Read Committed protects it no better).    *)
(* Begin... is the read, the checks and the computation; the action named  *)
(* as the method is the transaction, which fails as a whole if a row it    *)
(* needs is gone or if (plan, number) is taken (a unique constraint).      *)
(*                                                                         *)
(* An expense is deleted by its id.  The id stands here as a version of    *)
(* (plan, number): a new one differs from all that requests still hold.    *)
(***************************************************************************)
EXTENDS InstallmentSchedule, FiniteSets

CONSTANTS
    Clients,        \* who sends requests, one at a time each
    PlanIds,
    MaxCount,       \* the most installments of a plan
    Plans,          \* the bodies of POST: plans as they are created
    Patches,        \* the bodies of PATCH
    Periods,        \* ranges of months that a register may ask for
    Categories,
    MaxMonth,       \* bound: no cut after this month is reached
    Anchor,         \* the month from which the card counts its movements
    Versions,       \* ids of the expenses of one installment
    Scopes,         \* bounds: which of these one behaviour uses together
    NotCreated, Gone, Idle,
    Unchanged,      \* a field a PATCH does not send
    Null

Months == 0 .. MaxMonth
Numbers == 1 .. MaxCount

Category == Categories \union {"OTHER", Null}

Plan == [kind : {"PURCHASE", "REFINANCE", "LEGACY"}, principal : Nat, count : Numbers,
         start : Months, first : Nat, billed : 0 .. MaxCount, recognizing : BOOLEAN,
         category : Category, status : {"ACTIVE", "SETTLED"},
         settlement : Numbers \union {Null}]

StructuralFields == {"principal", "count", "start", "first", "billed", "recognizing"}

ASSUME CountAssumption == MaxCount \in Nat
ASSUME ClientsAssumption == IsFiniteSet(Clients)

ASSUME PlansAssumption ==
    \A body \in Plans : body \in Plan /\ body.status = "ACTIVE" /\ body.settlement = Null

ASSUME RowsAssumption ==
    /\ NotCreated # Gone
    /\ NotCreated \notin Plan /\ Gone \notin Plan
    /\ Unchanged \notin Nat
    /\ Null \notin Numbers

\* An expense has an id, and there are more ids than requests to remember them.
ASSUME VersionsAssumption ==
    /\ NoRow.version \notin Versions
    /\ Versions # {}
    /\ \A held \in [Clients -> Versions] : \E v \in Versions : \A c \in Clients : held[c] # v

ASSUME PatchesAssumption ==
    Patches \subseteq [principal : Nat \union {Unchanged}, count : Numbers \union {Unchanged},
                      start : Months \union {Unchanged}, first : Nat \union {Unchanged},
                      billed : 0 .. MaxCount \union {Unchanged},
                      recognizing : BOOLEAN \union {Unchanged},
                      category : Category \union {Unchanged}]

ASSUME ScopesAssumption ==
    \A s \in Scopes : /\ s.clients \subseteq Clients
                      /\ s.plans \subseteq Plans
                      /\ s.patches \subseteq Patches
                      /\ s.periods \subseteq Periods
                      /\ s.months \in Months

VARIABLES
    plans,      \* installment_plans: id -> the plan
    purchases,  \* the FINANCED_PURCHASE of each plan: id -> [amount, month, category]
    expenses,   \* recognized installments: id -> number -> [version, amount, month, category]
    requests,   \* client -> the request it has read for and not yet written
    now,        \* the month of the last cut
    scope       \* what this behaviour uses; never changes

vars == <<plans, purchases, expenses, requests, now, scope>>

Exists(p) == plans[p] \notin {NotCreated, Gone}

Recognized(p) == {k \in Numbers : expenses[p][k] # NoRow}

CategoryOrOther(category) == IF category = Null THEN "OTHER" ELSE category

Init ==
    /\ plans     = [p \in PlanIds |-> NotCreated]
    /\ purchases = [p \in PlanIds |-> Null]
    /\ expenses  = [p \in PlanIds |-> [k \in Numbers |-> NoRow]]
    /\ requests  = [c \in Clients |-> Idle]
    /\ now       = 0
    /\ scope \in Scopes

\* A month passes.
Cut ==
    /\ now < scope.months
    /\ now' = now + 1
    /\ UNCHANGED <<plans, purchases, expenses, requests>>

\* What a request still holds as read of the expense of installment k.
Remembers(c, p, k, v) ==
    /\ requests[c] # Idle
    /\ requests[c].op \in {"unrecognize", "unsettle"}
    /\ requests[c].plan = p /\ requests[c].number = k /\ requests[c].version = v

FreshVersion(p, k) ==
    CHOOSE v \in Versions : \A c \in Clients : ~Remembers(c, p, k, v)

-----------------------------------------------------------------------------
(* create *)

\* What create and update require of a plan: the category of a purchase and of
\* installments that are recognized, billed below count, no future start, a
\* first cut not before the start, a purchase not before the anchor.
Valid(plan) ==
    /\ plan.kind = "PURCHASE" \/ plan.recognizing => plan.category # Null
    /\ plan.billed < plan.count

DatesAllowed(plan) ==
    /\ plan.start <= now
    /\ plan.first >= plan.start
    /\ plan.kind = "PURCHASE" => plan.start >= Anchor

Purchase(plan) ==
    [amount |-> plan.principal, month |-> plan.start, category |-> CategoryOrOther(plan.category)]

Create(p, body) ==
    /\ plans[p] = NotCreated
    /\ Valid(body) /\ DatesAllowed(body)
    /\ plans' = [plans EXCEPT ![p] = body]
    /\ purchases' = [purchases EXCEPT ![p] =
                       IF body.kind = "PURCHASE" THEN Purchase(body) ELSE Null]
    /\ UNCHANGED <<expenses, requests, now>>

-----------------------------------------------------------------------------
(* What a request reads, checks and computes before it writes *)

Begin(c, request) ==
    /\ requests[c] = Idle
    /\ requests' = [requests EXCEPT ![c] = request]
    /\ UNCHANGED <<plans, purchases, expenses, now>>

Sent(patch, plan, field) ==
    IF patch[field] = Unchanged THEN plan[field] ELSE patch[field]

Patched(plan, patch) == [f \in DOMAIN plan |-> IF f \in DOMAIN patch
                                               THEN Sent(patch, plan, f) ELSE plan[f]]

\* Of a plan that is settled, or has recognized installments, only the
\* category changes (and what is left out here).
BeginUpdate(c, p, patch) ==
    /\ Exists(p)
    /\ LET plan    == plans[p]
           updated == Patched(plan, patch)
       IN  /\ (\E f \in StructuralFields : patch[f] # Unchanged) =>
                  plan.status = "ACTIVE" /\ Recognized(p) = {}
           /\ Valid(updated)
           /\ patch.start # Unchanged => DatesAllowed(updated)
           /\ patch.first # Unchanged => updated.first >= updated.start
           /\ Begin(c, [op |-> "update", plan |-> p, to |-> updated,
                        principal |-> patch.principal,
                        recategorize |-> updated.category \notin {plan.category, Null}])

BeginRemove(c, p) ==
    /\ Exists(p)
    /\ Recognized(p) = {}
    /\ Begin(c, [op |-> "remove", plan |-> p])

\* The installments of all plans that registerPending found.
Pending(p, period) ==
    IF ~Exists(p) THEN {}
    ELSE {k \in Installments(plans[p]) :
            /\ StateOf(plans[p], expenses[p], k, now) = "PENDING"
            /\ DueMonth(plans[p], k) \in period}

BeginRegisterPending(c, period) ==
    /\ \E p \in PlanIds : Pending(p, period) # {}
    /\ Begin(c, [op |-> "registerPending",
                 items |-> [p \in PlanIds |->
                              [k \in Pending(p, period) |->
                                 [amount |-> PrincipalOf(plans[p], k),
                                  month |-> DueMonth(plans[p], k)]]]])

BeginRecognize(c, p, k) ==
    /\ Exists(p)
    /\ k \in Installments(plans[p])
    /\ StateOf(plans[p], expenses[p], k, now) = "PENDING"
    /\ Begin(c, [op |-> "recognize", plan |-> p, number |-> k,
                 amount |-> PrincipalOf(plans[p], k), month |-> DueMonth(plans[p], k),
                 category |-> plans[p].category])

\* The installment of the settlement is undone with it, not on its own.
BeginUnrecognize(c, p, k) ==
    /\ Exists(p)
    /\ k \in Recognized(p)
    /\ ~(plans[p].status = "SETTLED" /\ plans[p].settlement = k)
    /\ Begin(c, [op |-> "unrecognize", plan |-> p, number |-> k,
                 version |-> expenses[p][k].version])

\* Mutant: what is left includes what is recognized already.
RemainingTracked(p) ==
    IF plans[p].recognizing THEN {k \in Installments(plans[p]) : Tracked(plans[p], k)} ELSE {}

\* What is left of a plan that recognizes its installments, in one expense.
Remaining(p) ==
    IF plans[p].recognizing
    THEN {k \in Installments(plans[p]) :
            StateOf(plans[p], expenses[p], k, now) \in {"PENDING", "FUTURE"}}
    ELSE {}

BeginSettle(c, p, month) ==
    /\ Exists(p)
    /\ plans[p].status = "ACTIVE"
    /\ plans[p].start <= month /\ month <= now
    /\ Begin(c, [op |-> "settle", plan |-> p, month |-> month,
                 category |-> plans[p].category,
                 number |-> IF Remaining(p) = {} THEN Null ELSE Min(Remaining(p)),
                 amount |-> PrincipalOfAll(plans[p], Remaining(p))])

BeginUnsettle(c, p) ==
    /\ Exists(p)
    /\ plans[p].status = "SETTLED"
    /\ LET k == plans[p].settlement
           recorded == k # Null /\ k \in Recognized(p)
       IN  Begin(c, [op |-> "unsettle", plan |-> p,
                     number |-> IF recorded THEN k ELSE Null,
                     version |-> IF recorded THEN expenses[p][k].version ELSE Null])

-----------------------------------------------------------------------------
(* What it writes *)

Writes(c, op) == requests[c] # Idle /\ requests[c].op = op

Answer(c) == requests' = [requests EXCEPT ![c] = Idle]

\* createInstallmentExpense: the row that recognizes installment k.
Expense(p, k, amount, month, category) ==
    [version |-> FreshVersion(p, k), amount |-> amount, month |-> month,
     category |-> CategoryOrOther(category)]

\* What the plan, its purchase and its expenses are after the update: all is
\* written as it was checked, sent or not, but the principal.
PrincipalSent(q, stored) == IF q.principal = Unchanged THEN stored ELSE q.principal

\* Mutant: the amount of the purchase is that of the plan as it was read.
PurchaseAsRead(q, purchase) == Purchase(q.to)

UpdatedPurchase(q, purchase) ==
    [Purchase(q.to) EXCEPT !.amount = PrincipalSent(q, purchase.amount)]

Recategorized(q, row) ==
    IF q.recategorize /\ row # NoRow THEN [row EXCEPT !.category = q.to.category] ELSE row

Update(c) ==
    /\ Writes(c, "update")
    /\ LET q == requests[c]
           p == q.plan
       IN  /\ Exists(p)
           /\ plans' = [plans EXCEPT ![p] =
                [q.to EXCEPT !.principal  = PrincipalSent(q, plans[p].principal),
                             !.status     = plans[p].status,
                             !.settlement = plans[p].settlement]]
           /\ purchases' = [purchases EXCEPT ![p] =
                IF plans[p].kind = "PURCHASE" THEN UpdatedPurchase(q, @) ELSE @]
           /\ expenses' = [expenses EXCEPT ![p] = [k \in Numbers |-> Recategorized(q, @[k])]]
    /\ Answer(c)
    /\ UNCHANGED now

\* The foreign keys delete the purchase and the expenses of the plan.
Remove(c) ==
    /\ Writes(c, "remove")
    /\ LET p == requests[c].plan
       IN  /\ Exists(p)
           /\ plans' = [plans EXCEPT ![p] = Gone]
           /\ purchases' = [purchases EXCEPT ![p] = Null]
           /\ expenses' = [expenses EXCEPT ![p] = [k \in Numbers |-> NoRow]]
    /\ Answer(c)
    /\ UNCHANGED now

RegisterPending(c) ==
    /\ Writes(c, "registerPending")
    /\ LET items == requests[c].items
       IN  /\ \A p \in PlanIds, k \in Numbers : k \in DOMAIN items[p] =>
                 Exists(p) /\ expenses[p][k] = NoRow
           /\ expenses' = [p \in PlanIds |-> [k \in Numbers |->
                IF k \in DOMAIN items[p]
                THEN Expense(p, k, items[p][k].amount, items[p][k].month, plans[p].category)
                ELSE expenses[p][k]]]
    /\ Answer(c)
    /\ UNCHANGED <<plans, purchases, now>>

Recognize(c) ==
    /\ Writes(c, "recognize")
    /\ LET q == requests[c]
           p == q.plan
       IN  /\ Exists(p)
           /\ expenses[p][q.number] = NoRow
           /\ expenses' = [expenses EXCEPT ![p][q.number] =
                             Expense(p, q.number, q.amount, q.month, q.category)]
    /\ Answer(c)
    /\ UNCHANGED <<plans, purchases, now>>

\* Mutant: deletes the expense of the installment, whichever it is.
HoldsAny(p, k, version) == expenses[p][k] # NoRow

Holds(p, k, version) == expenses[p][k] # NoRow /\ expenses[p][k].version = version

Unrecognize(c) ==
    /\ Writes(c, "unrecognize")
    /\ LET q == requests[c]
       IN  /\ Holds(q.plan, q.number, q.version)
           /\ expenses' = [expenses EXCEPT ![q.plan][q.number] = NoRow]
    /\ Answer(c)
    /\ UNCHANGED <<plans, purchases, now>>

Settle(c) ==
    /\ Writes(c, "settle")
    /\ LET q == requests[c]
           p == q.plan
       IN  /\ Exists(p)
           /\ q.number # Null => expenses[p][q.number] = NoRow
           /\ plans' = [plans EXCEPT ![p].status = "SETTLED", ![p].settlement = q.number]
           /\ expenses' = IF q.number = Null THEN expenses
                          ELSE [expenses EXCEPT ![p][q.number] =
                                  Expense(p, q.number, q.amount, q.month, q.category)]
    /\ Answer(c)
    /\ UNCHANGED <<purchases, now>>

Unsettle(c) ==
    /\ Writes(c, "unsettle")
    /\ LET q == requests[c]
           p == q.plan
       IN  /\ Exists(p)
           /\ q.number # Null => Holds(p, q.number, q.version)
           /\ plans' = [plans EXCEPT ![p].status = "ACTIVE", ![p].settlement = Null]
           /\ expenses' = IF q.number = Null THEN expenses
                          ELSE [expenses EXCEPT ![p][q.number] = NoRow]
    /\ Answer(c)
    /\ UNCHANGED <<purchases, now>>

\* A row is gone or a number taken, or the server stopped before the commit.
Fail(c) ==
    /\ requests[c] # Idle
    /\ Answer(c)
    /\ UNCHANGED <<plans, purchases, expenses, now>>

Next ==
    /\ UNCHANGED scope
    /\ \/ Cut
       \/ \E p \in PlanIds, body \in scope.plans : Create(p, body)
       \/ \E c \in scope.clients, p \in PlanIds :
             \/ \E patch \in scope.patches : BeginUpdate(c, p, patch)
             \/ BeginRemove(c, p)
             \/ \E k \in Numbers : BeginRecognize(c, p, k) \/ BeginUnrecognize(c, p, k)
             \/ \E month \in Months : BeginSettle(c, p, month)
             \/ BeginUnsettle(c, p)
       \/ \E c \in scope.clients, period \in scope.periods : BeginRegisterPending(c, period)
       \/ \E c \in Clients :
             \/ Update(c) \/ Remove(c) \/ RegisterPending(c) \/ Recognize(c)
             \/ Unrecognize(c) \/ Settle(c) \/ Unsettle(c) \/ Fail(c)

Spec == Init /\ [][Next]_vars

-----------------------------------------------------------------------------
(* Properties *)

\* Every plan satisfies what create and update check, and its purchase is for
\* its principal, on its day and in its category: update writes together all
\* that it checked, so two updates that interleave leave one of the two.
PlansStayValid ==
    \A p \in PlanIds :
        /\ Exists(p) => Valid(plans[p])
        /\ purchases[p] = IF Exists(p) /\ plans[p].kind = "PURCHASE"
                          THEN Purchase(plans[p]) ELSE Null

\* A settlement that is in force has its expense, whatever requests were under
\* way when the plan was settled: an expense is deleted by the id that was read.
SettlementIsRecorded ==
    \A p \in PlanIds :
        Exists(p) /\ plans[p].status = "SETTLED" /\ plans[p].settlement # Null
            => expenses[p][plans[p].settlement] # NoRow

TrackedPrincipal(plan) == PrincipalOfAll(plan, {k \in Installments(plan) : Tracked(plan, k)})

RecognizedPrincipal(p) == AmountOfAll(expenses[p], Recognized(p))

Recognizing(p) == Exists(p) /\ plans[p].recognizing

\* What a plan charges to the periods, all of them together, is its tracked
\* principal while it is active: no installment counts twice, none is forgotten.
\* Once it is settled it is no more than that, unless the plan is of so few cents
\* that its last installment is below zero (2 in four is 1, 1, 1 and -1).
PrincipalChargedOnce ==
    \A p \in PlanIds : Recognizing(p) =>
        LET charged == InstallmentChargesInRange(plans[p], expenses[p], Nat)
        IN  IF plans[p].status = "ACTIVE" THEN charged = TrackedPrincipal(plans[p])
            ELSE PrincipalOf(plans[p], plans[p].count) >= 0 =>
                    charged <= TrackedPrincipal(plans[p])

\* Only one client sends requests: what a request reads is still so when it writes.
OneByOne == Cardinality(scope.clients) = 1

\* PrincipalChargedOnce of requests that come one by one, in whatever order:
\* edits before anything is recognized, installments recognized one by one or
\* all together and undone again, a plan settled and unsettled.
ChargedOnceOneByOne == OneByOne => PrincipalChargedOnce

\* A plan shown as finished has recognized all of its tracked principal and has
\* nothing left to bill: no plan leaves the list of the active ones with money
\* that no period was charged. Of requests that come one by one.
FinishedIsRecognized ==
    OneByOne => \A p \in PlanIds :
        Recognizing(p) /\ StatusView(plans[p], expenses[p], now) = "FINISHED"
            => /\ RecognizedPrincipal(p) = TrackedPrincipal(plans[p])
               /\ RemainingPrincipal(plans[p], now) = 0

=============================================================================
