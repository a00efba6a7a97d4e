-------------------------- MODULE InstallmentSchedule --------------------------
(***************************************************************************)
(* The calendar of a plan of card installments (installment-schedule.ts):  *)
(* what each installment is worth, when it is billed and due, its state,   *)
(* and what a plan charges to a period.                                    *)
(*                                                                         *)
(* A month is a number: an installment is billed at the cut of one month   *)
(* and due in the next; clamping the day of a cut to the length of the     *)
(* month never leaves the month.  Amounts count cents.                     *)
(*                                                                         *)
(* A plan is a record [principal, count, first, billed, recognizing,       *)
(* status, ...]; `rows` is the function from installment numbers to the    *)
(* recognized expense of each, or NoRow.                                   *)
(***************************************************************************)
EXTENDS Integers, FiniteSetsExt

CONSTANT NoRow      \* an installment without a recognized expense

\* principal / N rounded half up to a cent.
InstallmentAmount(principal, count) == (2 * principal + count) \div (2 * count)

Installments(plan) == 1 .. plan.count

PrincipalBefore(plan, k) ==
    plan.principal - (k - 1) * InstallmentAmount(plan.principal, plan.count)

\* The last installment is whatever is left.
PrincipalOf(plan, k) ==
    IF k = plan.count THEN PrincipalBefore(plan, k)
    ELSE InstallmentAmount(plan.principal, plan.count)

\* The principal of the installments ks of a plan.
PrincipalOfAll(plan, ks) == SumFunction([k \in ks |-> PrincipalOf(plan, k)])

\* What the expenses of the installments ks amount to.
AmountOfAll(rows, ks) == SumFunction([k \in ks |-> rows[k].amount])

StatementMonth(plan, k) == plan.first + k - 1

DueMonth(plan, k) == StatementMonth(plan, k) + 1

Billed(plan, k, now) == StatementMonth(plan, k) <= now

Tracked(plan, k) == k > plan.billed

StateOf(plan, rows, k, now) ==
    IF ~Tracked(plan, k)              THEN "BILLED_BEFORE_TRACKING"
    ELSE IF rows[k] # NoRow           THEN "RECOGNIZED"
    ELSE IF plan.status = "SETTLED"   THEN "SETTLED"
    ELSE IF ~plan.recognizing         THEN "NOT_RECOGNIZED"
    ELSE IF Billed(plan, k, now)      THEN "PENDING"
    ELSE "FUTURE"

StatusView(plan, rows, now) ==
    IF plan.status = "SETTLED" THEN "SETTLED"
    ELSE IF \A k \in Installments(plan) :
                Billed(plan, k, now) /\ StateOf(plan, rows, k, now) # "PENDING"
    THEN "FINISHED"
    ELSE "ACTIVE"

\* Mutant: what is billed is still to be billed at the cut.
RemainingIncludingCut(plan, now) ==
    IF plan.status = "SETTLED" THEN 0
    ELSE PrincipalOfAll(plan, {k \in Installments(plan) : StatementMonth(plan, k) >= now})

\* The principal that is not billed yet, none of it once the plan is settled.
RemainingPrincipal(plan, now) ==
    IF plan.status = "SETTLED" THEN 0
    ELSE plan.principal
         - PrincipalOfAll(plan, {k \in Installments(plan) : Billed(plan, k, now)})

\* What a plan charges to the months of `range`: the expense of what is
\* recognized, by its date, and the principal of what is not, by its due date.
InstallmentChargesInRange(plan, rows, range) ==
    IF ~plan.recognizing THEN 0
    ELSE AmountOfAll(rows, {k \in DOMAIN rows : rows[k] # NoRow /\ rows[k].month \in range})
         + IF plan.status = "SETTLED" THEN 0
           ELSE PrincipalOfAll(plan, {k \in Installments(plan) :
                                        /\ Tracked(plan, k)
                                        /\ rows[k] = NoRow
                                        /\ DueMonth(plan, k) \in range})

=============================================================================
