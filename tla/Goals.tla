------------------------------- MODULE Goals -------------------------------
(***************************************************************************)
(* The savings goals of one user, their contributions and the savings the  *)
(* ledgers count (GoalsService), and the monthly plan of a goal            *)
(* (calculateGoalPlan).                                                    *)
(*                                                                         *)
(* A contribution and a removal read the goal first and write it in a      *)
(* database transaction later; other requests come between the two.  The   *)
(* transaction takes the goal's row, then recalculates the ledgers of the  *)
(* periods from a date on, one after the other: it sums the savings of a   *)
(* period from what is committed by then and from what it wrote itself,    *)
(* and takes the ledger's row in a later statement.  A row it took is      *)
(* waited for by the others until it commits or is rolled back.  The       *)
(* periods are given and have ledgers.                                     *)
(*                                                                         *)
(* A day is a number, and a month has DaysInMonth of them.                 *)
(***************************************************************************)
EXTENDS Integers, FiniteSetsExt

CONSTANTS
    Clients,        \* who sends requests, one at a time each
    Plays,          \* for each client, which kinds of request it sends
    GoalIds, ContributionIds,
    Last,           \* the open period; the first is 1
    Targets,        \* target amounts, in cents
    Currents,       \* amounts a goal is given by hand
    Amounts,        \* amounts of contributions
    Dues,           \* target dates
    Days,           \* days a plan is read
    DaysInMonth,
    Unit,           \* cents in a unit of the currency
    NotCreated, Gone, Idle, Outside

ASSUME GoalAmountsAssumption ==
    Targets \subseteq Nat \ {0} /\ Currents \subseteq Nat /\ Amounts \subseteq Nat \ {0}
ASSUME GoalDaysAssumption ==
    Dues \subseteq Nat /\ Days \subseteq Nat /\ DaysInMonth \in Nat \ {0}
ASSUME UnitAssumption == Unit \in Nat \ {0}
ASSUME LastPeriodAssumption == Last \in Nat \ {0}
ASSUME GoalIdsAssumption == IsFiniteSet(Clients) /\ IsFiniteSet(ContributionIds)

VARIABLES
    goals,          \* goals: id -> a Goal, NotCreated or Gone
    contributions,  \* goal_contributions: id -> a Contribution, NotCreated or Gone
    saved,          \* period -> totalSavings of its ledger
    requests,       \* client -> what its request has read
    cascades,       \* client -> its transaction, or Outside
    sends           \* client -> the kinds of request it sends; never changes

vars == <<goals, contributions, saved, requests, cascades, sends>>

Periods == 1..Last
Statuses == {"ACTIVE", "COMPLETED", "PAUSED"}

Goal == [target : Targets, current : Nat, due : Dues, status : Statuses]
Contribution == [goal : GoalIds, amount : Amounts, period : Periods]

\* What a request keeps of what it read
RemoveRequest == [op : {"remove"}, goal : GoalIds, dates : SUBSET Periods]
ContributeRequest == [op : {"contribute"}, goal : GoalIds, amount : Amounts,
                      period : Periods, read : Nat, reached : BOOLEAN]

\* A transaction has written the ledgers of from..next-1, and then summed the
\* savings of next or not yet.
Cascade == [from : 1..Last + 1, next : 1..Last + 1, summed : BOOLEAN, sums : [Periods -> Int]]

ASSUME RowsAssumption ==
    /\ NotCreated # Gone
    /\ \A absent \in {NotCreated, Gone} : absent \notin Goal /\ absent \notin Contribution
    /\ Idle \notin RemoveRequest /\ Idle \notin ContributeRequest
    /\ Outside \notin Cascade

Exist(table) == {i \in DOMAIN table : table[i] \notin {NotCreated, Gone}}

Of(g) == {k \in Exist(contributions) : contributions[k].goal = g}

TotalOf(table, ids) == SumFunction([k \in ids |-> table[k].amount])

Contributed(table, p) == TotalOf(table, {k \in Exist(table) : table[k].period = p})

Init ==
    /\ goals = [g \in GoalIds |-> NotCreated]
    /\ contributions = [k \in ContributionIds |-> NotCreated]
    /\ saved = [p \in Periods |-> 0]
    /\ requests = [c \in Clients |-> Idle]
    /\ cascades = [c \in Clients |-> Outside]
    /\ sends \in Plays

-----------------------------------------------------------------------------
(* Requests *)

\* A goal whose row a transaction has written is waited for.
Locked(g) == \E d \in Clients : cascades[d] # Outside /\ requests[d].goal = g

Create(c, g, row) ==
    /\ "create" \in sends[c] /\ requests[c] = Idle
    /\ goals[g] = NotCreated
    /\ goals' = [goals EXCEPT ![g] = row]
    /\ UNCHANGED <<contributions, saved, requests, cascades, sends>>

\* Whatever fields are given are written, without a look at the others.
Update(c, g, changes) ==
    /\ "update" \in sends[c] /\ requests[c] = Idle
    /\ g \in Exist(goals) /\ ~ Locked(g)
    /\ goals' = [goals EXCEPT ![g] =
                    [f \in DOMAIN @ |-> IF f \in DOMAIN changes THEN changes[f] ELSE @[f]]]
    /\ UNCHANGED <<contributions, saved, requests, cascades, sends>>

Begin(c, kind, request) ==
    /\ kind \in sends[c] /\ requests[c] = Idle
    /\ requests' = [requests EXCEPT ![c] = request]
    /\ UNCHANGED <<goals, contributions, saved, cascades, sends>>

\* findOwned reads the contributions with the goal.
BeginRemove(c, g) ==
    /\ g \in Exist(goals)
    /\ Begin(c, "remove", [op |-> "remove", goal |-> g,
                           dates |-> {contributions[k].period : k \in Of(g)}])

\* Mutant: the contribution has to exceed what was missing.
ReachesBeyond(goal, amount) == goal.current + amount > goal.target

Reaches(goal, amount) == goal.current + amount >= goal.target

\* There is an id for the contribution: a bound of the runs.
BeginContribute(c, g, amount, p) ==
    /\ g \in Exist(goals)
    /\ \E k \in ContributionIds : contributions[k] = NotCreated
    /\ Begin(c, "contribute",
             [op |-> "contribute", goal |-> g, amount |-> amount, period |-> p,
              read |-> goals[g].current, reached |-> Reaches(goals[g], amount)])

\* $transaction: the first statements take the goal's row.
Open(c, op, from) ==
    /\ requests[c] # Idle /\ requests[c].op = op
    /\ cascades[c] = Outside
    /\ requests[c].goal \in Exist(goals) /\ ~ Locked(requests[c].goal)
    /\ cascades' = [cascades EXCEPT ![c] = [from |-> from, next |-> from, summed |-> FALSE,
                                           sums |-> [p \in Periods |-> 0]]]
    /\ UNCHANGED <<goals, contributions, saved, requests, sends>>

\* Mutant: recalculates from the last of the contributions.
LatestRead(dates) == IF dates = {} THEN Last + 1 ELSE Max(dates)

\* The earliest contribution read; without any there is nothing to recalculate.
EarliestRead(dates) == IF dates = {} THEN Last + 1 ELSE Min(dates)

\* The goal is deleted.
Remove(c) == Open(c, "remove", EarliestRead(requests[c].dates))

\* The contribution is inserted and the goal's amount incremented.
Contribute(c) == Open(c, "contribute", requests[c].period)

\* The contributions of a goal go with it (ON DELETE CASCADE).
WithoutGoal(g) ==
    [k \in DOMAIN contributions |-> IF k \in Of(g) THEN Gone ELSE contributions[k]]

\* What the sum of a period's contributions finds in the transaction of q: the
\* committed ones, without those of the goal it deleted, or with the one it
\* inserted.
SavingsSeen(q, p) ==
    IF q.op = "remove" THEN Contributed(WithoutGoal(q.goal), p)
    ELSE Contributed(contributions, p) + (IF q.period = p THEN q.amount ELSE 0)

\* computeAndUpsert reads before it writes.
SumSavings(c) ==
    /\ cascades[c] # Outside /\ cascades[c].next <= Last /\ ~ cascades[c].summed
    /\ cascades' = [cascades EXCEPT
                       ![c].summed = TRUE,
                       ![c].sums[cascades[c].next] = SavingsSeen(requests[c], cascades[c].next)]
    /\ UNCHANGED <<goals, contributions, saved, requests, sends>>

\* The ledgers that a transaction has written and not committed.
Taken(d) ==
    IF cascades[d] = Outside THEN {} ELSE cascades[d].from .. cascades[d].next - 1

WriteLedger(c) ==
    /\ cascades[c] # Outside /\ cascades[c].summed
    /\ \A d \in Clients \ {c} : cascades[c].next \notin Taken(d)
    /\ cascades' = [cascades EXCEPT ![c].summed = FALSE, ![c].next = @ + 1]
    /\ UNCHANGED <<goals, contributions, saved, requests, sends>>

\* Every ledger is written, and what the transaction wrote can be seen.
Commit(c, op) ==
    /\ cascades[c] # Outside /\ cascades[c].next > Last
    /\ requests[c].op = op
    /\ saved' = [p \in Periods |->
                    IF p >= cascades[c].from THEN cascades[c].sums[p] ELSE saved[p]]
    /\ cascades' = [cascades EXCEPT ![c] = Outside]
    /\ requests' = [requests EXCEPT ![c] = Idle]
    /\ UNCHANGED sends

CommitRemoval(c) ==
    /\ Commit(c, "remove")
    /\ contributions' = WithoutGoal(requests[c].goal)
    /\ goals' = [goals EXCEPT ![requests[c].goal] = Gone]

\* Mutant: writes the sum it computed from the goal it read.
SumOfRead(q) == q.read + q.amount

\* currentAmount: { increment: amount }, of the row that is taken since.
Incremented(q) == goals[q.goal].current + q.amount

CommitContribution(c, k) ==
    /\ Commit(c, "contribute")
    /\ contributions[k] = NotCreated
    /\ LET q == requests[c]
       IN  /\ contributions' = [contributions EXCEPT ![k] =
                                  [goal |-> q.goal, amount |-> q.amount, period |-> q.period]]
           /\ goals' = [goals EXCEPT ![q.goal].current = Incremented(q),
                                     ![q.goal].status = IF q.reached THEN "COMPLETED" ELSE @]

\* The goal is gone, the server stops before the commit, or the client does not
\* go on.
Rollback(c) ==
    /\ requests[c] # Idle
    /\ requests' = [requests EXCEPT ![c] = Idle]
    /\ cascades' = [cascades EXCEPT ![c] = Outside]
    /\ UNCHANGED <<goals, contributions, saved, sends>>

NewGoal == [target : Targets, current : Currents, due : Dues, status : Statuses]

Next == \E c \in Clients :
    \/ \E g \in GoalIds, row \in NewGoal :
          \/ Create(c, g, row)
          \/ \E fields \in SUBSET DOMAIN row \ {{}} :
                Update(c, g, [f \in fields |-> row[f]])
    \/ \E g \in GoalIds : BeginRemove(c, g)
    \/ \E g \in GoalIds, amount \in Amounts, p \in Periods : BeginContribute(c, g, amount, p)
    \/ Remove(c)
    \/ Contribute(c)
    \/ SumSavings(c)
    \/ WriteLedger(c)
    \/ CommitRemoval(c)
    \/ \E k \in ContributionIds : CommitContribution(c, k)
    \/ Rollback(c)

Spec == Init /\ [][Next]_vars

-----------------------------------------------------------------------------
(* The plan of a goal *)

MonthOf(day) == day \div DaysInMonth

Remaining(goal) == IF goal.current < goal.target THEN goal.target - goal.current ELSE 0

CalendarMonths(goal, today) == MonthOf(goal.due) - MonthOf(today)

\* Never 0: a goal due this month is due in one payment.
MonthsRemaining(goal, today) ==
    IF CalendarMonths(goal, today) < 1 THEN 1 ELSE CalendarMonths(goal, today)

\* Mutant: to the nearest unit.
RoundedToUnit(amount, months) == ((2 * amount + months * Unit) \div (2 * months * Unit)) * Unit

\* amount / months in whole units, rounded up.
InUnits(amount, months) ==
    ((amount + months * Unit - 1) \div (months * Unit)) * Unit

IsOverdue(goal, today) == goal.due < today

Required(goal, today) ==
    IF IsOverdue(goal, today) THEN Remaining(goal)
    ELSE InUnits(Remaining(goal), MonthsRemaining(goal, today))

-----------------------------------------------------------------------------
(* Properties *)

\* Nobody else sends requests.
OneByOne == Cardinality({c \in Clients : sends[c] # {}}) = 1

\* No contribution is lost, and none is counted twice, though each request
\* reads the goal before it writes: a goal's amount moves by what its
\* contributions move by, or is set by hand.
AmountsFollowContributions ==
    [][\A g \in Exist(goals) : (goals'[g] # Gone /\ contributions' # contributions) =>
          goals'[g].current - goals[g].current
          = TotalOf(contributions', Of(g)') - TotalOf(contributions, Of(g))]_vars

\* One request at a time, the contribution that reaches the target completes
\* the goal, and no other does.
CompletedWhenReached ==
    [][OneByOne => \A g \in GoalIds : Of(g)' \ Of(g) # {} =>
          \/ goals'[g].current >= goals'[g].target /\ goals'[g].status = "COMPLETED"
          \/ goals'[g].current < goals'[g].target /\ goals'[g].status = goals[g].status]_vars

\* All contributions that are committed are to one goal.
OneGoal == \A j, k \in Exist(contributions) : contributions[j].goal = contributions[k].goal

\* The savings of every ledger are the contributions of its period, for one
\* request at a time, and for contributions to one goal, however they overlap:
\* each sums after it has taken the goal's row.  Contributions to two goals take
\* two rows, and the later one to write a ledger may have summed too early.
SavingsFollowContributions ==
    (OneByOne \/ (OneGoal /\ \A c \in Clients : "remove" \notin sends[c])) =>
        \A p \in Periods : saved[p] = Contributed(contributions, p)

\* Paying the contribution a plan asks for every month reaches the target in
\* the months that remain, with less than a unit too much a month; and the plan
\* never asks more next month than it did this month, nor a different amount
\* later in the month while the goal is not overdue.  Only an active goal has one.
PlansReachTheirTarget ==
    \A g \in {h \in Exist(goals) : goals[h].status = "ACTIVE"}, today \in Days :
        LET goal == goals[g]
            months == MonthsRemaining(goal, today)
            required == Required(goal, today)
            paid == [goal EXCEPT !.current = @ + required]
        IN  ~ IsOverdue(goal, today) =>
              /\ months * required >= Remaining(goal)
              /\ Remaining(goal) > 0 => months * (required - Unit) < Remaining(goal)
              /\ \A later \in Days : (today <= later /\ ~ IsOverdue(goal, later)) =>
                    /\ MonthOf(later) = MonthOf(today) => Required(goal, later) = required
                    /\ MonthOf(later) = MonthOf(today) + 1 => Required(paid, later) <= required

=============================================================================
