------------------------------ MODULE GoalsProofs ------------------------------
(***************************************************************************)
(* What is proved of Goals for any number of clients, goals and            *)
(* contributions, any amounts, dates and length of the months: types, what *)
(* a goal has follows its contributions however requests interleave; of a  *)
(* request that is alone, that a goal is completed when it is reached; of  *)
(* requests that come one by one or contribute to one goal, that the       *)
(* savings of the ledgers are the contributions; and that every plan       *)
(* reaches its target.                                                     *)
(*                                                                         *)
(* The invariant adds what a request that is alone has read, which is      *)
(* still so when it writes; that a goal's row has one holder; and that     *)
(* what a transaction has summed is still so, while the committed          *)
(* contributions are to the goal whose row it holds.                       *)
(***************************************************************************)
EXTENDS Goals, FiniteTheorems, TLAPS

Request == RemoveRequest \union ContributeRequest

Contributions == [ContributionIds -> Contribution \union {NotCreated, Gone}]

\* A request under way is of a kind its client sends.
TypeOK ==
    /\ goals \in [GoalIds -> Goal \union {NotCreated, Gone}]
    /\ contributions \in Contributions
    /\ saved \in [Periods -> Int]
    /\ requests \in [Clients -> Request \union {Idle}]
    /\ cascades \in [Clients -> Cascade \union {Outside}]
    /\ \A c \in Clients : requests[c] # Idle => requests[c].op \in sends[c]
    /\ \A c \in Clients : cascades[c] # Outside =>
          /\ requests[c] # Idle
          /\ cascades[c].summed => cascades[c].next <= Last

\* What a request has read is so.
StillSo(q) ==
    /\ q \in RemoveRequest => q.dates = {contributions[k].period : k \in Of(q.goal)}
    /\ q \in ContributeRequest =>
          q.goal \in Exist(goals) /\ q.reached = Reaches(goals[q.goal], q.amount)

AloneInv == OneByOne => \A c \in Clients : requests[c] # Idle => StillSo(requests[c])

\* A transaction that is under way holds the row of its goal.
Holds(c, g) == cascades[c] # Outside /\ requests[c].goal = g

\* Where the recalculation of a request starts.
StartOf(q) == IF q.op = "remove" THEN EarliestRead(q.dates) ELSE q.period

\* A goal's row has one holder; the goal that is held exists; a transaction
\* starts where its request says.
RowsInv ==
    /\ \A c, d \in Clients : c # d => \A g \in GoalIds : ~ (Holds(c, g) /\ Holds(d, g))
    /\ \A c \in Clients : cascades[c] # Outside =>
          /\ requests[c].goal \in Exist(goals)
          /\ cascades[c].from = StartOf(requests[c])

\* Nothing that is committed while the request runs can make its sums stale.
Undisturbed(q) ==
    \/ OneByOne
    \/ /\ \A c \in Clients : "remove" \notin sends[c]
       /\ \A k \in Exist(contributions) : contributions[k].goal = q.goal

\* The periods a transaction has summed.
Summed(t) == {p \in Periods : p >= t.from /\ (p < t.next \/ (p = t.next /\ t.summed))}

SumsRight(c) == \A p \in Summed(cascades[c]) : cascades[c].sums[p] = SavingsSeen(requests[c], p)

SumsInv ==
    \A c \in Clients : (cascades[c] # Outside /\ Undisturbed(requests[c])) => SumsRight(c)

Inv == TypeOK /\ RowsInv /\ AloneInv /\ SumsInv /\ SavingsFollowContributions

-----------------------------------------------------------------------------
(* Types *)

\* What exists is a row, and conversely.
LEMMA RowsExist ==
  ASSUME TypeOK
  PROVE  /\ \A g \in GoalIds : g \in Exist(goals) <=> goals[g] \in Goal
         /\ \A k \in ContributionIds : k \in Exist(contributions)
                                         <=> contributions[k] \in Contribution
         /\ Exist(goals) \subseteq GoalIds /\ Exist(contributions) \subseteq ContributionIds
BY RowsAssumption DEF TypeOK, Contributions, Exist

\* A request under way is a record of its kind.
LEMMA RequestOfKind ==
  ASSUME TypeOK, NEW c \in Clients, requests[c] # Idle
  PROVE  /\ requests[c] \in Request
         /\ requests[c].op = "remove" => requests[c] \in RemoveRequest
         /\ requests[c].op = "contribute" => requests[c] \in ContributeRequest
         /\ requests[c].op \in sends[c]
BY DEF TypeOK, Request, RemoveRequest, ContributeRequest

\* A new goal is a goal.
LEMMA NewIsGoal == NewGoal \subseteq Goal
BY GoalAmountsAssumption DEF NewGoal, Goal

LEMMA InitTypeOK == Init => TypeOK /\ RowsInv
BY DEF Init, TypeOK, RowsInv, Contributions, Holds

\* A finite set of numbers has a least.
LEMMA LeastOfSet ==
  ASSUME NEW S \in SUBSET Int, IsFiniteSet(S), S # {}
  PROVE  Min(S) \in S /\ \A x \in S : Min(S) <= x
<1> DEFINE Below(m) == {x \in S : x < m}
           Sets == {Below(m) : m \in S}
<1>1. Sets \in SUBSET (SUBSET S) /\ Sets # {}
  OBVIOUS
<1>2. \A X \in Sets : \E m \in S : X = Below(m)
  OBVIOUS
<1>3. \A m \in S : Below(m) \in Sets
  OBVIOUS
<1> HIDE DEF Sets
<1>4. PICK X \in Sets : \A Y \in SUBSET X : Y # X => Y \notin Sets
  BY <1>1, LeastSubset
<1>5. PICK m \in S : X = Below(m)
  BY <1>2
<1>6. ASSUME NEW x \in S, x < m
      PROVE  FALSE
  <2>1. ~ (x < x) /\ \A y \in S : y < x => y < m
    <3>1. m \in Int /\ x \in Int /\ \A y \in S : y \in Int
      OBVIOUS
    <3>2. QED
      BY <1>6, <3>1
  <2>2. Below(x) \in SUBSET X /\ x \in X /\ x \notin Below(x)
    BY <1>5, <1>6, <2>1
  <2>3. QED
    BY <1>3, <1>4, <2>2
<1>7. \A x \in S : m <= x
  BY <1>6
<1>8. QED
  BY <1>7 DEF Min

\* A transaction starts at a period, or after the last.
LEMMA StartInRange ==
  /\ \A dates \in SUBSET Periods : EarliestRead(dates) \in 1..Last + 1
  /\ \A q \in Request : StartOf(q) \in 1..Last + 1
<1>1. ASSUME NEW dates \in SUBSET Periods
      PROVE  EarliestRead(dates) \in 1..Last + 1
  <2>1. CASE dates = {}
    BY <2>1, LastPeriodAssumption DEF EarliestRead
  <2>2. CASE dates # {}
    <3>1. 1 \in Int /\ Last \in Int
      BY LastPeriodAssumption
    <3>2. IsFiniteSet(dates) /\ dates \in SUBSET Int
      <4>1. IsFiniteSet(1..Last) /\ dates \in SUBSET (1..Last)
        BY <3>1, FS_Interval DEF Periods
      <4>2. IsFiniteSet(dates)
        BY <4>1, FS_Subset
      <4>3. (1..Last) \in SUBSET Int
        BY <3>1
      <4>4. QED
        BY <4>1, <4>2, <4>3
    <3>3. Min(dates) \in dates
      BY <2>2, <3>2, LeastOfSet
    <3>4. Min(dates) \in 1..Last
      BY <3>3 DEF Periods
    <3>5. QED
      BY <2>2, <3>1, <3>4 DEF EarliestRead
  <2>3. QED
    BY <2>1, <2>2
<1>2. ASSUME NEW q \in Request
      PROVE  StartOf(q) \in 1..Last + 1
  <2>1. CASE q \in RemoveRequest
    BY <1>1, <2>1 DEF RemoveRequest, StartOf
  <2>2. CASE q \in ContributeRequest
    BY <2>2, LastPeriodAssumption DEF ContributeRequest, StartOf, Periods
  <2>3. QED
    BY <2>1, <2>2 DEF Request
<1>3. QED
  BY <1>1, <1>2

\* A transaction under way is a record.
LEMMA CascadeOf ==
  ASSUME TypeOK, NEW c \in Clients, cascades[c] # Outside
  PROVE  /\ cascades[c] \in Cascade /\ requests[c] # Idle
         /\ cascades[c].summed => cascades[c].next <= Last
BY DEF TypeOK

\* What a contribution writes.
LEMMA ContributionWrites ==
  ASSUME TypeOK, NEW c \in Clients, NEW k \in ContributionIds, CommitContribution(c, k),
         requests[c].goal \in Exist(goals)
  PROVE  LET q == requests[c]
             row == [goal |-> q.goal, amount |-> q.amount, period |-> q.period]
         IN  /\ q \in ContributeRequest /\ goals[q.goal] \in Goal
             /\ contributions[k] = NotCreated /\ row \in Contribution
             /\ contributions' = [contributions EXCEPT ![k] = row]
             /\ goals' = [goals EXCEPT ![q.goal] =
                            [goals[q.goal] EXCEPT
                                !.current = goals[q.goal].current + q.amount,
                                !.status = IF q.reached THEN "COMPLETED"
                                           ELSE goals[q.goal].status]]
             /\ goals'[q.goal] \in Goal
<1> DEFINE q == requests[c]
           g == q.goal
           status == IF q.reached THEN "COMPLETED" ELSE goals[g].status
           new == [goals[g] EXCEPT !.current = goals[g].current + q.amount, !.status = status]
<1>1. q \in ContributeRequest
  BY CascadeOf, RequestOfKind DEF CommitContribution, Commit
<1>2. /\ g \in GoalIds /\ goals[g] \in Goal
      /\ [goal |-> q.goal, amount |-> q.amount, period |-> q.period] \in Contribution
  BY <1>1, RowsExist DEF ContributeRequest, Contribution
<1>3. goals[g].current + q.amount \in Nat /\ status \in Statuses
  <2>1. q.amount \in Amounts /\ goals[g].current \in Nat /\ goals[g].status \in Statuses
    BY <1>1, <1>2 DEF ContributeRequest, Goal
  <2>2. q.amount \in Nat
    BY <2>1, GoalAmountsAssumption
  <2>3. QED
    BY <2>1, <2>2 DEF Statuses
<1>4. new \in Goal
  BY <1>2, <1>3 DEF Goal
<1>5. goals' = [goals EXCEPT ![g] = new]
  <2>1. goals' = [goals EXCEPT ![g].current = goals[g].current + q.amount,
                               ![g].status = IF q.reached THEN "COMPLETED" ELSE @]
    BY DEF CommitContribution, Incremented
  <2>2. goals \in [GoalIds -> Goal \union {NotCreated, Gone}]
    BY DEF TypeOK
  <2>3. QED
    BY <1>2, <2>1, <2>2 DEF Goal
<1>6. goals'[g] = new
  BY <1>2, <1>5 DEF TypeOK
<1>7. QED
  BY <1>1, <1>2, <1>4, <1>5, <1>6 DEF CommitContribution

\* A commit makes the transaction's savings those of the ledgers, and ends it.
LEMMA CommitWrites ==
  ASSUME NEW c \in Clients, NEW op, Commit(c, op)
  PROVE  /\ cascades[c] # Outside /\ requests[c].op = op /\ cascades[c].next > Last
         /\ saved' = [p \in Periods |->
                        IF p >= cascades[c].from THEN cascades[c].sums[p] ELSE saved[p]]
         /\ cascades' = [cascades EXCEPT ![c] = Outside]
         /\ requests' = [requests EXCEPT ![c] = Idle]
         /\ sends' = sends
BY DEF Commit

\* A removal takes the contributions of the goal with it.
LEMMA RemovalWrites ==
  ASSUME TypeOK, NEW c \in Clients, CommitRemoval(c)
  PROVE  LET q == requests[c]
         IN  /\ q \in RemoveRequest /\ q.goal \in GoalIds
             /\ contributions' = WithoutGoal(q.goal)
             /\ goals' = [goals EXCEPT ![q.goal] = Gone]
<1>1. requests[c] \in RemoveRequest
  BY CascadeOf, RequestOfKind DEF CommitRemoval, Commit
<1>2. QED
  BY <1>1 DEF CommitRemoval, RemoveRequest

\* What a goal leaves behind are contributions.
LEMMA WithoutGoalType ==
  ASSUME TypeOK, NEW g
  PROVE  /\ WithoutGoal(g) \in Contributions
         /\ Of(g) \subseteq Exist(contributions)
         /\ Exist(WithoutGoal(g)) = Exist(contributions) \ Of(g)
         /\ \A k \in Exist(contributions) \ Of(g) : WithoutGoal(g)[k] = contributions[k]
<1> DEFINE gone == Of(g)
<1>1. DOMAIN contributions = ContributionIds
  BY DEF TypeOK, Contributions
<1>2. gone \subseteq Exist(contributions)
  BY DEF Of
<1>3. WithoutGoal(g) = [k \in ContributionIds |-> IF k \in gone THEN Gone ELSE contributions[k]]
  BY <1>1 DEF WithoutGoal
<1> HIDE DEF gone
<1>4. WithoutGoal(g) \in Contributions
  BY <1>3 DEF TypeOK, Contributions
<1>5. Exist(WithoutGoal(g)) = Exist(contributions) \ gone
  BY <1>1, <1>2, <1>3 DEF Exist
<1>6. \A k \in Exist(contributions) \ gone : WithoutGoal(g)[k] = contributions[k]
  BY <1>1, <1>3 DEF Exist
<1>7. QED
  BY <1>2, <1>4, <1>5, <1>6 DEF gone

\* A sum of amounts is an integer.
LEMMA TotalIsInt ==
  ASSUME NEW table, NEW ids \in SUBSET ContributionIds, \A k \in ids : table[k].amount \in Int
  PROVE  TotalOf(table, ids) \in Int
<1> DEFINE f == [k \in ids |-> table[k].amount]
<1>1. IsFiniteSet(ids)
  BY GoalIdsAssumption, FS_Subset
<1>2. SumFunctionOnSet(f, ids) \in Int
  BY <1>1, SumIsInt
<1>3. QED
  BY <1>2, SumOfTable DEF TotalOf

\* Equal rows have equal totals.
LEMMA SameTotal ==
  ASSUME NEW table, NEW other, NEW ids, \A k \in ids : other[k] = table[k]
  PROVE  TotalOf(other, ids) = TotalOf(table, ids)
<1>1. [k \in ids |-> other[k].amount] = [k \in ids |-> table[k].amount]
  OBVIOUS
<1>2. QED
  BY <1>1 DEF TotalOf

\* One more contribution adds its amount.
LEMMA TotalWithOneMore ==
  ASSUME NEW table, NEW other, NEW ids \in SUBSET ContributionIds,
         NEW k \in ContributionIds, k \notin ids, other[k].amount \in Int,
         \A j \in ids : table[j].amount \in Int /\ other[j] = table[j]
  PROVE  TotalOf(other, ids \union {k}) = TotalOf(table, ids) + other[k].amount
<1> DEFINE f == [j \in ids |-> table[j].amount]
           g == [j \in ids \union {k} |-> other[j].amount]
<1>1. IsFiniteSet(ids)
  BY GoalIdsAssumption, FS_Subset
<1>2. SumFunctionOnSet(g, ids \union {k}) = g[k] + SumFunctionOnSet(f, ids)
  <2>1. g[k] \in Int /\ \A x \in ids : f[x] \in Int /\ g[x] = f[x]
    OBVIOUS
  <2> HIDE DEF f, g
  <2>2. QED
    BY <1>1, <2>1, SumWithOneMore
<1>3. TotalOf(other, ids \union {k}) = SumFunctionOnSet(g, ids \union {k})
  BY SumOfTable DEF TotalOf
<1>4. TotalOf(table, ids) = SumFunctionOnSet(f, ids) /\ SumFunctionOnSet(f, ids) \in Int
  BY <1>1, SumOfTable, SumIsInt DEF TotalOf
<1>5. QED
  BY <1>2, <1>3, <1>4

\* Contributions are of amounts.
LEMMA AmountsOfRows ==
  ASSUME NEW table \in Contributions
  PROVE  \A k \in Exist(table) :
            /\ k \in ContributionIds /\ table[k] \in Contribution
            /\ table[k].amount \in Nat /\ table[k].period \in Periods
BY GoalAmountsAssumption DEF Contributions, Exist, Contribution

\* The savings of a period are an integer.
LEMMA ContributedIsInt ==
  ASSUME NEW table \in Contributions, NEW p
  PROVE  Contributed(table, p) \in Int
<1> DEFINE ids == {k \in Exist(table) : table[k].period = p}
<1>1. ids \in SUBSET ContributionIds /\ \A k \in ids : table[k].amount \in Int
  BY AmountsOfRows
<1>2. QED
  BY <1>1, TotalIsInt DEF Contributed

\* So is what a transaction sees of them.
LEMMA SeenIsInt ==
  ASSUME TypeOK, NEW q \in Request, NEW p
  PROVE  SavingsSeen(q, p) \in Int
<1>1. CASE q.op = "remove"
  BY <1>1, WithoutGoalType, ContributedIsInt DEF SavingsSeen
<1>2. CASE q.op # "remove"
  <2>1. q.amount \in Nat
    BY <1>2, GoalAmountsAssumption DEF Request, RemoveRequest, ContributeRequest
  <2>2. Contributed(contributions, p) \in Int
    BY ContributedIsInt DEF TypeOK
  <2>3. QED
    BY <1>2, <2>1, <2>2 DEF SavingsSeen
<1>3. QED
  BY <1>1, <1>2

-----------------------------------------------------------------------------
(* Every step keeps the types *)

\* A transaction begins as a record.
LEMMA OpenTypeOK ==
  ASSUME TypeOK, NEW c \in Clients, NEW op, NEW from \in 1..Last + 1, Open(c, op, from)
  PROVE  TypeOK'
<1> DEFINE t == [from |-> from, next |-> from, summed |-> FALSE, sums |-> [p \in Periods |-> 0]]
<1>1. t \in Cascade /\ t.summed = FALSE
  BY DEF Cascade
<1>2. cascades' = [cascades EXCEPT ![c] = t] /\ requests[c] # Idle
  BY DEF Open
<1>3. UNCHANGED <<goals, contributions, saved, requests, sends>>
  BY DEF Open
<1> HIDE DEF t
<1>4. QED
  BY <1>1, <1>2, <1>3 DEF TypeOK

\* A commit leaves every request as it is or ended.
LEMMA CommitTypeOK ==
  ASSUME TypeOK, NEW c \in Clients, NEW op, Commit(c, op),
         goals' \in [GoalIds -> Goal \union {NotCreated, Gone}],
         contributions' \in Contributions
  PROVE  TypeOK'
<1>1. cascades[c] \in Cascade
  BY CascadeOf, CommitWrites
<1>2. saved' \in [Periods -> Int]
  BY <1>1, CommitWrites DEF Cascade, TypeOK
<1>3. QED
  BY <1>2, CommitWrites DEF TypeOK

LEMMA NextTypeOK == TypeOK /\ RowsInv /\ [Next]_vars => TypeOK'
<1> SUFFICES ASSUME TypeOK, RowsInv, [Next]_vars
             PROVE  TypeOK'
  OBVIOUS
<1>1. CASE UNCHANGED vars
  BY <1>1 DEF vars, TypeOK
<1>2. ASSUME NEW c \in Clients, NEW g \in GoalIds, NEW row \in NewGoal, Create(c, g, row)
      PROVE  TypeOK'
  BY <1>2, NewIsGoal DEF Create, TypeOK
<1>3. ASSUME NEW c \in Clients, NEW g \in GoalIds, NEW row \in NewGoal,
             NEW fields \in SUBSET DOMAIN row, Update(c, g, [f \in fields |-> row[f]])
      PROVE  TypeOK'
  <2> DEFINE new == [f \in DOMAIN goals[g] |-> IF f \in fields THEN row[f] ELSE goals[g][f]]
  <2>1. goals[g] \in Goal /\ row \in Goal
    BY <1>3, RowsExist, NewIsGoal DEF Update
  <2>2. new \in Goal
    BY <2>1 DEF Goal
  <2>3. goals' = [goals EXCEPT ![g] = new]
    BY <1>3 DEF Update
  <2>4. QED
    BY <1>3, <2>2, <2>3 DEF Update, TypeOK
<1>4. ASSUME NEW c \in Clients, NEW q \in Request, q.op \in sends[c], Begin(c, q.op, q)
      PROVE  TypeOK'
  <2>1. /\ requests' = [requests EXCEPT ![c] = q]
        /\ UNCHANGED <<goals, contributions, saved, cascades, sends>>
    BY <1>4 DEF Begin
  <2>2. q # Idle
    BY RowsAssumption DEF Request
  <2>3. QED
    BY <1>4, <2>1, <2>2 DEF TypeOK
<1>5. ASSUME NEW c \in Clients, NEW g \in GoalIds, BeginRemove(c, g)
      PROVE  TypeOK'
  <2> DEFINE q == [op |-> "remove", goal |-> g, dates |-> {contributions[k].period : k \in Of(g)}]
  <2>1. {contributions[k].period : k \in Of(g)} \subseteq Periods
    BY AmountsOfRows DEF Of, TypeOK
  <2>2. q \in Request /\ q.op = "remove"
    BY <2>1 DEF RemoveRequest, Request
  <2>3. Begin(c, "remove", q) /\ "remove" \in sends[c]
    BY <1>5 DEF BeginRemove, Begin
  <2> HIDE DEF q
  <2>4. QED
    BY <1>4, <2>2, <2>3
<1>6. ASSUME NEW c \in Clients, NEW g \in GoalIds, NEW amount \in Amounts, NEW p \in Periods,
             BeginContribute(c, g, amount, p)
      PROVE  TypeOK'
  <2> DEFINE q == [op |-> "contribute", goal |-> g, amount |-> amount, period |-> p,
                   read |-> goals[g].current, reached |-> Reaches(goals[g], amount)]
  <2>1. goals[g] \in Goal
    BY <1>6, RowsExist DEF BeginContribute
  <2>2. q \in Request /\ q.op = "contribute"
    BY <2>1 DEF ContributeRequest, Request, Goal, Reaches
  <2>3. Begin(c, "contribute", q) /\ "contribute" \in sends[c]
    BY <1>6 DEF BeginContribute, Begin
  <2> HIDE DEF q
  <2>4. QED
    BY <1>4, <2>2, <2>3
<1>7. ASSUME NEW c \in Clients, Remove(c)
      PROVE  TypeOK'
  <2>1. requests[c] \in RemoveRequest
    BY <1>7, RequestOfKind DEF Remove, Open
  <2>2. EarliestRead(requests[c].dates) \in 1..Last + 1
    BY <2>1, StartInRange DEF RemoveRequest
  <2>3. QED
    BY <1>7, <2>2, OpenTypeOK DEF Remove
<1>8. ASSUME NEW c \in Clients, Contribute(c)
      PROVE  TypeOK'
  <2>1. requests[c] \in ContributeRequest
    BY <1>8, RequestOfKind DEF Contribute, Open
  <2>2. requests[c].period \in 1..Last + 1
    BY <2>1, LastPeriodAssumption DEF ContributeRequest, Periods
  <2>3. QED
    BY <1>8, <2>2, OpenTypeOK DEF Contribute
<1>9. ASSUME NEW c \in Clients, SumSavings(c)
      PROVE  TypeOK'
  <2> DEFINE t == cascades[c]
             seen == SavingsSeen(requests[c], t.next)
             new == [t EXCEPT !.summed = TRUE, !.sums[t.next] = seen]
  <2>1. t \in Cascade /\ requests[c] \in Request /\ requests[c] # Idle /\ t.next <= Last
    BY <1>9, CascadeOf, RequestOfKind DEF SumSavings
  <2>2. seen \in Int
    BY <2>1, SeenIsInt
  <2> HIDE DEF seen
  <2>3. new \in Cascade /\ new.next = t.next
    BY <2>1, <2>2 DEF Cascade
  <2>4. cascades' = [cascades EXCEPT ![c] = new]
    BY <1>9, <2>1 DEF SumSavings, TypeOK, Cascade, seen
  <2>5. UNCHANGED <<goals, contributions, saved, requests, sends>>
    BY <1>9 DEF SumSavings
  <2> HIDE DEF new
  <2>6. QED
    BY <2>1, <2>3, <2>4, <2>5 DEF TypeOK
<1>10. ASSUME NEW c \in Clients, WriteLedger(c)
      PROVE  TypeOK'
  <2> DEFINE t == cascades[c]
             new == [t EXCEPT !.summed = FALSE, !.next = t.next + 1]
  <2>1. t \in Cascade /\ requests[c] # Idle /\ t.next <= Last
    BY <1>10, CascadeOf DEF WriteLedger
  <2>2. new \in Cascade /\ new.summed = FALSE
    <3>1. t.next + 1 \in 1..Last + 1
      BY <2>1, LastPeriodAssumption DEF Cascade
    <3>2. QED
      BY <2>1, <3>1 DEF Cascade
  <2>3. cascades' = [cascades EXCEPT ![c] = new]
    BY <1>10, <2>1 DEF WriteLedger, TypeOK, Cascade
  <2>4. UNCHANGED <<goals, contributions, saved, requests, sends>>
    BY <1>10 DEF WriteLedger
  <2> HIDE DEF new
  <2>5. QED
    BY <2>1, <2>2, <2>3, <2>4 DEF TypeOK
<1>11. ASSUME NEW c \in Clients, CommitRemoval(c)
      PROVE  TypeOK'
  <2>1. contributions' \in Contributions
    BY <1>11, RemovalWrites, WithoutGoalType
  <2>2. goals' \in [GoalIds -> Goal \union {NotCreated, Gone}]
    BY <1>11, RemovalWrites DEF TypeOK
  <2>3. QED
    BY <1>11, <2>1, <2>2, CommitTypeOK DEF CommitRemoval
<1>12. ASSUME NEW c \in Clients, NEW k \in ContributionIds, CommitContribution(c, k)
      PROVE  TypeOK'
  <2> DEFINE q == requests[c]
             row == [goal |-> q.goal, amount |-> q.amount, period |-> q.period]
  <2>1. q.goal \in Exist(goals) /\ q.goal \in GoalIds
    BY <1>12, RowsExist DEF CommitContribution, Commit, RowsInv
  <2>2. row \in Contribution /\ contributions' = [contributions EXCEPT ![k] = row]
    BY <1>12, <2>1, ContributionWrites
  <2>3. PICK new : goals' = [goals EXCEPT ![q.goal] = new]
    BY <1>12, <2>1, ContributionWrites
  <2>4. goals'[q.goal] \in Goal
    BY <1>12, <2>1, ContributionWrites
  <2> HIDE DEF q, row
  <2>5. contributions' \in Contributions
    BY <2>2 DEF TypeOK, Contributions
  <2>6. goals' \in [GoalIds -> Goal \union {NotCreated, Gone}]
    BY <2>1, <2>3, <2>4 DEF TypeOK
  <2>7. QED
    BY <1>12, <2>5, <2>6, CommitTypeOK DEF CommitContribution
<1>13. ASSUME NEW c \in Clients, Rollback(c)
      PROVE  TypeOK'
  BY <1>13 DEF Rollback, TypeOK
<1>14. QED
  BY <1>1, <1>2, <1>3, <1>5, <1>6, <1>7, <1>8, <1>9, <1>10, <1>11, <1>12, <1>13 DEF Next

-----------------------------------------------------------------------------
(* Every row has one holder *)

\* A request that moves takes no row that is held, and leaves those of others.
LEMMA RowsStay ==
  ASSUME RowsInv, NEW c \in Clients,
         \A d \in Clients \ {c} : cascades'[d] = cascades[d] /\ requests'[d] = requests[d],
         \A d \in Clients \ {c} : cascades[d] # Outside => requests[d].goal \in Exist(goals'),
         cascades'[c] # Outside =>
            /\ requests'[c] = requests[c]
            /\ requests[c].goal \in Exist(goals')
            /\ cascades'[c].from = StartOf(requests[c])
            /\ \A d \in Clients \ {c} : ~ Holds(d, requests[c].goal)
  PROVE  RowsInv'
<1>1. ASSUME NEW d \in Clients, (cascades[d] # Outside)'
      PROVE  /\ (requests[d].goal \in Exist(goals))'
             /\ (cascades[d].from = StartOf(requests[d]))'
  <2>1. (requests[d].goal \in Exist(goals))' <=> requests'[d].goal \in Exist(goals')
    BY DEF Exist
  <2>2. CASE d = c
    BY <1>1, <2>1, <2>2 DEF StartOf
  <2>3. CASE d # c
    BY <1>1, <2>1, <2>3 DEF StartOf, RowsInv
  <2>4. QED
    BY <2>2, <2>3
<1>2. ASSUME NEW d \in Clients, NEW e \in Clients, d # e, NEW g \in GoalIds,
             Holds(d, g)', Holds(e, g)'
      PROVE  FALSE
  <2>1. CASE d = c
    BY <1>2, <2>1 DEF Holds
  <2>2. CASE e = c
    BY <1>2, <2>2 DEF Holds
  <2>3. CASE d # c /\ e # c
    BY <1>2, <2>3 DEF Holds, RowsInv
  <2>4. QED
    BY <2>1, <2>2, <2>3
<1>3. QED
  BY <1>1, <1>2 DEF RowsInv

\* A transaction begins with a row that nobody holds.
LEMMA OpenRows ==
  ASSUME TypeOK, RowsInv, NEW c \in Clients, NEW op, NEW from, Open(c, op, from),
         from = StartOf(requests[c])
  PROVE  RowsInv'
<1>1. /\ cascades' = [cascades EXCEPT ![c] = [from |-> from, next |-> from, summed |-> FALSE,
                                              sums |-> [p \in Periods |-> 0]]]
      /\ requests' = requests /\ goals' = goals
      /\ requests[c].goal \in Exist(goals) /\ ~ Locked(requests[c].goal)
  BY DEF Open
<1>2. cascades'[c].from = from
  BY <1>1 DEF TypeOK
<1>3. \A d \in Clients \ {c} : cascades'[d] = cascades[d]
  BY <1>1 DEF TypeOK
<1>4. \A d \in Clients : ~ Holds(d, requests[c].goal)
  BY <1>1 DEF Locked, Holds
<1>5. \A d \in Clients : cascades[d] # Outside => requests[d].goal \in Exist(goals')
  BY <1>1 DEF RowsInv
<1>6. QED
  BY <1>1, <1>2, <1>3, <1>4, <1>5, RowsStay

\* A transaction goes on with the row it holds.
LEMMA GoingOnRows ==
  ASSUME TypeOK, RowsInv, NEW c \in Clients, NEW t, cascades[c] # Outside,
         cascades' = [cascades EXCEPT ![c] = t], t.from = cascades[c].from,
         requests' = requests, goals' = goals
  PROVE  RowsInv'
<1>1. cascades'[c] = t /\ \A d \in Clients \ {c} : cascades'[d] = cascades[d]
  BY DEF TypeOK
<1>2. requests[c].goal \in GoalIds
  BY RowsExist DEF RowsInv
<1>3. /\ requests[c].goal \in Exist(goals') /\ t.from = StartOf(requests[c])
      /\ \A d \in Clients \ {c} : ~ Holds(d, requests[c].goal)
  BY <1>2 DEF RowsInv, Holds
<1>4. \A d \in Clients : cascades[d] # Outside => requests[d].goal \in Exist(goals')
  BY DEF RowsInv
<1>5. QED
  BY <1>1, <1>3, <1>4, RowsStay

LEMMA NextRowsInv == TypeOK /\ RowsInv /\ [Next]_vars => RowsInv'
<1> SUFFICES ASSUME TypeOK, RowsInv, [Next]_vars
             PROVE  RowsInv'
  OBVIOUS
<1>1. CASE cascades' = cascades /\ requests' = requests /\ Exist(goals) \subseteq Exist(goals')
  <2>1. Exist(goals)' = Exist(goals')
    BY DEF Exist
  <2>2. QED
    BY <1>1, <2>1 DEF RowsInv, Holds, StartOf
<1>2. ASSUME NEW c \in Clients, NEW g \in GoalIds, NEW row \in NewGoal, Create(c, g, row)
      PROVE  RowsInv'
  <2>1. goals' = [goals EXCEPT ![g] = row] /\ row \notin {NotCreated, Gone}
    BY <1>2, NewIsGoal, RowsAssumption DEF Create
  <2>2. Exist(goals) \subseteq Exist(goals')
    BY <2>1 DEF Exist
  <2>3. QED
    BY <1>1, <1>2, <2>2 DEF Create
<1>3. ASSUME NEW c \in Clients, NEW g \in GoalIds, NEW changes, Update(c, g, changes)
      PROVE  RowsInv'
  <2>1. PICK row : goals' = [goals EXCEPT ![g] = row]
    BY <1>3 DEF Update
  <2>2. TypeOK'
    BY NextTypeOK
  <2>3. g \in Exist(goals) /\ g \in GoalIds /\ requests' = requests /\ cascades' = cascades
    BY <1>3 DEF Update
  <2>4. \A d \in Clients : cascades[d] # Outside => requests[d].goal \in Exist(goals) \ {g}
    BY <1>3 DEF RowsInv, Update, Locked
  <2>5. \A h \in Exist(goals) \ {g} : h \in Exist(goals')
    BY <2>1 DEF Exist
  <2>6. QED
    <3>1. \A d \in Clients : cascades'[d] # Outside => requests'[d].goal \in Exist(goals)'
      BY <2>3, <2>4, <2>5 DEF Exist
    <3>2. QED
      BY <2>3, <3>1 DEF RowsInv, Holds, StartOf
<1>4. ASSUME NEW c \in Clients, NEW kind, NEW q, Begin(c, kind, q)
      PROVE  RowsInv'
  <2>1. /\ requests' = [requests EXCEPT ![c] = q] /\ cascades' = cascades /\ goals' = goals
        /\ cascades[c] = Outside
    BY <1>4 DEF Begin, TypeOK
  <2>2. \A d \in Clients \ {c} : requests'[d] = requests[d]
    BY <2>1 DEF TypeOK
  <2>3. \A d \in Clients : cascades[d] # Outside => requests[d].goal \in Exist(goals')
    BY <2>1 DEF RowsInv
  <2>4. QED
    BY <2>1, <2>2, <2>3, RowsStay
<1>5. ASSUME NEW c \in Clients, Remove(c)
      PROVE  RowsInv'
  <2>1. EarliestRead(requests[c].dates) = StartOf(requests[c])
    BY <1>5 DEF Remove, Open, StartOf
  <2>2. QED
    BY <1>5, <2>1, OpenRows DEF Remove
<1>6. ASSUME NEW c \in Clients, Contribute(c)
      PROVE  RowsInv'
  <2>1. requests[c].period = StartOf(requests[c])
    BY <1>6 DEF Contribute, Open, StartOf
  <2>2. QED
    BY <1>6, <2>1, OpenRows DEF Contribute
<1>7. ASSUME NEW c \in Clients, SumSavings(c)
      PROVE  RowsInv'
  <2> DEFINE t == cascades[c]
             new == [t EXCEPT !.summed = TRUE, !.sums[t.next] = SavingsSeen(requests[c], t.next)]
  <2>1. t # Outside /\ t \in Cascade
    BY <1>7, CascadeOf DEF SumSavings
  <2>2. cascades' = [cascades EXCEPT ![c] = new] /\ new.from = t.from
    BY <1>7, <2>1 DEF SumSavings, TypeOK, Cascade
  <2>3. requests' = requests /\ goals' = goals
    BY <1>7 DEF SumSavings
  <2> HIDE DEF new
  <2>4. QED
    BY <2>1, <2>2, <2>3, GoingOnRows
<1>8. ASSUME NEW c \in Clients, WriteLedger(c)
      PROVE  RowsInv'
  <2> DEFINE t == cascades[c]
             new == [t EXCEPT !.summed = FALSE, !.next = t.next + 1]
  <2>1. t # Outside /\ t \in Cascade
    BY <1>8, CascadeOf DEF WriteLedger
  <2>2. cascades' = [cascades EXCEPT ![c] = new] /\ new.from = t.from
    BY <1>8, <2>1 DEF WriteLedger, TypeOK, Cascade
  <2>3. requests' = requests /\ goals' = goals
    BY <1>8 DEF WriteLedger
  <2> HIDE DEF new
  <2>4. QED
    BY <2>1, <2>2, <2>3, GoingOnRows
<1>9. ASSUME NEW c \in Clients, cascades' = [cascades EXCEPT ![c] = Outside],
             requests' = [requests EXCEPT ![c] = Idle],
             \A d \in Clients \ {c} : cascades[d] # Outside => requests[d].goal \in Exist(goals')
      PROVE  RowsInv'
  <2>1. /\ cascades'[c] = Outside
        /\ \A d \in Clients \ {c} : cascades'[d] = cascades[d] /\ requests'[d] = requests[d]
    BY <1>9 DEF TypeOK
  <2>2. QED
    BY <1>9, <2>1, RowsStay
<1>10. ASSUME NEW c \in Clients, CommitRemoval(c)
      PROVE  RowsInv'
  <2> DEFINE g == requests[c].goal
  <2>1. goals' = [goals EXCEPT ![g] = Gone] /\ g \in GoalIds /\ Holds(c, g)
    BY <1>10, RemovalWrites DEF CommitRemoval, Commit, Holds
  <2>2. \A d \in Clients \ {c} : cascades[d] # Outside => requests[d].goal \in Exist(goals) \ {g}
    BY <2>1 DEF RowsInv, Holds
  <2>3. \A h \in Exist(goals) \ {g} : h \in Exist(goals')
    BY <2>1 DEF Exist
  <2>4. QED
    BY <1>9, <1>10, <2>2, <2>3, CommitWrites DEF CommitRemoval
<1>11. ASSUME NEW c \in Clients, NEW k \in ContributionIds, CommitContribution(c, k)
      PROVE  RowsInv'
  <2> DEFINE g == requests[c].goal
  <2>1. g \in Exist(goals)
    BY <1>11 DEF CommitContribution, Commit, RowsInv
  <2>2. PICK row : goals' = [goals EXCEPT ![g] = row]
    BY <1>11, <2>1, ContributionWrites
  <2>3. goals'[g] \notin {NotCreated, Gone}
    BY <1>11, <2>1, ContributionWrites, RowsAssumption
  <2>4. Exist(goals) \subseteq Exist(goals')
    BY <2>2, <2>3 DEF Exist
  <2>5. \A d \in Clients : cascades[d] # Outside => requests[d].goal \in Exist(goals')
    BY <2>4 DEF RowsInv
  <2>6. QED
    BY <1>9, <1>11, <2>5, CommitWrites DEF CommitContribution
<1>12. ASSUME NEW c \in Clients, Rollback(c)
      PROVE  RowsInv'
  <2>1. \A d \in Clients : cascades[d] # Outside => requests[d].goal \in Exist(goals')
    BY <1>12 DEF RowsInv, Rollback, Exist
  <2>2. QED
    BY <1>9, <1>12, <2>1 DEF Rollback
<1>13. CASE UNCHANGED vars
  BY <1>1, <1>13 DEF vars
<1>14. QED
  BY <1>2, <1>3, <1>4, <1>5, <1>6, <1>7, <1>8, <1>10, <1>11, <1>12, <1>13
  DEF Next, BeginRemove, BeginContribute

\* Every state has its types, and every row one holder.
LEMMA RowsAlwaysHeld == Spec => [](TypeOK /\ RowsInv)
BY InitTypeOK, NextTypeOK, NextRowsInv, PTL DEF Spec

\* Every state has its types.
THEOREM GoalsTypeCorrect == Spec => []TypeOK
BY RowsAlwaysHeld, PTL

-----------------------------------------------------------------------------
(* What a goal has follows its contributions *)

\* The contributions that are there after one more.
LEMMA ContributionsAfterOneMore ==
  ASSUME TypeOK, RowsInv, NEW c \in Clients, NEW k \in ContributionIds, CommitContribution(c, k)
  PROVE  LET q == requests[c]
         IN  /\ q.goal \in Exist(goals) /\ q \in ContributeRequest
             /\ k \notin Exist(contributions)
             /\ Exist(contributions') = Exist(contributions) \union {k}
             /\ \A j \in Exist(contributions) : contributions'[j] = contributions[j]
             /\ contributions'[k] = [goal |-> q.goal, amount |-> q.amount, period |-> q.period]
             /\ contributions'[k].goal = q.goal
             /\ contributions'[k].amount = q.amount /\ contributions'[k].period = q.period
<1> DEFINE q == requests[c]
           row == [goal |-> q.goal, amount |-> q.amount, period |-> q.period]
<1>1. q.goal \in Exist(goals)
  BY DEF CommitContribution, Commit, RowsInv
<1>2. /\ q \in ContributeRequest /\ contributions[k] = NotCreated /\ row \in Contribution
      /\ contributions' = [contributions EXCEPT ![k] = row]
  BY <1>1, ContributionWrites
<1>3. row \notin {NotCreated, Gone}
  BY <1>2, RowsAssumption
<1>4. DOMAIN contributions = ContributionIds
  BY DEF TypeOK, Contributions
<1> HIDE DEF row
<1>5. contributions'[k] = row /\ \A j \in ContributionIds \ {k} : contributions'[j] = contributions[j]
  BY <1>2, <1>4
<1>6. DOMAIN contributions' = ContributionIds
  BY <1>2, <1>4
<1>7. Exist(contributions') = Exist(contributions) \union {k} /\ k \notin Exist(contributions)
  BY <1>2, <1>3, <1>4, <1>5, <1>6 DEF Exist
<1>8. \A j \in Exist(contributions) : contributions'[j] = contributions[j]
  BY <1>4, <1>5, <1>7 DEF Exist
<1>9. row.goal = q.goal /\ row.amount = q.amount /\ row.period = q.period
  BY DEF row
<1>10. QED
  BY <1>1, <1>2, <1>5, <1>7, <1>8, <1>9 DEF row

\* ... and after those of a goal went.
LEMMA ContributionsAfterRemoval ==
  ASSUME TypeOK, NEW c \in Clients, CommitRemoval(c)
  PROVE  LET gone == Of(requests[c].goal)
         IN  /\ gone \subseteq Exist(contributions)
             /\ Exist(contributions') = Exist(contributions) \ gone
             /\ \A k \in Exist(contributions) \ gone : contributions'[k] = contributions[k]
<1>1. contributions' = WithoutGoal(requests[c].goal)
  BY RemovalWrites
<1>2. QED
  BY <1>1, WithoutGoalType

\* A step changes the contributions when one is committed and when a goal is.
LEMMA ContributionsChange ==
  ASSUME [Next]_vars, contributions' # contributions
  PROVE  \E c \in Clients : CommitRemoval(c) \/ \E k \in ContributionIds : CommitContribution(c, k)
<1>1. ASSUME NEW c, \/ \E g, row : Create(c, g, row)
                    \/ \E g, changes : Update(c, g, changes)
                    \/ \E kind, q : Begin(c, kind, q)
                    \/ \E op, from : Open(c, op, from)
                    \/ SumSavings(c) \/ WriteLedger(c) \/ Rollback(c)
      PROVE  FALSE
  BY <1>1 DEF Create, Update, Begin, Open, SumSavings, WriteLedger, Rollback
<1>2. QED
  BY <1>1 DEF Next, vars, BeginRemove, BeginContribute, Remove, Contribute

\* The amount of a goal moves by what its contributions move by, however requests
\* interleave (addContribution increments the amount in the database and creates
\* the contribution in the same transaction; a removal takes both).
THEOREM AmountsAlwaysFollowContributions == Spec => AmountsFollowContributions
<1> DEFINE Follows == \A g \in Exist(goals) : (goals'[g] # Gone /\ contributions' # contributions) =>
               goals'[g].current - goals[g].current
               = TotalOf(contributions', Of(g)') - TotalOf(contributions, Of(g))
<1>1. ASSUME TypeOK, RowsInv, [Next]_vars
      PROVE  [Follows]_vars
  <2> SUFFICES ASSUME NEW g \in Exist(goals), goals'[g] # Gone, contributions' # contributions
               PROVE  goals'[g].current - goals[g].current
                      = TotalOf(contributions', Of(g)') - TotalOf(contributions, Of(g))
    OBVIOUS
  <2> DEFINE before == TotalOf(contributions, Of(g))
  <2>1. g \in GoalIds /\ goals[g] \in Goal /\ goals[g].current \in Nat
    BY <1>1, RowsExist DEF Goal
  <2>2. Of(g) \subseteq Exist(contributions) /\ Of(g) \in SUBSET ContributionIds
    BY <1>1, RowsExist DEF Of
  <2>3. \A k \in Of(g) : contributions[k].amount \in Int
    BY <1>1, <2>2, AmountsOfRows DEF TypeOK
  <2>4. before \in Int
    BY <2>2, <2>3, TotalIsInt
  <2>5. DOMAIN goals = GoalIds
    BY <1>1 DEF TypeOK
  <2>6. ASSUME goals'[g].current = goals[g].current, Of(g)' = Of(g),
               \A k \in Of(g) : contributions'[k] = contributions[k]
        PROVE  goals'[g].current - goals[g].current = TotalOf(contributions', Of(g)') - before
    <3>1. TotalOf(contributions', Of(g)) = before
      BY <2>6, SameTotal
    <3> HIDE DEF before
    <3>2. QED
      BY <2>1, <2>4, <2>6, <3>1
  <2>7. ASSUME NEW c \in Clients, NEW id \in ContributionIds, CommitContribution(c, id)
        PROVE  goals'[g].current - goals[g].current = TotalOf(contributions', Of(g)') - before
    <3> DEFINE q == requests[c]
    <3>1. /\ q.goal \in Exist(goals) /\ q \in ContributeRequest
          /\ id \notin Exist(contributions)
          /\ Exist(contributions') = Exist(contributions) \union {id}
          /\ \A k \in Exist(contributions) : contributions'[k] = contributions[k]
          /\ contributions'[id] = [goal |-> q.goal, amount |-> q.amount, period |-> q.period]
      BY <1>1, <2>7, ContributionsAfterOneMore
    <3>2. Of(g)' = IF g = q.goal THEN Of(g) \union {id} ELSE Of(g)
      BY <3>1 DEF Of
    <3>3. \A k \in Of(g) : contributions'[k] = contributions[k]
      BY <2>2, <3>1
    <3>4. CASE g # q.goal
      <4>1. goals'[g] = goals[g]
        BY <1>1, <2>1, <2>5, <2>7, <3>1, <3>4, ContributionWrites
      <4>2. QED
        BY <2>6, <3>2, <3>3, <3>4, <4>1
    <3>5. CASE g = q.goal
      <4>1. q.amount \in Nat
        BY <3>1, GoalAmountsAssumption DEF ContributeRequest
      <4>2. goals'[g].current = goals[g].current + q.amount
        <5>1. goals'[g] = [goals[g] EXCEPT
                              !.current = goals[g].current + q.amount,
                              !.status = IF q.reached THEN "COMPLETED" ELSE goals[g].status]
          BY <1>1, <2>1, <2>5, <2>7, <3>1, <3>5, ContributionWrites
        <5>2. QED
          BY <2>1, <5>1 DEF Goal
      <4>3. contributions'[id].amount = q.amount /\ id \notin Of(g)
        BY <2>2, <3>1
      <4>4. TotalOf(contributions', Of(g) \union {id}) = before + q.amount
        <5>1. \A k \in Of(g) : contributions[k].amount \in Int /\ contributions'[k] = contributions[k]
          BY <2>3, <3>3
        <5>2. contributions'[id].amount \in Int
          BY <4>1, <4>3
        <5>3. QED
          BY <2>2, <4>3, <5>1, <5>2, TotalWithOneMore
      <4> HIDE DEF before, q
      <4>5. QED
        BY <2>1, <2>4, <3>2, <3>5, <4>1, <4>2, <4>4
    <3>6. QED
      BY <3>4, <3>5
  <2>8. ASSUME NEW c \in Clients, CommitRemoval(c)
        PROVE  goals'[g].current - goals[g].current = TotalOf(contributions', Of(g)') - before
    <3> DEFINE gone == requests[c].goal
    <3>1. gone \in GoalIds /\ goals' = [goals EXCEPT ![gone] = Gone]
      BY <1>1, <2>8, RemovalWrites
    <3>2. g # gone /\ goals'[g] = goals[g]
      BY <2>1, <2>5, <3>1
    <3>3. /\ Exist(contributions') = Exist(contributions) \ Of(gone)
          /\ \A k \in Exist(contributions) \ Of(gone) : contributions'[k] = contributions[k]
      BY <1>1, <2>8, ContributionsAfterRemoval
    <3>4. Of(g)' = Of(g) /\ \A k \in Of(g) : contributions'[k] = contributions[k]
      BY <3>2, <3>3 DEF Of
    <3>5. QED
      BY <2>6, <3>2, <3>4
  <2>9. QED
    BY <1>1, <2>7, <2>8, ContributionsChange
<1>2. QED
  BY <1>1, RowsAlwaysHeld, PTL DEF Spec, AmountsFollowContributions
-----------------------------------------------------------------------------
(* A request that is alone *)

\* A client that sends requests while only one client does is the only one
\* with a request under way.
LEMMA OthersAreIdle ==
  ASSUME TypeOK, OneByOne, NEW c \in Clients, sends[c] # {}
  PROVE  \A d \in Clients : requests[d] # Idle => d = c
<1> DEFINE senders == {d \in Clients : sends[d] # {}}
<1>1. IsFiniteSet(senders)
  BY GoalIdsAssumption, FS_Subset
<1>2. PICK x : senders = {x}
  BY <1>1, FS_Singleton DEF OneByOne
<1>3. ASSUME NEW d \in Clients, requests[d] # Idle
      PROVE  d \in senders
  BY <1>3, RequestOfKind
<1>4. QED
  BY <1>2, <1>3

\* What the clients send never changes.
LEMMA SendsStay ==
  ASSUME [Next]_vars
  PROVE  sends' = sends
<1>1. ASSUME NEW c, NEW g, NEW row, Create(c, g, row)
      PROVE  sends' = sends
  BY <1>1 DEF Create
<1>2. ASSUME NEW c, NEW g, NEW patch, Update(c, g, patch)
      PROVE  sends' = sends
  BY <1>2 DEF Update
<1>3. ASSUME NEW c, NEW kind, NEW q, Begin(c, kind, q)
      PROVE  sends' = sends
  BY <1>3 DEF Begin
<1>4. ASSUME NEW c, NEW op, NEW from, Open(c, op, from)
      PROVE  sends' = sends
  BY <1>4 DEF Open
<1>5. ASSUME NEW c, NEW op, Commit(c, op)
      PROVE  sends' = sends
  BY <1>5 DEF Commit
<1>6. ASSUME NEW c, SumSavings(c) \/ WriteLedger(c) \/ Rollback(c)
      PROVE  sends' = sends
  BY <1>6 DEF SumSavings, WriteLedger, Rollback
<1>7. QED
  BY <1>1, <1>2, <1>3, <1>4, <1>5, <1>6
  DEF Next, vars, BeginRemove, BeginContribute, Remove, Contribute, CommitRemoval,
      CommitContribution

\* What a request that is alone has read is so until it writes.
LEMMA AloneStep ==
  ASSUME TypeOK, AloneInv, [Next]_vars
  PROVE  AloneInv'
<1> SUFFICES ASSUME OneByOne, NEW d \in Clients, (requests[d] # Idle)'
             PROVE  StillSo(requests[d])'
  BY SendsStay DEF AloneInv, OneByOne
<1>1. CASE UNCHANGED <<goals, contributions, requests>>
  BY <1>1 DEF AloneInv, StillSo, Of, Exist
<1>2. ASSUME NEW c \in Clients, sends[c] # {},
             \/ requests' = requests /\ requests[c] = Idle
             \/ requests' = [requests EXCEPT ![c] = Idle]
      PROVE  FALSE
  BY <1>2, OthersAreIdle DEF TypeOK
<1>3. ASSUME NEW c \in Clients, NEW q, sends[c] # {}, requests[c] = Idle,
             requests' = [requests EXCEPT ![c] = q]
      PROVE  requests'[d] = q
  BY <1>3, OthersAreIdle DEF TypeOK
<1>4. ASSUME NEW c \in Clients, NEW g \in GoalIds, BeginRemove(c, g)
      PROVE  StillSo(requests[d])'
  <2> DEFINE q == [op |-> "remove", goal |-> g, dates |-> {contributions[k].period : k \in Of(g)}]
  <2>1. requests'[d] = q /\ contributions' = contributions
    BY <1>3, <1>4 DEF BeginRemove, Begin
  <2>2. q \notin ContributeRequest /\ q.goal = g /\ q.dates = {contributions[k].period : k \in Of(g)}
    BY DEF ContributeRequest
  <2> HIDE DEF q
  <2>3. QED
    BY <2>1, <2>2 DEF StillSo, Of, Exist
<1>5. ASSUME NEW c \in Clients, NEW g \in GoalIds, NEW amount \in Amounts, NEW p \in Periods,
             BeginContribute(c, g, amount, p)
      PROVE  StillSo(requests[d])'
  <2> DEFINE q == [op |-> "contribute", goal |-> g, amount |-> amount, period |-> p,
                   read |-> goals[g].current, reached |-> Reaches(goals[g], amount)]
  <2>1. requests'[d] = q /\ goals' = goals /\ g \in Exist(goals)
    BY <1>3, <1>5 DEF BeginContribute, Begin
  <2>2. /\ q \notin RemoveRequest /\ q.goal = g
        /\ q.reached = Reaches(goals[g], amount) /\ q.amount = amount
    BY DEF RemoveRequest
  <2> HIDE DEF q
  <2>3. QED
    BY <2>1, <2>2 DEF StillSo, Exist, Reaches
<1>6. ASSUME NEW c \in Clients, \/ CommitRemoval(c) \/ Rollback(c)
                                \/ \E k \in ContributionIds : CommitContribution(c, k)
      PROVE  FALSE
  <2>1. requests[c] # Idle /\ requests' = [requests EXCEPT ![c] = Idle]
    BY <1>6, CascadeOf DEF CommitRemoval, CommitContribution, Commit, Rollback
  <2>2. QED
    BY <1>2, <2>1, RequestOfKind
<1>7. ASSUME NEW c \in Clients, "create" \in sends[c] \/ "update" \in sends[c],
             requests[c] = Idle, requests' = requests
      PROVE  FALSE
  BY <1>2, <1>7
<1>8. ASSUME NEW c \in Clients, Remove(c) \/ Contribute(c) \/ SumSavings(c) \/ WriteLedger(c)
      PROVE  UNCHANGED <<goals, contributions, requests>>
  BY <1>8 DEF Remove, Contribute, Open, SumSavings, WriteLedger
<1>9. QED
  BY <1>1, <1>4, <1>5, <1>6, <1>7, <1>8 DEF Next, vars, Create, Update

\* One request at a time, the contribution that reaches the target completes the
\* goal and no other does (addContribution decides that from the goal it read).
THEOREM GoalsAreCompletedWhenReached == Spec => CompletedWhenReached
<1> DEFINE Completed(g) ==
               \/ goals'[g].current >= goals'[g].target /\ goals'[g].status = "COMPLETED"
               \/ goals'[g].current < goals'[g].target /\ goals'[g].status = goals[g].status
           Completes == OneByOne => \A g \in GoalIds : Of(g)' \ Of(g) # {} => Completed(g)
<1>1. ASSUME TypeOK, RowsInv, AloneInv, [Next]_vars
      PROVE  [Completes]_vars
  <2> SUFFICES ASSUME OneByOne, NEW g \in GoalIds, Of(g)' \ Of(g) # {}
               PROVE  Completed(g)
    OBVIOUS
  <2>1. contributions' # contributions
    BY DEF Of, Exist
  <2>2. ~ \E c \in Clients : CommitRemoval(c)
    <3> SUFFICES ASSUME NEW c \in Clients, CommitRemoval(c)
                 PROVE  FALSE
      OBVIOUS
    <3>1. /\ Exist(contributions') \subseteq Exist(contributions)
          /\ \A k \in Exist(contributions') : contributions'[k] = contributions[k]
      BY <1>1, ContributionsAfterRemoval
    <3>2. QED
      BY <3>1 DEF Of
  <2>3. PICK c \in Clients, id \in ContributionIds : CommitContribution(c, id)
    BY <1>1, <2>1, <2>2, ContributionsChange
  <2> DEFINE q == requests[c]
             goal == goals[q.goal]
  <2>4. g = q.goal
    <3>1. /\ Exist(contributions') = Exist(contributions) \union {id}
          /\ \A k \in Exist(contributions) : contributions'[k] = contributions[k]
          /\ contributions'[id] = [goal |-> q.goal, amount |-> q.amount, period |-> q.period]
      BY <1>1, <2>3, ContributionsAfterOneMore
    <3>2. PICK k \in Exist(contributions') : contributions'[k].goal = g /\ k \notin Of(g)
      BY DEF Of
    <3>3. k = id
      BY <3>1, <3>2 DEF Of
    <3>4. QED
      BY <3>1, <3>2, <3>3
  <2>5. q # Idle /\ q \in ContributeRequest /\ goal \in Goal /\ q.goal \in Exist(goals)
    BY <1>1, <2>3, ContributionsAfterOneMore, ContributionWrites, RowsAssumption
  <2>6. q.reached = (goal.current + q.amount >= goal.target)
    BY <1>1, <2>5 DEF AloneInv, StillSo, Reaches
  <2>7. goals'[g] = [goal EXCEPT !.current = goal.current + q.amount,
                                 !.status = IF q.reached THEN "COMPLETED" ELSE goal.status]
    <3>1. goals' = [goals EXCEPT ![q.goal] =
                       [goal EXCEPT !.current = goal.current + q.amount,
                                    !.status = IF q.reached THEN "COMPLETED" ELSE goal.status]]
      BY <1>1, <2>3, <2>5, ContributionWrites
    <3>2. DOMAIN goals = GoalIds
      BY <1>1 DEF TypeOK
    <3>3. QED
      BY <2>4, <3>1, <3>2
  <2>8. /\ goals'[g].current = goal.current + q.amount
        /\ goals'[g].target = goal.target
        /\ goals'[g].status = IF q.reached THEN "COMPLETED" ELSE goal.status
    BY <2>5, <2>7 DEF Goal
  <2>9. goal.current + q.amount \in Int /\ goal.target \in Int
    <3>1. q.amount \in Amounts /\ goal.current \in Nat /\ goal.target \in Targets
      BY <2>5 DEF ContributeRequest, Goal
    <3> HIDE DEF goal, q
    <3>2. q.amount \in Nat /\ goal.target \in Nat
      BY <3>1, GoalAmountsAssumption
    <3>3. QED
      BY <3>1, <3>2
  <2> HIDE DEF goal, q
  <2>10. CASE q.reached
    BY <2>6, <2>8, <2>9, <2>10
  <2>11. CASE ~q.reached
    <3>1. goal = goals[g]
      BY <2>4 DEF goal
    <3>2. goal.current + q.amount < goal.target
      <4>1. ~ (goal.current + q.amount >= goal.target)
        BY <2>6, <2>11
      <4>2. QED
        BY <2>9, <4>1
    <3>3. QED
      BY <2>8, <2>11, <3>1, <3>2
  <2>12. QED
    BY <2>10, <2>11
<1>2. Init => AloneInv
  BY DEF Init, AloneInv
<1>3. QED
  BY <1>1, <1>2, InitTypeOK, NextTypeOK, NextRowsInv, AloneStep, PTL DEF Spec, CompletedWhenReached
-----------------------------------------------------------------------------
(* The savings of the ledgers *)

\* The savings of a period follow from its contributions.
LEMMA SameContributed ==
  ASSUME NEW table, NEW other, NEW p,
         \A k : (k \in Exist(table) /\ table[k].period = p)
                   <=> (k \in Exist(other) /\ other[k].period = p),
         \A k \in Exist(table) : table[k].period = p => other[k] = table[k]
  PROVE  Contributed(other, p) = Contributed(table, p)
<1> DEFINE ids == {k \in Exist(table) : table[k].period = p}
<1>1. {k \in Exist(other) : other[k].period = p} = ids
  OBVIOUS
<1>2. TotalOf(other, ids) = TotalOf(table, ids)
  BY SameTotal
<1>3. QED
  BY <1>1, <1>2 DEF Contributed

\* A transaction that commits has seen the savings it leaves.
LEMMA CommittedAsSeen ==
  ASSUME TypeOK, RowsInv, NEW c \in Clients, NEW p \in Periods,
         CommitRemoval(c) \/ \E k \in ContributionIds : CommitContribution(c, k)
  PROVE  Contributed(contributions', p) = SavingsSeen(requests[c], p)
<1> DEFINE q == requests[c]
<1>1. CASE CommitRemoval(c)
  <2>1. q.op = "remove" /\ contributions' = WithoutGoal(q.goal)
    BY <1>1, RemovalWrites, CommitWrites DEF CommitRemoval
  <2>2. QED
    BY <2>1 DEF SavingsSeen
<1>2. ASSUME NEW k \in ContributionIds, CommitContribution(c, k)
      PROVE  Contributed(contributions', p) = SavingsSeen(q, p)
  <2>1. /\ q \in ContributeRequest
        /\ k \notin Exist(contributions)
        /\ Exist(contributions') = Exist(contributions) \union {k}
        /\ \A j \in Exist(contributions) : contributions'[j] = contributions[j]
        /\ contributions'[k].period = q.period /\ contributions'[k].amount = q.amount
    BY <1>2, ContributionsAfterOneMore
  <2>2. q.op = "contribute" /\ q.amount \in Nat
    BY <2>1, GoalAmountsAssumption DEF ContributeRequest
  <2>3. Contributed(contributions, p) \in Int
    BY ContributedIsInt DEF TypeOK
  <2> HIDE DEF q
  <2>4. CASE p # q.period
    <3>1. Contributed(contributions', p) = Contributed(contributions, p)
      BY <2>1, <2>4, SameContributed
    <3>2. QED
      BY <2>2, <2>3, <2>4, <3>1 DEF SavingsSeen
  <2>5. CASE p = q.period
    <3> DEFINE ids == {j \in Exist(contributions) : contributions[j].period = p}
    <3>1. {j \in Exist(contributions') : contributions'[j].period = p} = ids \union {k}
      BY <2>1, <2>5
    <3>2. /\ ids \in SUBSET ContributionIds /\ k \notin ids
          /\ \A j \in ids : contributions[j].amount \in Int /\ contributions'[j] = contributions[j]
      BY <2>1, AmountsOfRows DEF TypeOK
    <3> HIDE DEF ids
    <3>3. contributions'[k].amount \in Int
      BY <2>1, <2>2
    <3>4. TotalOf(contributions', ids \union {k}) = TotalOf(contributions, ids) + contributions'[k].amount
      BY <3>2, <3>3, TotalWithOneMore
    <3>5. QED
      BY <2>1, <2>2, <2>5, <3>1, <3>4 DEF SavingsSeen, Contributed, ids
  <2>6. QED
    BY <2>4, <2>5
<1>3. QED
  BY <1>1, <1>2

\* Before the period it starts at, a transaction sees what is committed.
LEMMA NothingBeforeStart ==
  ASSUME TypeOK, NEW q \in Request, NEW p \in Periods, p < StartOf(q),
         q \in RemoveRequest => StillSo(q)
  PROVE  SavingsSeen(q, p) = Contributed(contributions, p)
<1>1. CASE q \in ContributeRequest
  <2>1. q.op = "contribute" /\ q.period \in Periods
    BY <1>1 DEF ContributeRequest
  <2>2. q.period # p
    BY <2>1, LastPeriodAssumption DEF StartOf, Periods
  <2>3. Contributed(contributions, p) \in Int
    BY ContributedIsInt DEF TypeOK
  <2>4. QED
    BY <2>1, <2>2, <2>3 DEF SavingsSeen
<1>2. CASE q \in RemoveRequest
  <2> DEFINE gone == Of(q.goal)
             dates == {contributions[k].period : k \in gone}
  <2>1. q.op = "remove" /\ q.dates = dates
    BY <1>2 DEF RemoveRequest, StillSo
  <2>2. /\ gone \subseteq Exist(contributions)
        /\ Exist(WithoutGoal(q.goal)) = Exist(contributions) \ gone
        /\ \A k \in Exist(contributions) \ gone : WithoutGoal(q.goal)[k] = contributions[k]
    BY WithoutGoalType
  <2>3. dates \subseteq Periods
    BY <2>2, AmountsOfRows DEF TypeOK
  <2> HIDE DEF gone
  <2>4. p \notin dates
    <3>1. CASE dates # {}
      <4>1. dates \in SUBSET (1..Last) /\ (1..Last) \in SUBSET Int /\ IsFiniteSet(1..Last)
        BY <2>3, LastPeriodAssumption, FS_Interval DEF Periods
      <4>2. IsFiniteSet(dates)
        BY <4>1, FS_Subset
      <4>3. \A x \in dates : Min(dates) <= x
        BY <3>1, <4>1, <4>2, LeastOfSet
      <4>4. p < Min(dates)
        BY <2>1, <3>1 DEF StartOf, EarliestRead
      <4>5. Min(dates) \in Int /\ p \in Int
        BY <3>1, <4>1, <4>2, LeastOfSet, LastPeriodAssumption DEF Periods
      <4>6. QED
        BY <4>3, <4>4, <4>5
    <3>2. QED
      BY <3>1
  <2>5. \A k \in gone : contributions[k].period # p
    BY <2>4
  <2>6. Contributed(WithoutGoal(q.goal), p) = Contributed(contributions, p)
    BY <2>2, <2>5, SameContributed
  <2>7. QED
    BY <2>1, <2>6 DEF SavingsSeen
<1>3. QED
  BY <1>1, <1>2 DEF Request

\* What others commit does not concern a transaction that is undisturbed.
LEMMA OthersCommitElsewhere ==
  ASSUME TypeOK, RowsInv, [Next]_vars, NEW c \in Clients, cascades[c] # Outside,
         requests'[c] = requests[c], Undisturbed(requests[c])', contributions' # contributions
  PROVE  CommitRemoval(c) \/ \E k \in ContributionIds : CommitContribution(c, k)
<1>1. PICK d \in Clients : CommitRemoval(d) \/ \E k \in ContributionIds : CommitContribution(d, k)
  BY ContributionsChange
<1> SUFFICES ASSUME d # c
             PROVE  FALSE
  BY <1>1
<1>2. requests[c] # Idle /\ requests[d] # Idle /\ cascades[d] # Outside
  BY <1>1, CascadeOf DEF CommitRemoval, CommitContribution, Commit
<1>3. ~ OneByOne
  BY <1>2, OthersAreIdle, RequestOfKind
<1>4. sends' = sends
  BY SendsStay
<1>5. /\ \A e \in Clients : "remove" \notin sends[e]
      /\ \A k \in Exist(contributions') : contributions'[k].goal = requests[c].goal
  BY <1>3, <1>4 DEF Undisturbed, OneByOne, Exist
<1>6. ASSUME NEW k \in ContributionIds, CommitContribution(d, k)
      PROVE  FALSE
  <2>1. k \in Exist(contributions') /\ contributions'[k].goal = requests[d].goal
    BY <1>6, ContributionsAfterOneMore
  <2>2. requests[d].goal = requests[c].goal /\ requests[c].goal \in GoalIds
    BY <1>5, <2>1, RowsExist DEF RowsInv
  <2>3. QED
    BY <1>2, <2>2 DEF RowsInv, Holds
<1>7. ASSUME CommitRemoval(d)
      PROVE  FALSE
  BY <1>2, <1>5, <1>7, RequestOfKind DEF CommitRemoval, Commit
<1>8. QED
  BY <1>1, <1>6, <1>7

\* A transaction sees the same while nothing is committed.
LEMMA SeenStays ==
  ASSUME contributions' = contributions, NEW c \in Clients, requests'[c] = requests[c], NEW p
  PROVE  SavingsSeen(requests[c], p)' = SavingsSeen(requests[c], p)
<1>1. Exist(contributions)' = Exist(contributions)
  BY DEF Exist
<1>2. \A g : Of(g)' = Of(g)
  BY <1>1 DEF Of
<1>3. \A g : WithoutGoal(g)' = WithoutGoal(g)
  BY <1>2 DEF WithoutGoal
<1>4. Contributed(WithoutGoal(requests[c].goal), p)' = Contributed(WithoutGoal(requests[c].goal), p)
  BY <1>3 DEF Contributed, Exist
<1>5. Contributed(contributions, p)' = Contributed(contributions, p)
  BY <1>1 DEF Contributed
<1>6. QED
  BY <1>4, <1>5 DEF SavingsSeen

\* What a transaction has summed stays so while it is undisturbed.
LEMMA SumsStep ==
  ASSUME TypeOK, RowsInv, SumsInv, [Next]_vars
  PROVE  SumsInv'
<1> SUFFICES ASSUME NEW c \in Clients, cascades'[c] # Outside, Undisturbed(requests[c])'
             PROVE  SumsRight(c)'
  BY DEF SumsInv
<1> DEFINE q == requests[c]
           t == cascades[c]
<1>1. CASE cascades'[c] = cascades[c] /\ requests'[c] = requests[c] /\ contributions' = contributions
  <2>1. Undisturbed(q)
    BY <1>1, SendsStay DEF Undisturbed, OneByOne, Exist
  <2>2. SumsRight(c)
    BY <1>1, <2>1 DEF SumsInv
  <2>3. QED
    BY <1>1, <2>2, SeenStays DEF SumsRight, Summed
<1>2. ASSUME NEW d \in Clients, d # c,
             \/ CommitRemoval(d) \/ \E k \in ContributionIds : CommitContribution(d, k)
      PROVE  SumsRight(c)'
  <2>1. cascades'[c] = cascades[c] /\ requests'[c] = requests[c]
    BY <1>2, CommitWrites DEF CommitRemoval, CommitContribution, TypeOK
  <2>2. CASE contributions' = contributions
    BY <1>1, <2>1, <2>2
  <2>3. CASE contributions' # contributions
    <3>1. CommitRemoval(c) \/ \E k \in ContributionIds : CommitContribution(c, k)
      BY <2>1, <2>3, OthersCommitElsewhere
    <3>2. cascades'[c] = Outside
      BY <3>1, CommitWrites DEF CommitRemoval, CommitContribution, TypeOK
    <3>3. QED
      BY <3>2
  <2>4. QED
    BY <2>2, <2>3
<1>3. ASSUME CommitRemoval(c) \/ (\E k \in ContributionIds : CommitContribution(c, k)) \/ Rollback(c)
      PROVE  FALSE
  <2>1. cascades' = [cascades EXCEPT ![c] = Outside]
    BY <1>3, CommitWrites DEF CommitRemoval, CommitContribution, Rollback
  <2>2. QED
    BY <2>1 DEF TypeOK
<1>4. ASSUME NEW op, NEW from, Open(c, op, from)
      PROVE  SumsRight(c)'
  <2>1. cascades'[c] = [from |-> from, next |-> from, summed |-> FALSE, sums |-> [p \in Periods |-> 0]]
    BY <1>4 DEF Open, TypeOK
  <2>2. Summed(cascades'[c]) \subseteq {p \in Periods : p >= from /\ p < from}
    BY <2>1 DEF Summed
  <2>3. from \in Int
    <3>1. TypeOK'
      BY NextTypeOK
    <3>2. cascades'[c] \in Cascade
      BY <3>1, CascadeOf DEF TypeOK
    <3>3. QED
      BY <2>1, <3>2, LastPeriodAssumption DEF Cascade
  <2>4. Summed(cascades'[c]) = {}
    BY <2>2, <2>3, LastPeriodAssumption DEF Periods
  <2>5. QED
    BY <2>4 DEF SumsRight, Summed
<1>5. ASSUME SumSavings(c)
      PROVE  SumsRight(c)'
  <2> DEFINE seen == SavingsSeen(q, t.next)
             new == [t EXCEPT !.summed = TRUE, !.sums[t.next] = seen]
  <2>1. t # Outside /\ t \in Cascade /\ t.next <= Last
    BY <1>5, CascadeOf DEF SumSavings
  <2>2. cascades'[c] = new
    BY <1>5, <2>1 DEF SumSavings, TypeOK, Cascade
  <2>3. requests' = requests /\ contributions' = contributions /\ sends' = sends
    BY <1>5 DEF SumSavings
  <2>4. Undisturbed(q)
    BY <2>3 DEF Undisturbed, OneByOne, Exist
  <2>5. SumsRight(c)
    BY <2>1, <2>4 DEF SumsInv
  <2>6. \A p \in Summed(new) : p = t.next \/ (p # t.next /\ p \in Summed(t))
    BY <2>1, LastPeriodAssumption DEF Summed, Cascade, Periods
  <2>7. \A p \in Periods : p # t.next => new.sums[p] = t.sums[p]
    BY <2>1 DEF Cascade
  <2>8. t.next \in Periods /\ new.sums[t.next] = seen
    BY <2>1, LastPeriodAssumption DEF Cascade, Periods
  <2> HIDE DEF seen, new
  <2>9. \A p \in Summed(new) : new.sums[p] = SavingsSeen(q, p)
    BY <2>5, <2>6, <2>7, <2>8 DEF SumsRight, Summed, seen
  <2>10. QED
    BY <2>2, <2>3, <2>9, SeenStays DEF SumsRight, Summed
<1>6. ASSUME WriteLedger(c)
      PROVE  SumsRight(c)'
  <2> DEFINE new == [t EXCEPT !.summed = FALSE, !.next = t.next + 1]
  <2>1. t # Outside /\ t \in Cascade /\ t.summed
    BY <1>6, CascadeOf DEF WriteLedger
  <2>2. cascades'[c] = new
    BY <1>6, <2>1 DEF WriteLedger, TypeOK, Cascade
  <2>3. requests' = requests /\ contributions' = contributions /\ sends' = sends
    BY <1>6 DEF WriteLedger
  <2>4. Undisturbed(q)
    BY <2>3 DEF Undisturbed, OneByOne, Exist
  <2>5. SumsRight(c)
    BY <2>1, <2>4 DEF SumsInv
  <2>6. Summed(new) \subseteq Summed(t) /\ new.sums = t.sums
    BY <2>1, LastPeriodAssumption DEF Summed, Cascade, Periods
  <2> HIDE DEF new
  <2>7. \A p \in Summed(new) : new.sums[p] = SavingsSeen(q, p)
    BY <2>5, <2>6 DEF SumsRight
  <2>8. QED
    BY <2>2, <2>3, <2>7, SeenStays DEF SumsRight, Summed
<1>7. ASSUME NEW d \in Clients, NEW kind, NEW r, Begin(d, kind, r)
      PROVE  SumsRight(c)'
  <2>1. /\ requests' = [requests EXCEPT ![d] = r] /\ requests[d] = Idle
        /\ contributions' = contributions /\ cascades' = cascades
    BY <1>7 DEF Begin
  <2>2. d # c
    BY <2>1, CascadeOf
  <2>3. QED
    BY <1>1, <2>1, <2>2 DEF TypeOK
<1>8. ASSUME NEW d \in Clients, d # c,
             \/ \E op, from : Open(d, op, from)
             \/ SumSavings(d) \/ WriteLedger(d) \/ Rollback(d)
      PROVE  SumsRight(c)'
  <2>1. contributions' = contributions /\ cascades'[c] = cascades[c] /\ requests'[c] = requests[c]
    BY <1>8 DEF Open, SumSavings, WriteLedger, Rollback, TypeOK
  <2>2. QED
    BY <1>1, <2>1
<1>9. ASSUME UNCHANGED vars \/ \E d, g : \/ \E row : Create(d, g, row)
                                        \/ \E changes : Update(d, g, changes)
      PROVE  SumsRight(c)'
  BY <1>1, <1>9 DEF vars, Create, Update
<1>10. QED
  BY <1>2, <1>3, <1>4, <1>5, <1>6, <1>7, <1>8, <1>9
  DEF Next, BeginRemove, BeginContribute, Remove, Contribute

\* Requests that come one by one, and contributions to one goal, keep the savings
\* right.
LEMMA SavingsStep ==
  ASSUME TypeOK, RowsInv, AloneInv, SumsInv, SavingsFollowContributions, [Next]_vars
  PROVE  SavingsFollowContributions'
<1>1. sends' = sends
  BY SendsStay
<1> SUFFICES ASSUME OneByOne \/ (OneGoal' /\ \A c \in Clients : "remove" \notin sends[c]),
                    NEW p \in Periods
             PROVE  (saved[p] = Contributed(contributions, p))'
  BY <1>1 DEF SavingsFollowContributions, OneByOne
<1>2. CASE saved' = saved /\ contributions' = contributions
  <2>1. OneGoal' => OneGoal
    BY <1>2 DEF OneGoal, Exist
  <2>2. saved[p] = Contributed(contributions, p)
    BY <2>1 DEF SavingsFollowContributions
  <2>3. QED
    BY <1>2, <2>2 DEF Contributed, Exist
<1>3. ASSUME NEW c \in Clients,
             CommitRemoval(c) \/ \E k \in ContributionIds : CommitContribution(c, k)
      PROVE  (saved[p] = Contributed(contributions, p))'
  <2> DEFINE q == requests[c]
             t == cascades[c]
  <2>1. /\ t # Outside /\ t.next > Last
        /\ saved' = [r \in Periods |-> IF r >= t.from THEN t.sums[r] ELSE saved[r]]
    BY <1>3, CommitWrites DEF CommitRemoval, CommitContribution
  <2>2. t \in Cascade /\ q # Idle /\ q \in Request /\ q.op \in sends[c] /\ t.from = StartOf(q)
    BY <2>1, CascadeOf, RequestOfKind DEF RowsInv
  <2>3. Undisturbed(q) /\ (OneByOne \/ OneGoal)
    <3>1. CASE OneByOne
      BY <3>1 DEF Undisturbed
    <3>2. CASE ~ OneByOne
      <4>1. q.op # "remove"
        BY <2>2, <3>2
      <4>2. PICK k \in ContributionIds : CommitContribution(c, k)
        BY <1>3, <4>1 DEF CommitRemoval, Commit
      <4>3. /\ Exist(contributions') = Exist(contributions) \union {k}
            /\ \A j \in Exist(contributions) : contributions'[j] = contributions[j]
            /\ contributions'[k].goal = q.goal
        BY <4>2, ContributionsAfterOneMore
      <4>4. \A i, j \in Exist(contributions') : contributions'[i].goal = contributions'[j].goal
        BY <3>2 DEF OneGoal, Exist
      <4>5. \A j \in Exist(contributions) : contributions[j].goal = q.goal
        BY <4>3, <4>4
      <4>6. QED
        BY <3>2, <4>5 DEF Undisturbed, OneGoal
    <3>3. QED
      BY <3>1, <3>2
  <2>4. Contributed(contributions', p) = SavingsSeen(q, p)
    BY <1>3, CommittedAsSeen
  <2>5. p \in Int /\ t.from \in Int /\ t.next \in Int /\ Last \in Int /\ p <= Last
    BY <2>2, LastPeriodAssumption DEF Cascade, Periods
  <2>6. CASE p >= t.from
    <3>1. p \in Summed(t)
      BY <2>1, <2>5, <2>6 DEF Summed
    <3>2. t.sums[p] = SavingsSeen(q, p)
      BY <2>1, <2>3, <3>1 DEF SumsInv, SumsRight
    <3>3. saved'[p] = Contributed(contributions', p)
      BY <2>1, <2>4, <2>6, <3>2
    <3>4. QED
      BY <3>3 DEF Contributed, Exist
  <2>7. CASE ~ (p >= t.from)
    <3>1. saved'[p] = saved[p]
      BY <2>1, <2>7
    <3>2. saved[p] = Contributed(contributions, p)
      BY <2>3 DEF SavingsFollowContributions
    <3>3. q \in RemoveRequest => StillSo(q)
      <4>1. q \in RemoveRequest => OneByOne
        BY <2>2 DEF RemoveRequest
      <4>2. QED
        BY <2>2, <4>1 DEF AloneInv
    <3>4. p < StartOf(q)
      BY <2>2, <2>5, <2>7
    <3>5. SavingsSeen(q, p) = Contributed(contributions, p)
      BY <2>2, <3>3, <3>4, NothingBeforeStart
    <3>6. saved'[p] = Contributed(contributions', p)
      BY <2>4, <3>1, <3>2, <3>5
    <3>7. QED
      BY <3>6 DEF Contributed, Exist
  <2>8. QED
    BY <2>6, <2>7
<1>4. ASSUME NEW c, \/ \E g, row : Create(c, g, row)
                    \/ \E g, changes : Update(c, g, changes)
                    \/ \E kind, q : Begin(c, kind, q)
                    \/ \E op, from : Open(c, op, from)
                    \/ SumSavings(c) \/ WriteLedger(c) \/ Rollback(c)
      PROVE  saved' = saved /\ contributions' = contributions
  BY <1>4 DEF Create, Update, Begin, Open, SumSavings, WriteLedger, Rollback
<1>5. QED
  BY <1>2, <1>3, <1>4 DEF Next, vars, BeginRemove, BeginContribute, Remove, Contribute

\* At first there are no contributions.
LEMMA NothingSaved == Init => SavingsFollowContributions
<1> SUFFICES ASSUME Init, NEW p \in Periods
             PROVE  saved[p] = Contributed(contributions, p)
  BY DEF SavingsFollowContributions
<1>1. {k \in Exist(contributions) : contributions[k].period = p} = {}
  BY DEF Init, Exist
<1>2. TotalOf(contributions, {}) = 0
  BY SumOfTable, SumOfNone DEF TotalOf
<1>3. QED
  BY <1>1, <1>2 DEF Init, Contributed

\* The savings of every ledger are the contributions of its period, for requests
\* one by one and for contributions to one goal however they overlap: each takes
\* the goal's row before computeAndUpsert sums.
THEOREM SavingsAlwaysFollowContributions == Spec => []SavingsFollowContributions
<1>1. Init => Inv
  BY InitTypeOK, NothingSaved DEF Init, Inv, AloneInv, SumsInv
<1>2. Inv /\ [Next]_vars => Inv'
  BY NextTypeOK, NextRowsInv, AloneStep, SumsStep, SavingsStep DEF Inv
<1>3. Inv => SavingsFollowContributions
  BY DEF Inv
<1>4. QED
  BY <1>1, <1>2, <1>3, PTL DEF Spec
-----------------------------------------------------------------------------
(* The plan of a goal *)

\* A quotient is the number of whole times.
LEMMA DivBounds ==
  ASSUME NEW a \in Nat, NEW b \in Nat \ {0}
  PROVE  /\ a \div b \in Nat
         /\ (a \div b) * b <= a
         /\ a < (a \div b) * b + b
<1>1. a \div b \in Int
  OBVIOUS
<1>2. a = b * (a \div b) + (a % b)
  OBVIOUS
<1>3. a % b \in 0 .. b - 1
  OBVIOUS
<1>4. a \div b >= 0
  BY <1>1, <1>2, <1>3
<1>5. QED
  BY <1>1, <1>2, <1>3, <1>4

\* Multiples are ordered as their factors are.
LEMMA ProductOrder ==
  ASSUME NEW x \in Int, NEW y \in Int, NEW b \in Nat \ {0}
  PROVE  /\ x <= y => x * b <= y * b
         /\ x * b < y * b => x < y
<1>1. \A d \in Nat : d * b >= 0
  OBVIOUS
<1>2. ASSUME x <= y PROVE x * b <= y * b
  <2>1. y - x \in Nat /\ (y - x) * b = y * b - x * b
    BY <1>2
  <2>2. QED
    BY <1>1, <2>1
<1>3. ASSUME x * b < y * b, y <= x PROVE FALSE
  <2>1. x - y \in Nat /\ (x - y) * b = x * b - y * b
    BY <1>3
  <2>2. QED
    BY <1>1, <1>3, <2>1
<1>4. QED
  BY <1>2, <1>3

\* Later days are not in earlier months.
LEMMA MonthsInOrder ==
  ASSUME NEW x \in Nat, NEW y \in Nat
  PROVE  MonthOf(x) \in Nat /\ (x <= y => MonthOf(x) <= MonthOf(y))
<1> DEFINE m == x \div DaysInMonth
           n == y \div DaysInMonth
<1>1. DaysInMonth \in Nat \ {0}
  BY GoalDaysAssumption
<1>2. /\ m \in Nat /\ m * DaysInMonth <= x
      /\ n \in Nat /\ y < n * DaysInMonth + DaysInMonth
  BY <1>1, DivBounds
<1> HIDE DEF m, n
<1>3. ASSUME x <= y
      PROVE  m <= n
  <2>1. n * DaysInMonth + DaysInMonth = (n + 1) * DaysInMonth
    BY <1>1, <1>2
  <2>2. m * DaysInMonth \in Int /\ n * DaysInMonth \in Int
    BY <1>1, <1>2
  <2>3. m * DaysInMonth < (n + 1) * DaysInMonth
    BY <1>1, <1>2, <1>3, <2>1, <2>2
  <2>4. m < n + 1
    BY <1>1, <1>2, <2>3, ProductOrder
  <2>5. QED
    BY <1>2, <2>4
<1>4. QED
  BY <1>2, <1>3 DEF MonthOf, m, n

\* A number of units a month that pays an amount, and the least that does.
LEMMA InUnitsPays ==
  ASSUME NEW amount \in Nat, NEW months \in Nat \ {0}
  PROVE  LET paid == InUnits(amount, months)
         IN  /\ \E n \in Nat : paid = n * Unit
             /\ paid \in Nat
             /\ months * paid >= amount
             /\ months * (paid - Unit) < amount
             /\ \A n \in Nat : amount <= months * (n * Unit) => paid <= n * Unit
<1> DEFINE step == months * Unit
           times == (amount + step - 1) \div step
<1>1. Unit \in Nat \ {0}
  BY UnitAssumption
<1>2. step \in Nat \ {0}
  BY <1>1
<1>3. InUnits(amount, months) = times * Unit
  BY DEF InUnits
<1>4. amount + step - 1 \in Nat
  BY <1>2
<1>5. times \in Nat /\ times * step <= amount + step - 1 /\ amount + step - 1 < times * step + step
  BY <1>2, <1>4, DivBounds
<1> HIDE DEF times
<1>6. \A k \in Nat : k * step = months * (k * Unit) /\ k * Unit \in Nat /\ k * step \in Nat
  BY <1>1
<1>7. months * (times * Unit - Unit) = times * step - step
  BY <1>1, <1>5
<1> HIDE DEF step
<1>8. times * step >= amount /\ times * step - step < amount
  BY <1>2, <1>5, <1>6
<1>9. ASSUME NEW n \in Nat, amount <= months * (n * Unit)
      PROVE  times * Unit <= n * Unit
  <2>1. amount <= n * step
    BY <1>6, <1>9
  <2>2. n * step + step = (n + 1) * step
    BY <1>2
  <2>3. times * step < (n + 1) * step
    BY <1>2, <1>5, <1>6, <1>8, <2>1, <2>2
  <2>4. times < n + 1
    BY <1>2, <1>5, <2>3, ProductOrder
  <2>5. times <= n
    BY <1>5, <2>4
  <2>6. QED
    BY <1>1, <1>5, <2>5, ProductOrder
<1>10. QED
  BY <1>3, <1>5, <1>6, <1>7, <1>8, <1>9

\* What is left of a goal, and the months left for it.
LEMMA PlanTypes ==
  ASSUME NEW goal \in Goal, NEW today \in Days
  PROVE  /\ Remaining(goal) \in Nat /\ MonthsRemaining(goal, today) \in Nat \ {0}
         /\ MonthOf(goal.due) \in Nat /\ MonthOf(today) \in Nat
         /\ goal.due \in Nat /\ today \in Nat
         /\ goal.current \in Nat /\ goal.target \in Nat
<1>1. goal.current \in Nat /\ goal.target \in Targets /\ goal.due \in Dues
  BY DEF Goal
<1>2. goal.target \in Nat /\ goal.due \in Nat /\ today \in Nat
  BY <1>1, GoalAmountsAssumption, GoalDaysAssumption
<1>3. MonthOf(goal.due) \in Nat /\ MonthOf(today) \in Nat
  BY <1>2, MonthsInOrder
<1>4. Remaining(goal) \in Nat
  BY <1>1, <1>2 DEF Remaining
<1>5. MonthsRemaining(goal, today) \in Nat \ {0}
  BY <1>3 DEF MonthsRemaining, CalendarMonths
<1>6. QED
  BY <1>1, <1>2, <1>3, <1>4, <1>5
\* Who has paid what the plan asked is not asked for more a month later.
LEMMA NextMonthAsksNoMore ==
  ASSUME NEW goal \in Goal, NEW today \in Days, NEW later \in Days,
         today <= later, ~ IsOverdue(goal, later), MonthOf(later) = MonthOf(today) + 1
  PROVE  Required([goal EXCEPT !.current = @ + Required(goal, today)], later)
         <= Required(goal, today)
<1> DEFINE required == Required(goal, today)
           paid == [goal EXCEPT !.current = goal.current + required]
           months == MonthsRemaining(goal, today)
           after == MonthsRemaining(paid, later)
<1>1. /\ Remaining(goal) \in Nat /\ months \in Nat \ {0}
      /\ MonthOf(goal.due) \in Nat /\ MonthOf(today) \in Nat /\ MonthOf(later) \in Nat
      /\ goal.due \in Nat /\ today \in Nat /\ later \in Nat
      /\ goal.current \in Nat /\ goal.target \in Nat
  BY PlanTypes
<1>2. ~ IsOverdue(goal, today) /\ later <= goal.due
  BY <1>1 DEF IsOverdue
<1>3. MonthOf(later) <= MonthOf(goal.due)
  BY <1>1, <1>2, MonthsInOrder
<1>4. months = MonthOf(goal.due) - MonthOf(today)
  BY <1>1, <1>3 DEF MonthsRemaining, CalendarMonths
<1>5. required = InUnits(Remaining(goal), months)
  BY <1>2 DEF Required
<1> HIDE DEF months
<1>6. /\ \E n \in Nat : required = n * Unit
      /\ required \in Nat /\ months * required >= Remaining(goal)
  BY <1>1, <1>5, InUnitsPays
<1>7. PICK n \in Nat : required = n * Unit
  BY <1>6
<1> HIDE DEF required
<1>8. /\ paid \in Goal /\ paid.due = goal.due /\ paid.target = goal.target
      /\ paid.current = goal.current + required
  BY <1>1, <1>6 DEF Goal
<1> HIDE DEF paid
<1>9. Remaining(paid) \in Nat /\ after \in Nat \ {0}
  BY <1>8, PlanTypes
<1>10. after = IF months - 1 < 1 THEN 1 ELSE months - 1
  BY <1>1, <1>4, <1>8 DEF MonthsRemaining, CalendarMonths
<1>11. Required(paid, later) = InUnits(Remaining(paid), after)
  BY <1>8 DEF Required, IsOverdue
<1> HIDE DEF after
<1>12. Remaining(paid) <= after * required
  <2>1. after * required \in Nat
    BY <1>6, <1>9
  <2>2. CASE Remaining(paid) = 0
    BY <2>1, <2>2
  <2>3. CASE Remaining(paid) # 0
    <3>1. Remaining(paid) = goal.target - (goal.current + required)
      BY <1>8, <2>3 DEF Remaining
    <3>2. Remaining(paid) = Remaining(goal) - required
      <4>1. goal.current < goal.target
        BY <1>1, <1>6, <1>9, <2>3, <3>1
      <4>2. Remaining(goal) = goal.target - goal.current
        BY <4>1 DEF Remaining
      <4>3. QED
        BY <1>1, <1>6, <3>1, <4>2
    <3>3. (months - 1) * required = months * required - required
      BY <1>1, <1>6
    <3>4. months * required \in Nat
      BY <1>1, <1>6
    <3>5. Remaining(paid) <= (months - 1) * required
      BY <1>1, <1>6, <1>9, <3>2, <3>3, <3>4
    <3>6. months # 1
      BY <1>6, <1>9, <2>3, <3>5
    <3>7. after = months - 1
      BY <1>1, <1>10, <3>6
    <3>8. QED
      BY <3>5, <3>7
  <2>4. QED
    BY <2>2, <2>3
<1>13. InUnits(Remaining(paid), after) <= n * Unit
  BY <1>7, <1>9, <1>12, InUnitsPays
<1>14. Required(paid, later) <= required
  BY <1>7, <1>11, <1>13
<1>15. QED
  BY <1>14 DEF paid, required

\* The monthly contribution of a plan reaches the target in the months that
\* remain, with less than a unit too much a month, and stays what it is
\* (calculateGoalPlan), for every goal, day, length of the months and unit.
THEOREM PlansAlwaysReachTheirTarget == Spec => []PlansReachTheirTarget
<1>1. TypeOK => PlansReachTheirTarget
  <2> SUFFICES ASSUME TypeOK, NEW g \in Exist(goals), NEW today \in Days,
                      ~ IsOverdue(goals[g], today)
               PROVE  LET goal == goals[g]
                          months == MonthsRemaining(goal, today)
                          required == Required(goal, today)
                          paid == [goal EXCEPT !.current = @ + required]
                      IN  /\ months * required >= Remaining(goal)
                          /\ Remaining(goal) > 0 => months * (required - Unit) < Remaining(goal)
                          /\ \A later \in Days : (today <= later /\ ~ IsOverdue(goal, later)) =>
                                /\ MonthOf(later) = MonthOf(today) => Required(goal, later) = required
                                /\ MonthOf(later) = MonthOf(today) + 1
                                      => Required(paid, later) <= required
    BY DEF PlansReachTheirTarget
  <2> DEFINE goal == goals[g]
             months == MonthsRemaining(goal, today)
             required == Required(goal, today)
  <2>1. goal \in Goal
    BY RowsExist
  <2> HIDE DEF goal
  <2>2. Remaining(goal) \in Nat /\ months \in Nat \ {0}
    BY <2>1, PlanTypes
  <2>3. required = InUnits(Remaining(goal), months)
    BY DEF Required, goal
  <2>4. months * required >= Remaining(goal) /\ months * (required - Unit) < Remaining(goal)
    BY <2>2, <2>3, InUnitsPays
  <2>5. ASSUME NEW later \in Days, ~ IsOverdue(goal, later), MonthOf(later) = MonthOf(today)
        PROVE  Required(goal, later) = required
    BY <2>3, <2>5 DEF Required, MonthsRemaining, CalendarMonths
  <2>6. QED
    BY <2>1, <2>4, <2>5, NextMonthAsksNoMore DEF goal
<1>2. QED
  BY <1>1, GoalsTypeCorrect, PTL

=============================================================================
