----------------------- MODULE InstallmentPlansProofs -----------------------
(***************************************************************************)
(* What is proved of InstallmentPlans for any number of clients and plans, *)
(* any amounts and any number of installments: however requests            *)
(* interleave, a plan stays one that create and update accept, with the    *)
(* purchase that goes with it, and a settlement keeps its expense; and of  *)
(* requests that come one by one, that every cent of the principal is      *)
(* charged once and that a finished plan is recognized in full.            *)
(*                                                                         *)
(* The invariant adds what a request under way knows: an update is going   *)
(* to write a valid plan of the kind of the stored one, and an expense     *)
(* that is going to be deleted on its own is not that of the settlement.   *)
(* Of requests that come one by one it also knows the money: each expense  *)
(* has the amount of its installment, that of the settlement the rest.     *)
(***************************************************************************)
EXTENDS InstallmentPlans, FiniteTheorems, TLAPS

\* A recognized expense has an id; what it amounts to is not said.
HasRow(p, k) ==
    /\ DOMAIN expenses[p][k] = {"version", "amount", "month", "category"}
    /\ expenses[p][k].version \in Versions

Typed ==
    /\ plans \in [PlanIds -> Plan \union {NotCreated, Gone}]
    /\ DOMAIN purchases = PlanIds
    /\ DOMAIN expenses = PlanIds
    /\ \A p \in PlanIds : DOMAIN expenses[p] = Numbers
    /\ \A p \in PlanIds, k \in Numbers : expenses[p][k] = NoRow \/ HasRow(p, k)
    /\ DOMAIN requests = Clients
    /\ scope \in Scopes

\* What an update is going to write.
UpdateIsValid(q) ==
    /\ q.plan \in PlanIds
    /\ plans[q.plan] # NotCreated
    /\ q.to \in Plan
    /\ Valid(q.to)
    /\ Exists(q.plan) => q.to.kind = plans[q.plan].kind
    /\ q.principal \in Nat \union {Unchanged}
    /\ q.principal # Unchanged => q.to.principal = q.principal

\* The expense that is going to be deleted on its own is not the settlement's.
SparesSettlement(q) ==
    /\ q.plan \in PlanIds
    /\ q.number \in Numbers
    /\ q.version \in Versions
    /\ Exists(q.plan) /\ plans[q.plan].status = "SETTLED"
       /\ plans[q.plan].settlement = q.number
           => expenses[q.plan][q.number].version # q.version

\* Which installment a settlement recognizes.
SettlesOne(q) == q.plan \in PlanIds /\ q.number \in Numbers \union {Null}

\* What a request still holds fits the plans as they are.
FitsPlans(q) ==
    /\ q.op = "update" => UpdateIsValid(q)
    /\ q.op = "unrecognize" => SparesSettlement(q)
    /\ q.op = "settle" => SettlesOne(q)
    /\ q.op = "recognize" => q.plan \in PlanIds /\ q.number \in Numbers
    /\ q.op \in {"remove", "unsettle"} => q.plan \in PlanIds

Inv ==
    /\ Typed
    /\ PlansStayValid
    /\ SettlementIsRecorded
    /\ \A c \in Clients : requests[c] # Idle => FitsPlans(requests[c])

-----------------------------------------------------------------------------
(* Plans and patches *)

\* A set of naturals that is not empty has its Min.
LEMMA MinIsMember ==
  ASSUME NEW S \in SUBSET Nat, S # {}
  PROVE  Min(S) \in S
<1>1. PICK m \in S : \A n \in S : ~ (<<n, m>> \in OpToRel(<, Nat))
  BY NatLessThanWellFounded, WFMin
<1>2. \A n \in S : ~ (n < m)
  BY <1>1 DEF OpToRel
<1>3. \E x \in S : \A y \in S : x =< y
  BY <1>2
<1>4. QED
  BY <1>3 DEF Min

\* What a patch makes of a plan is a plan, of the same kind.
LEMMA PatchedIsPlan ==
  ASSUME NEW plan \in Plan, NEW patch \in Patches
  PROVE  /\ Patched(plan, patch) \in Plan
         /\ Patched(plan, patch).kind = plan.kind
         /\ patch.principal \in Nat \union {Unchanged}
         /\ patch.principal # Unchanged => Patched(plan, patch).principal = patch.principal
<1> DEFINE Fields == {"principal", "count", "start", "first", "billed", "recognizing",
                      "category"}
           to == Patched(plan, patch)
<1>1. patch \in [principal : Nat \union {Unchanged}, count : Numbers \union {Unchanged},
                 start : Months \union {Unchanged}, first : Nat \union {Unchanged},
                 billed : 0 .. MaxCount \union {Unchanged},
                 recognizing : BOOLEAN \union {Unchanged},
                 category : Category \union {Unchanged}]
  BY PatchesAssumption
<1>2. DOMAIN patch = Fields
  BY <1>1
<1>3. DOMAIN plan = Fields \union {"kind", "status", "settlement"}
  BY DEF Plan
<1>4. /\ DOMAIN to = DOMAIN plan
      /\ \A f \in DOMAIN plan : to[f] = IF f \in Fields THEN Sent(patch, plan, f) ELSE plan[f]
  BY <1>2 DEF Patched
<1>5. /\ to.kind = plan.kind /\ to.status = plan.status /\ to.settlement = plan.settlement
      /\ to.principal = Sent(patch, plan, "principal")
      /\ to.count = Sent(patch, plan, "count")
      /\ to.start = Sent(patch, plan, "start")
      /\ to.first = Sent(patch, plan, "first")
      /\ to.billed = Sent(patch, plan, "billed")
      /\ to.recognizing = Sent(patch, plan, "recognizing")
      /\ to.category = Sent(patch, plan, "category")
  BY <1>3, <1>4
<1>6. to = [kind |-> to.kind, principal |-> to.principal, count |-> to.count,
            start |-> to.start, first |-> to.first, billed |-> to.billed,
            recognizing |-> to.recognizing, category |-> to.category,
            status |-> to.status, settlement |-> to.settlement]
  BY <1>3, <1>4 DEF Patched
<1>7. /\ to.principal \in Nat /\ to.count \in Numbers /\ to.start \in Months
      /\ to.first \in Nat /\ to.billed \in 0 .. MaxCount /\ to.recognizing \in BOOLEAN
      /\ to.category \in Category
  BY <1>1, <1>5 DEF Sent, Plan
<1>8. /\ to.kind \in {"PURCHASE", "REFINANCE", "LEGACY"}
      /\ to.status \in {"ACTIVE", "SETTLED"} /\ to.settlement \in Numbers \union {Null}
  BY <1>5 DEF Plan
<1>9. to \in Plan
  <2> HIDE DEF to
  <2>1. QED
    BY <1>6, <1>7, <1>8 DEF Plan
<1>10. QED
  BY <1>1, <1>5, <1>9 DEF Sent

\* A fresh id is one that no request remembers.
LEMMA FreshIsFresh ==
  ASSUME NEW p \in PlanIds, NEW k \in Numbers
  PROVE  /\ FreshVersion(p, k) \in Versions
         /\ \A c \in Clients : ~ Remembers(c, p, k, FreshVersion(p, k))
<1> DEFINE held == [c \in Clients |-> IF requests[c].version \in Versions
                                      THEN requests[c].version
                                      ELSE CHOOSE v \in Versions : TRUE]
<1>1. held \in [Clients -> Versions]
  BY VersionsAssumption
<1>2. PICK v \in Versions : \A c \in Clients : held[c] # v
  BY <1>1, VersionsAssumption
<1>3. \A c \in Clients : ~ Remembers(c, p, k, v)
  BY <1>2 DEF Remembers
<1>4. QED
  BY <1>2, <1>3 DEF FreshVersion

\* What exists is a plan, and conversely.
LEMMA PlansExist ==
  ASSUME Typed
  PROVE  \A p \in PlanIds : Exists(p) <=> plans[p] \in Plan
BY RowsAssumption DEF Typed, Exists

-----------------------------------------------------------------------------
(* Steps that only read *)

\* A request that fits is kept without further ado.
LEMMA BeginKeeps ==
  ASSUME Inv, NEW c \in Clients, NEW q, FitsPlans(q), Begin(c, q), UNCHANGED scope
  PROVE  Inv'
<1> USE DEF Inv, Begin
<1>1. Typed'
  BY DEF Typed, HasRow
<1>2. PlansStayValid'
  BY DEF PlansStayValid, Exists
<1>3. SettlementIsRecorded'
  BY DEF SettlementIsRecorded, Exists
<1>4. ASSUME NEW d \in Clients, NEW r, r # Idle, FitsPlans(r)
      PROVE  FitsPlans(r)'
  BY <1>4 DEF FitsPlans, UpdateIsValid, SparesSettlement, SettlesOne, Exists
<1>5. ASSUME NEW d \in Clients, requests'[d] # Idle
      PROVE  FitsPlans(requests[d])'
  <2>1. PICK r : r = requests'[d]
    OBVIOUS
  <2>2. FitsPlans(r)
    BY <1>5, <2>1 DEF Typed
  <2>3. FitsPlans(r)'
    BY <1>4, <1>5, <2>1, <2>2
  <2>4. QED
    BY <2>1, <2>3
<1>6. QED
  BY <1>1, <1>2, <1>3, <1>5

LEMMA BeginsKeep ==
  ASSUME Inv, UNCHANGED scope, NEW c \in Clients, NEW p \in PlanIds
  PROVE  /\ \A patch \in Patches : BeginUpdate(c, p, patch) => Inv'
         /\ BeginRemove(c, p) => Inv'
         /\ \A k \in Numbers : BeginRecognize(c, p, k) => Inv'
         /\ \A k \in Numbers : BeginUnrecognize(c, p, k) => Inv'
         /\ \A month \in Months : BeginSettle(c, p, month) => Inv'
         /\ BeginUnsettle(c, p) => Inv'
<1>1. ASSUME NEW patch \in Patches, BeginUpdate(c, p, patch)
      PROVE  Inv'
  <2> DEFINE to == Patched(plans[p], patch)
             q == [op |-> "update", plan |-> p, to |-> to, principal |-> patch.principal,
                   recategorize |-> to.category \notin {plans[p].category, Null}]
  <2>1. plans[p] \in Plan /\ Exists(p) /\ Valid(to) /\ Begin(c, q)
    BY <1>1, PlansExist DEF BeginUpdate, Inv
  <2>2. UpdateIsValid(q)
    <3>1. /\ to \in Plan /\ to.kind = plans[p].kind
          /\ patch.principal \in Nat \union {Unchanged}
          /\ patch.principal # Unchanged => to.principal = patch.principal
      BY <2>1, PatchedIsPlan
    <3> HIDE DEF to
    <3>2. QED
      BY <2>1, <3>1 DEF UpdateIsValid, Exists
  <2>3. FitsPlans(q)
    BY <2>2 DEF FitsPlans
  <2>4. QED
    BY <2>1, <2>3, BeginKeeps
<1>2. ASSUME BeginRemove(c, p)
      PROVE  Inv'
  <2> DEFINE q == [op |-> "remove", plan |-> p]
  <2>1. Begin(c, q) /\ FitsPlans(q)
    BY <1>2 DEF BeginRemove, FitsPlans
  <2>2. QED
    BY <2>1, BeginKeeps
<1>3. ASSUME NEW k \in Numbers, BeginRecognize(c, p, k)
      PROVE  Inv'
  <2> DEFINE q == [op |-> "recognize", plan |-> p, number |-> k,
                   amount |-> PrincipalOf(plans[p], k), month |-> DueMonth(plans[p], k),
                   category |-> plans[p].category]
  <2>1. Begin(c, q) /\ FitsPlans(q)
    BY <1>3 DEF BeginRecognize, FitsPlans
  <2>2. QED
    BY <2>1, BeginKeeps
<1>4. ASSUME NEW k \in Numbers, BeginUnrecognize(c, p, k)
      PROVE  Inv'
  <2> DEFINE q == [op |-> "unrecognize", plan |-> p, number |-> k,
                   version |-> expenses[p][k].version]
  <2>1. Begin(c, q)
    BY <1>4 DEF BeginUnrecognize
  <2>2. expenses[p][k].version \in Versions
    BY <1>4 DEF BeginUnrecognize, Recognized, Inv, Typed, HasRow
  <2>3. ~ (plans[p].status = "SETTLED" /\ plans[p].settlement = k)
    BY <1>4 DEF BeginUnrecognize
  <2>4. FitsPlans(q)
    BY <2>2, <2>3 DEF FitsPlans, SparesSettlement
  <2>5. QED
    BY <2>1, <2>4, BeginKeeps
<1>5. ASSUME NEW month \in Months, BeginSettle(c, p, month)
      PROVE  Inv'
  <2> DEFINE number == IF Remaining(p) = {} THEN Null ELSE Min(Remaining(p))
             amount == PrincipalOfAll(plans[p], Remaining(p))
             q == [op |-> "settle", plan |-> p, month |-> month,
                   category |-> plans[p].category, number |-> number, amount |-> amount]
  <2>1. Begin(c, q) /\ plans[p] \in Plan
    BY <1>5, PlansExist DEF BeginSettle, Inv
  <2>2. number \in Numbers \union {Null}
    <3>1. Remaining(p) \subseteq Installments(plans[p])
      BY DEF Remaining
    <3>2. Installments(plans[p]) \subseteq Numbers /\ Numbers \subseteq Nat
      BY <2>1, CountAssumption DEF Installments, Plan, Numbers
    <3>3. CASE Remaining(p) = {}
      BY <3>3
    <3>4. CASE Remaining(p) # {}
      BY <3>1, <3>2, <3>4, MinIsMember
    <3>5. QED
      BY <3>3, <3>4
  <2>3. FitsPlans(q)
    <3> HIDE DEF number, amount
    <3>1. QED
      BY <2>2 DEF FitsPlans, SettlesOne
  <2>4. QED
    <3> HIDE DEF q
    <3>1. QED
      BY <2>1, <2>3, BeginKeeps
<1>6. ASSUME BeginUnsettle(c, p)
      PROVE  Inv'
  <2> DEFINE k == plans[p].settlement
             recorded == k # Null /\ k \in Recognized(p)
             q == [op |-> "unsettle", plan |-> p, number |-> IF recorded THEN k ELSE Null,
                   version |-> IF recorded THEN expenses[p][k].version ELSE Null]
  <2>1. Begin(c, q) /\ FitsPlans(q)
    BY <1>6 DEF BeginUnsettle, FitsPlans
  <2>2. QED
    BY <2>1, BeginKeeps
<1>7. QED
  BY <1>1, <1>2, <1>3, <1>4, <1>5, <1>6

LEMMA BeginRegisterPendingKeeps ==
  ASSUME Inv, UNCHANGED scope, NEW c \in Clients, NEW period, BeginRegisterPending(c, period)
  PROVE  Inv'
<1> DEFINE items == [p \in PlanIds |->
                       [k \in Pending(p, period) |->
                          [amount |-> PrincipalOf(plans[p], k), month |-> DueMonth(plans[p], k)]]]
           q == [op |-> "registerPending", items |-> items]
<1>1. Begin(c, q)
  BY DEF BeginRegisterPending
<1>2. FitsPlans(q)
  <2> HIDE DEF items
  <2>1. QED
    BY DEF FitsPlans
<1> HIDE DEF q
<1>3. QED
  BY <1>1, <1>2, BeginKeeps

-----------------------------------------------------------------------------
(* Steps that write *)

\* What a write must leave alone for the requests of the others to fit.
LEMMA WriteKeepsRequests ==
  ASSUME Inv, NEW c \in Clients, Answer(c),
         \A p \in PlanIds : plans[p] # NotCreated =>
            /\ plans'[p] # NotCreated
            /\ Exists(p)' => Exists(p) /\ plans'[p].kind = plans[p].kind,
         \A d \in Clients : Writes(d, "unrecognize") => SparesSettlement(requests[d])'
                                                        \/ requests'[d] = Idle
  PROVE  \A d \in Clients : requests'[d] # Idle => FitsPlans(requests[d])'
<1> SUFFICES ASSUME NEW d \in Clients, requests'[d] # Idle
             PROVE  FitsPlans(requests[d])'
  OBVIOUS
<1>1. requests'[d] = requests[d] /\ requests[d] # Idle
  BY DEF Answer, Inv, Typed
<1>2. FitsPlans(requests[d])
  BY <1>1 DEF Inv
<1>3. requests[d].op = "unrecognize" => SparesSettlement(requests[d])'
  BY <1>1 DEF Writes
<1>4. requests[d].op = "update" => UpdateIsValid(requests[d])'
  BY <1>1, <1>2 DEF FitsPlans, UpdateIsValid
<1>5. QED
  BY <1>1, <1>2, <1>3, <1>4 DEF FitsPlans, SettlesOne

\* Only the category of an expense is rewritten.
LEMMA RecategorizedKeepsId ==
  ASSUME NEW q, NEW row
  PROVE  /\ DOMAIN Recategorized(q, row) = DOMAIN row
         /\ row = NoRow => Recategorized(q, row) = NoRow
         /\ DOMAIN row = {"version", "amount", "month", "category"}
                => Recategorized(q, row).version = row.version
BY DEF Recategorized

LEMMA UpdateKeeps ==
  ASSUME Inv, UNCHANGED scope, NEW c \in Clients, Update(c)
  PROVE  Inv'
<1> DEFINE q == requests[c]
           p == q.plan
           to == [q.to EXCEPT !.principal  = PrincipalSent(q, plans[p].principal),
                              !.status     = plans[p].status,
                              !.settlement = plans[p].settlement]
<1>1. /\ UpdateIsValid(q) /\ p \in PlanIds /\ q.to \in Plan
      /\ Exists(p) /\ plans[p] \in Plan
      /\ q.to.kind = plans[p].kind
  BY PlansExist DEF Update, Inv, FitsPlans, Writes, UpdateIsValid
<1>2. /\ plans' = [plans EXCEPT ![p] = to]
      /\ purchases' = [purchases EXCEPT ![p] =
            IF plans[p].kind = "PURCHASE" THEN UpdatedPurchase(q, purchases[p])
            ELSE purchases[p]]
      /\ expenses' = [expenses EXCEPT ![p] =
                         [k \in Numbers |-> Recategorized(q, expenses[p][k])]]
      /\ Answer(c)
  BY <1>1 DEF Update, Inv, Typed
<1>3. /\ to.kind = q.to.kind /\ to.count = q.to.count /\ to.start = q.to.start
      /\ to.first = q.to.first /\ to.billed = q.to.billed
      /\ to.recognizing = q.to.recognizing /\ to.category = q.to.category
      /\ to.principal = PrincipalSent(q, plans[p].principal)
      /\ to.status = plans[p].status /\ to.settlement = plans[p].settlement
  BY <1>1 DEF Plan
<1>4. to \in Plan
  BY <1>1 DEF Plan, PrincipalSent, UpdateIsValid
<1>5. Valid(to)
  BY <1>1, <1>3 DEF Valid, UpdateIsValid
<1> HIDE DEF to
<1>6. /\ plans'[p] = to
      /\ \A o \in PlanIds : o # p => plans'[o] = plans[o]
  BY <1>1, <1>2 DEF Inv, Typed
<1>7. \A o \in PlanIds : Exists(o)' <=> Exists(o)
  BY <1>1, <1>4, <1>6, RowsAssumption DEF Exists
<1>8. /\ \A o \in PlanIds : o # p => expenses'[o] = expenses[o]
      /\ DOMAIN expenses'[p] = Numbers
      /\ \A k \in Numbers : expenses'[p][k] = Recategorized(q, expenses[p][k])
  BY <1>1, <1>2 DEF Inv, Typed
<1>9. \A o \in PlanIds, k \in Numbers :
         /\ expenses[o][k] = NoRow => expenses'[o][k] = NoRow
         /\ HasRow(o, k) => HasRow(o, k)' /\ expenses'[o][k].version = expenses[o][k].version
  <2> SUFFICES ASSUME NEW o \in PlanIds, NEW k \in Numbers
               PROVE  /\ expenses[o][k] = NoRow => expenses'[o][k] = NoRow
                      /\ HasRow(o, k) => /\ HasRow(o, k)'
                                         /\ expenses'[o][k].version = expenses[o][k].version
    OBVIOUS
  <2>1. CASE o # p
    BY <1>8, <2>1 DEF HasRow
  <2>2. CASE o = p
    <3>1. expenses'[o][k] = Recategorized(q, expenses[o][k])
      BY <1>8, <2>2
    <3> HIDE DEF q, p
    <3>2. QED
      BY <3>1, RecategorizedKeepsId DEF HasRow
  <2>3. QED
    BY <2>1, <2>2
<1>10. Typed'
  <2>1. plans' \in [PlanIds -> Plan \union {NotCreated, Gone}]
    BY <1>1, <1>2, <1>4 DEF Inv, Typed
  <2>2. DOMAIN purchases' = PlanIds /\ DOMAIN expenses' = PlanIds /\ DOMAIN requests' = Clients
    BY <1>2 DEF Inv, Typed, Answer
  <2>3. \A o \in PlanIds : DOMAIN expenses'[o] = Numbers
    BY <1>8 DEF Inv, Typed
  <2>4. \A o \in PlanIds, k \in Numbers : expenses'[o][k] = NoRow \/ HasRow(o, k)'
    BY <1>9 DEF Inv, Typed
  <2>5. QED
    BY <2>1, <2>2, <2>3, <2>4 DEF Inv, Typed
<1>11. PlansStayValid'
  <2>1. \A o \in PlanIds : o # p => purchases'[o] = purchases[o]
    BY <1>2 DEF Inv, Typed
  <2>2. purchases'[p] = IF to.kind = "PURCHASE" THEN Purchase(to) ELSE Null
    <3>1. CASE plans[p].kind = "PURCHASE"
      <4>1. purchases[p].amount = plans[p].principal
        <5>1. purchases[p] = Purchase(plans[p])
          BY <1>1, <3>1 DEF Inv, PlansStayValid
        <5>2. QED
          BY <5>1 DEF Purchase
      <4>2. UpdatedPurchase(q, purchases[p]) = Purchase(to)
        BY <1>3, <4>1 DEF UpdatedPurchase, Purchase, PrincipalSent
      <4>3. QED
        BY <1>1, <1>2, <1>3, <3>1, <4>2 DEF Inv, Typed
    <3>2. CASE plans[p].kind # "PURCHASE"
      BY <1>1, <1>2, <1>3, <3>2 DEF Inv, Typed, PlansStayValid
    <3>3. QED
      BY <3>1, <3>2
  <2>3. QED
    BY <1>1, <1>5, <1>6, <1>7, <2>1, <2>2 DEF Inv, PlansStayValid
<1>12. SettlementIsRecorded'
  <2> SUFFICES ASSUME NEW o \in PlanIds, Exists(o)', plans'[o].status = "SETTLED",
                      plans'[o].settlement # Null
               PROVE  expenses'[o][plans'[o].settlement] # NoRow
    BY DEF SettlementIsRecorded
  <2>1. /\ Exists(o) /\ plans[o].status = "SETTLED"
        /\ plans'[o].settlement = plans[o].settlement
    BY <1>3, <1>6, <1>7
  <2>2. plans[o].settlement \in Numbers
    BY <2>1, PlansExist DEF Inv, Plan
  <2>3. HasRow(o, plans[o].settlement)
    BY <2>1, <2>2 DEF Inv, Typed, SettlementIsRecorded
  <2>4. QED
    BY <1>9, <2>1, <2>2, <2>3, VersionsAssumption DEF HasRow
<1>13. \A d \in Clients : Writes(d, "unrecognize") => SparesSettlement(requests[d])'
                                                      \/ requests'[d] = Idle
  <2> SUFFICES ASSUME NEW d \in Clients, Writes(d, "unrecognize"), requests'[d] # Idle
               PROVE  SparesSettlement(requests[d])'
    OBVIOUS
  <2>1. PICK r : r = requests[d]
    OBVIOUS
  <2>2. requests'[d] = r /\ SparesSettlement(r)
    BY <1>2, <2>1 DEF Inv, Typed, Answer, Writes, FitsPlans
  <2>3. r.plan \in PlanIds /\ r.number \in Numbers /\ r.version \in Versions
    BY <2>2 DEF SparesSettlement
  <2>4. ASSUME Exists(r.plan)', plans'[r.plan].status = "SETTLED",
               plans'[r.plan].settlement = r.number
        PROVE  expenses'[r.plan][r.number].version # r.version
    <3>1. /\ Exists(r.plan) /\ plans[r.plan].status = "SETTLED"
          /\ plans[r.plan].settlement = r.number
      BY <1>3, <1>6, <1>7, <2>3, <2>4
    <3>2. expenses[r.plan][r.number].version # r.version
      BY <2>2, <3>1 DEF SparesSettlement
    <3>3. CASE expenses[r.plan][r.number] = NoRow
      BY <1>9, <2>3, <3>3, VersionsAssumption
    <3>4. CASE HasRow(r.plan, r.number)
      BY <1>9, <2>3, <3>2, <3>4
    <3>5. QED
      BY <2>3, <3>3, <3>4 DEF Inv, Typed
  <2>5. SparesSettlement(r)'
    BY <2>3, <2>4 DEF SparesSettlement
  <2>6. QED
    BY <2>2, <2>5
<1>14. \A o \in PlanIds : plans[o] # NotCreated =>
          /\ plans'[o] # NotCreated
          /\ Exists(o)' => Exists(o) /\ plans'[o].kind = plans[o].kind
  BY <1>1, <1>3, <1>4, <1>6, <1>7, RowsAssumption
<1>15. \A d \in Clients : requests'[d] # Idle => FitsPlans(requests[d])'
  BY <1>2, <1>13, <1>14, WriteKeepsRequests
<1>16. QED
  BY <1>10, <1>11, <1>12, <1>15 DEF Inv

\* A write of expenses alone that leaves those of the settlements as they are.
LEMMA ExpensesStep ==
  ASSUME Inv, UNCHANGED <<plans, purchases, scope>>, NEW c \in Clients, Answer(c),
         DOMAIN expenses' = PlanIds,
         \A p \in PlanIds : DOMAIN expenses'[p] = Numbers,
         \A p \in PlanIds, k \in Numbers : expenses'[p][k] = NoRow \/ HasRow(p, k)',
         \A p \in PlanIds, k \in Numbers :
            Exists(p) /\ plans[p].status = "SETTLED" /\ plans[p].settlement = k
                => expenses'[p][k] = expenses[p][k]
  PROVE  Inv'
<1>1. Typed'
  BY DEF Inv, Typed, Answer
<1>2. PlansStayValid'
  BY DEF Inv, PlansStayValid, Exists
<1>3. SettlementIsRecorded'
  <2> SUFFICES ASSUME NEW p \in PlanIds, Exists(p), plans[p].status = "SETTLED",
                      plans[p].settlement # Null
               PROVE  expenses'[p][plans[p].settlement] # NoRow
    BY DEF SettlementIsRecorded, Exists
  <2>1. plans[p].settlement \in Numbers
    BY PlansExist DEF Inv, Plan
  <2>2. QED
    BY <2>1 DEF Inv, SettlementIsRecorded
<1>4. \A d \in Clients : Writes(d, "unrecognize") => SparesSettlement(requests[d])'
                                                     \/ requests'[d] = Idle
  <2> SUFFICES ASSUME NEW d \in Clients, Writes(d, "unrecognize"), requests'[d] # Idle
               PROVE  SparesSettlement(requests[d])'
    OBVIOUS
  <2>1. PICK r : r = requests[d]
    OBVIOUS
  <2>2. requests'[d] = r /\ SparesSettlement(r)
    BY <2>1 DEF Inv, Typed, Answer, Writes, FitsPlans
  <2>3. SparesSettlement(r)'
    BY <2>2 DEF SparesSettlement, Exists
  <2>4. QED
    BY <2>2, <2>3
<1>5. \A p \in PlanIds : plans[p] # NotCreated =>
         /\ plans'[p] # NotCreated
         /\ Exists(p)' => Exists(p) /\ plans'[p].kind = plans[p].kind
  BY DEF Exists
<1>6. \A d \in Clients : requests'[d] # Idle => FitsPlans(requests[d])'
  BY <1>4, <1>5, WriteKeepsRequests
<1>7. QED
  BY <1>1, <1>2, <1>3, <1>6 DEF Inv

\* The expense of a settlement in force is there.
LEMMA SettlementHasRow ==
  ASSUME Inv, NEW p \in PlanIds, NEW k \in Numbers, Null \notin Numbers,
         Exists(p), plans[p].status = "SETTLED", plans[p].settlement = k
  PROVE  expenses[p][k] # NoRow
BY DEF Inv, SettlementIsRecorded

\* A new expense is a row.
LEMMA ExpenseIsRow ==
  ASSUME NEW p \in PlanIds, NEW k \in Numbers, NEW amount, NEW month, NEW category
  PROVE  /\ DOMAIN Expense(p, k, amount, month, category)
                = {"version", "amount", "month", "category"}
         /\ Expense(p, k, amount, month, category).version = FreshVersion(p, k)
         /\ Expense(p, k, amount, month, category).version \in Versions
BY FreshIsFresh DEF Expense

LEMMA RecognizeKeeps ==
  ASSUME Inv, UNCHANGED scope, NEW c \in Clients, Recognize(c)
  PROVE  Inv'
<1>1. PICK q : q = requests[c]
  OBVIOUS
<1>2. /\ q.plan \in PlanIds /\ q.number \in Numbers
      /\ expenses[q.plan][q.number] = NoRow
      /\ expenses' = [expenses EXCEPT ![q.plan][q.number] =
                         Expense(q.plan, q.number, q.amount, q.month, q.category)]
      /\ Answer(c) /\ UNCHANGED <<plans, purchases>>
  BY <1>1 DEF Recognize, Writes, Inv, FitsPlans
<1>3. PICK row : row = Expense(q.plan, q.number, q.amount, q.month, q.category)
  OBVIOUS
<1>4. DOMAIN row = {"version", "amount", "month", "category"} /\ row.version \in Versions
  BY <1>2, <1>3, ExpenseIsRow
<1>5. /\ DOMAIN expenses' = PlanIds
      /\ \A p \in PlanIds : DOMAIN expenses'[p] = Numbers
      /\ \A p \in PlanIds, k \in Numbers :
            expenses'[p][k] = IF p = q.plan /\ k = q.number THEN row ELSE expenses[p][k]
  BY <1>2, <1>3 DEF Inv, Typed
<1>6. \A p \in PlanIds, k \in Numbers : expenses'[p][k] = NoRow \/ HasRow(p, k)'
  BY <1>4, <1>5 DEF Inv, Typed, HasRow
<1>7. \A p \in PlanIds, k \in Numbers :
         Exists(p) /\ plans[p].status = "SETTLED" /\ plans[p].settlement = k
             => expenses'[p][k] = expenses[p][k]
  BY <1>2, <1>5, SettlementHasRow, RowsAssumption
<1>8. QED
  BY <1>2, <1>5, <1>6, <1>7, ExpensesStep

LEMMA RegisterPendingKeeps ==
  ASSUME Inv, UNCHANGED scope, NEW c \in Clients, RegisterPending(c)
  PROVE  Inv'
<1>1. PICK items : items = requests[c].items
  OBVIOUS
<1> DEFINE new(p, k) == Expense(p, k, items[p][k].amount, items[p][k].month, plans[p].category)
<1>2. /\ \A p \in PlanIds, k \in Numbers : k \in DOMAIN items[p] =>
            Exists(p) /\ expenses[p][k] = NoRow
      /\ expenses' = [p \in PlanIds |-> [k \in Numbers |->
                        IF k \in DOMAIN items[p] THEN new(p, k) ELSE expenses[p][k]]]
      /\ Answer(c) /\ UNCHANGED <<plans, purchases>>
  BY <1>1 DEF RegisterPending
<1>3. \A p \in PlanIds, k \in Numbers :
         /\ DOMAIN new(p, k) = {"version", "amount", "month", "category"}
         /\ new(p, k).version \in Versions
  BY ExpenseIsRow
<1> HIDE DEF new
<1>4. /\ DOMAIN expenses' = PlanIds
      /\ \A p \in PlanIds : DOMAIN expenses'[p] = Numbers
      /\ \A p \in PlanIds, k \in Numbers :
            expenses'[p][k] = IF k \in DOMAIN items[p] THEN new(p, k) ELSE expenses[p][k]
  BY <1>2
<1>5. \A p \in PlanIds, k \in Numbers : expenses'[p][k] = NoRow \/ HasRow(p, k)'
  BY <1>3, <1>4 DEF Inv, Typed, HasRow
<1>6. \A p \in PlanIds, k \in Numbers :
         Exists(p) /\ plans[p].status = "SETTLED" /\ plans[p].settlement = k
             => expenses'[p][k] = expenses[p][k]
  BY <1>2, <1>4, SettlementHasRow, RowsAssumption
<1>7. QED
  BY <1>2, <1>4, <1>5, <1>6, ExpensesStep

LEMMA UnrecognizeKeeps ==
  ASSUME Inv, UNCHANGED scope, NEW c \in Clients, Unrecognize(c)
  PROVE  Inv'
<1>1. PICK q : q = requests[c]
  OBVIOUS
<1>2. /\ q.plan \in PlanIds /\ q.number \in Numbers
      /\ SparesSettlement(q)
      /\ Holds(q.plan, q.number, q.version)
      /\ expenses' = [expenses EXCEPT ![q.plan][q.number] = NoRow]
      /\ Answer(c) /\ UNCHANGED <<plans, purchases>>
  BY <1>1 DEF Unrecognize, Writes, Inv, FitsPlans, SparesSettlement
<1>3. /\ DOMAIN expenses' = PlanIds
      /\ \A p \in PlanIds : DOMAIN expenses'[p] = Numbers
      /\ \A p \in PlanIds, k \in Numbers :
            expenses'[p][k] = IF p = q.plan /\ k = q.number THEN NoRow ELSE expenses[p][k]
  BY <1>2 DEF Inv, Typed
<1>4. \A p \in PlanIds, k \in Numbers : expenses'[p][k] = NoRow \/ HasRow(p, k)'
  BY <1>3 DEF Inv, Typed, HasRow
<1>5. \A p \in PlanIds, k \in Numbers :
         Exists(p) /\ plans[p].status = "SETTLED" /\ plans[p].settlement = k
             => expenses'[p][k] = expenses[p][k]
  BY <1>2, <1>3 DEF SparesSettlement, Holds
<1>6. QED
  BY <1>2, <1>3, <1>4, <1>5, ExpensesStep

\* Settle and unsettle: the status and the settlement of one plan, and at most
\* the expense of one of its installments.
LEMMA SettlementStep ==
  ASSUME Inv, UNCHANGED <<purchases, scope>>, NEW c \in Clients, Answer(c),
         NEW p \in PlanIds, Exists(p),
         NEW status \in {"ACTIVE", "SETTLED"}, NEW settlement \in Numbers \union {Null},
         plans' = [plans EXCEPT ![p].status = status, ![p].settlement = settlement],
         DOMAIN expenses' = PlanIds,
         \A o \in PlanIds : DOMAIN expenses'[o] = Numbers,
         \A o \in PlanIds, k \in Numbers : expenses'[o][k] = NoRow \/ HasRow(o, k)',
         \A o \in PlanIds : o # p => expenses'[o] = expenses[o],
         status = "SETTLED" /\ settlement # Null =>
            /\ HasRow(p, settlement)'
            /\ \A d \in Clients :
                  ~ Remembers(d, p, settlement, expenses'[p][settlement].version)
  PROVE  Inv'
<1> DEFINE to == [plans[p] EXCEPT !.status = status, !.settlement = settlement]
<1>1. plans[p] \in Plan
  BY PlansExist DEF Inv
<1>2. /\ to.status = status /\ to.settlement = settlement /\ to.kind = plans[p].kind
      /\ to.principal = plans[p].principal /\ to.count = plans[p].count
      /\ to.start = plans[p].start /\ to.billed = plans[p].billed
      /\ to.recognizing = plans[p].recognizing /\ to.category = plans[p].category
  BY <1>1 DEF Plan
<1>3. to \in Plan
  BY <1>1 DEF Plan
<1>4. plans' = [plans EXCEPT ![p] = to]
  BY <1>1 DEF Inv, Typed
<1> HIDE DEF to
<1>5. plans'[p] = to /\ \A o \in PlanIds : o # p => plans'[o] = plans[o]
  BY <1>4 DEF Inv, Typed
<1>6. \A o \in PlanIds : Exists(o)' <=> Exists(o)
  BY <1>3, <1>5, RowsAssumption DEF Exists
<1>7. Typed'
  <2>1. plans' \in [PlanIds -> Plan \union {NotCreated, Gone}]
    BY <1>3, <1>4 DEF Inv, Typed
  <2>2. DOMAIN requests' = Clients
    BY DEF Inv, Typed, Answer
  <2>3. QED
    BY <2>1, <2>2 DEF Inv, Typed
<1>8. PlansStayValid'
  <2>1. Valid(to) <=> Valid(plans[p])
    BY <1>2 DEF Valid
  <2>2. Purchase(to) = Purchase(plans[p])
    BY <1>2 DEF Purchase
  <2>3. /\ Valid(plans[p])
        /\ purchases[p] = IF plans[p].kind = "PURCHASE" THEN Purchase(plans[p]) ELSE Null
    BY DEF Inv, PlansStayValid
  <2>4. ASSUME NEW o \in PlanIds
        PROVE  /\ Exists(o)' => Valid(plans'[o])
               /\ purchases[o] = IF Exists(o)' /\ plans'[o].kind = "PURCHASE"
                                 THEN Purchase(plans'[o]) ELSE Null
    <3>1. CASE o = p
      BY <1>2, <1>5, <1>6, <2>1, <2>2, <2>3, <3>1
    <3>2. CASE o # p
      BY <1>5, <1>6, <3>2 DEF Inv, PlansStayValid
    <3>3. QED
      BY <3>1, <3>2
  <2>5. QED
    BY <2>4 DEF PlansStayValid, Valid, Purchase
<1>9. SettlementIsRecorded'
  <2> SUFFICES ASSUME NEW o \in PlanIds, Exists(o)', plans'[o].status = "SETTLED",
                      plans'[o].settlement # Null
               PROVE  expenses'[o][plans'[o].settlement] # NoRow
    BY DEF SettlementIsRecorded
  <2>1. CASE o # p
    BY <1>5, <1>6, <2>1 DEF Inv, SettlementIsRecorded
  <2>2. CASE o = p
    BY <1>2, <1>5, <2>2, VersionsAssumption DEF HasRow
  <2>3. QED
    BY <2>1, <2>2
<1>10. \A d \in Clients : Writes(d, "unrecognize") => SparesSettlement(requests[d])'
                                                      \/ requests'[d] = Idle
  <2> SUFFICES ASSUME NEW d \in Clients, Writes(d, "unrecognize"), requests'[d] # Idle
               PROVE  SparesSettlement(requests[d])'
    OBVIOUS
  <2>1. PICK r : r = requests[d]
    OBVIOUS
  <2>2. requests'[d] = r /\ SparesSettlement(r) /\ r # Idle /\ r.op = "unrecognize"
    BY <2>1 DEF Inv, Typed, Answer, Writes, FitsPlans
  <2>3. CASE r.plan # p
    <3>1. SparesSettlement(r)'
      BY <1>5, <1>6, <2>2, <2>3 DEF SparesSettlement
    <3>2. QED
      BY <2>2, <3>1
  <2>4. CASE r.plan = p
    <3>1. settlement = r.number /\ status = "SETTLED"
             => expenses'[p][r.number].version # r.version
      BY <2>1, <2>2, <2>4, RowsAssumption DEF Remembers, SparesSettlement
    <3>2. SparesSettlement(r)'
      BY <1>2, <1>5, <2>2, <2>4, <3>1 DEF SparesSettlement
    <3>3. QED
      BY <2>2, <3>2
  <2>5. QED
    BY <2>3, <2>4
<1>11. \A o \in PlanIds : plans[o] # NotCreated =>
          /\ plans'[o] # NotCreated
          /\ Exists(o)' => Exists(o) /\ plans'[o].kind = plans[o].kind
  <2>1. to # NotCreated
    BY <1>3, RowsAssumption
  <2>2. \A o \in PlanIds : plans'[o].kind = plans[o].kind
    BY <1>2, <1>5
  <2>3. \A o \in PlanIds : plans[o] # NotCreated => plans'[o] # NotCreated
    BY <1>5, <2>1
  <2>4. QED
    BY <1>6, <2>2, <2>3, Zenon
<1>12. \A d \in Clients : requests'[d] # Idle => FitsPlans(requests[d])'
  BY <1>10, <1>11, WriteKeepsRequests
<1>13. QED
  BY <1>7, <1>8, <1>9, <1>12 DEF Inv

LEMMA SettleKeeps ==
  ASSUME Inv, UNCHANGED scope, NEW c \in Clients, Settle(c)
  PROVE  Inv'
<1>1. PICK q : q = requests[c]
  OBVIOUS
<1>2. /\ q.plan \in PlanIds /\ q.number \in Numbers \union {Null}
      /\ Exists(q.plan)
      /\ plans' = [plans EXCEPT ![q.plan].status = "SETTLED", ![q.plan].settlement = q.number]
      /\ expenses' = IF q.number = Null THEN expenses
                     ELSE [expenses EXCEPT ![q.plan][q.number] =
                             Expense(q.plan, q.number, q.amount, q.month, q.category)]
      /\ Answer(c) /\ UNCHANGED purchases
  BY <1>1 DEF Settle, Writes, Inv, FitsPlans, SettlesOne
<1>3. CASE q.number = Null
  <2>1. expenses' = expenses
    BY <1>2, <1>3
  <2>2. /\ DOMAIN expenses' = PlanIds
        /\ \A o \in PlanIds : DOMAIN expenses'[o] = Numbers
        /\ \A o \in PlanIds, k \in Numbers : expenses'[o][k] = NoRow \/ HasRow(o, k)'
    BY <2>1 DEF Inv, Typed, HasRow
  <2>3. QED
    BY <1>2, <1>3, <2>1, <2>2, SettlementStep
<1>4. CASE q.number # Null
  <2>1. PICK row : row = Expense(q.plan, q.number, q.amount, q.month, q.category)
    OBVIOUS
  <2>2. q.number \in Numbers
    BY <1>2, <1>4
  <2>3. /\ DOMAIN row = {"version", "amount", "month", "category"} /\ row.version \in Versions
        /\ \A d \in Clients : ~ Remembers(d, q.plan, q.number, row.version)
    BY <1>2, <2>1, <2>2, ExpenseIsRow, FreshIsFresh
  <2>4. /\ DOMAIN expenses' = PlanIds
        /\ \A p \in PlanIds : DOMAIN expenses'[p] = Numbers
        /\ \A p \in PlanIds, k \in Numbers :
              expenses'[p][k] = IF p = q.plan /\ k = q.number THEN row ELSE expenses[p][k]
        /\ \A p \in PlanIds : p # q.plan => expenses'[p] = expenses[p]
    BY <1>2, <1>4, <2>1, <2>2 DEF Inv, Typed
  <2>5. \A p \in PlanIds, k \in Numbers : expenses'[p][k] = NoRow \/ HasRow(p, k)'
    BY <2>3, <2>4 DEF Inv, Typed, HasRow
  <2>6. HasRow(q.plan, q.number)' /\ expenses'[q.plan][q.number] = row
    BY <1>2, <2>2, <2>3, <2>4 DEF HasRow
  <2>7. QED
    BY <1>2, <2>3, <2>4, <2>5, <2>6, SettlementStep
<1>5. QED
  BY <1>3, <1>4

LEMMA UnsettleKeeps ==
  ASSUME Inv, UNCHANGED scope, NEW c \in Clients, Unsettle(c)
  PROVE  Inv'
<1>1. PICK q : q = requests[c]
  OBVIOUS
<1>2. /\ q.plan \in PlanIds /\ Exists(q.plan)
      /\ plans' = [plans EXCEPT ![q.plan].status = "ACTIVE", ![q.plan].settlement = Null]
      /\ expenses' = IF q.number = Null THEN expenses
                     ELSE [expenses EXCEPT ![q.plan][q.number] = NoRow]
      /\ Answer(c) /\ UNCHANGED purchases
  BY <1>1 DEF Unsettle, Writes, Inv, FitsPlans
<1>3. /\ DOMAIN expenses' = PlanIds
      /\ \A p \in PlanIds : DOMAIN expenses'[p] = Numbers
      /\ \A p \in PlanIds, k \in Numbers :
            expenses'[p][k] = NoRow \/ expenses'[p][k] = expenses[p][k]
      /\ \A p \in PlanIds : p # q.plan => expenses'[p] = expenses[p]
  BY <1>2 DEF Inv, Typed
<1>4. \A p \in PlanIds, k \in Numbers : expenses'[p][k] = NoRow \/ HasRow(p, k)'
  BY <1>3 DEF Inv, Typed, HasRow
<1>5. QED
  BY <1>2, <1>3, <1>4, SettlementStep

LEMMA RemoveKeeps ==
  ASSUME Inv, UNCHANGED scope, NEW c \in Clients, Remove(c)
  PROVE  Inv'
<1>1. PICK p \in PlanIds :
         /\ Exists(p) /\ Answer(c)
         /\ plans' = [plans EXCEPT ![p] = Gone]
         /\ purchases' = [purchases EXCEPT ![p] = Null]
         /\ expenses' = [expenses EXCEPT ![p] = [k \in Numbers |-> NoRow]]
  BY DEF Remove, Writes, Inv, FitsPlans
<1>2. /\ plans'[p] = Gone /\ purchases'[p] = Null
      /\ \A k \in Numbers : expenses'[p][k] = NoRow
      /\ \A o \in PlanIds : o # p => /\ plans'[o] = plans[o] /\ purchases'[o] = purchases[o]
                                     /\ expenses'[o] = expenses[o]
  BY <1>1 DEF Inv, Typed
<1>3. ~ Exists(p)' /\ \A o \in PlanIds : o # p => (Exists(o)' <=> Exists(o))
  BY <1>2 DEF Exists
<1>4. Typed'
  <2>1. \A o \in PlanIds : DOMAIN expenses'[o] = Numbers
    BY <1>1 DEF Inv, Typed
  <2>2. \A o \in PlanIds, k \in Numbers : expenses'[o][k] = NoRow \/ HasRow(o, k)'
    BY <1>2 DEF Inv, Typed, HasRow
  <2>3. QED
    BY <1>1, <2>1, <2>2 DEF Inv, Typed, Answer
<1>5. PlansStayValid'
  BY <1>2, <1>3 DEF Inv, PlansStayValid
<1>6. SettlementIsRecorded'
  BY <1>2, <1>3 DEF Inv, SettlementIsRecorded
<1>7. \A d \in Clients : Writes(d, "unrecognize") => SparesSettlement(requests[d])'
                                                     \/ requests'[d] = Idle
  <2> SUFFICES ASSUME NEW d \in Clients, Writes(d, "unrecognize"), requests'[d] # Idle
               PROVE  SparesSettlement(requests[d])'
    OBVIOUS
  <2>1. PICK r : r = requests[d]
    OBVIOUS
  <2>2. requests'[d] = r /\ SparesSettlement(r)
    BY <1>1, <2>1 DEF Inv, Typed, Answer, Writes, FitsPlans
  <2>3. SparesSettlement(r)'
    BY <1>2, <1>3, <2>2 DEF SparesSettlement
  <2>4. QED
    BY <2>2, <2>3
<1>8. \A o \in PlanIds : plans[o] # NotCreated =>
         /\ plans'[o] # NotCreated
         /\ Exists(o)' => Exists(o) /\ plans'[o].kind = plans[o].kind
  BY <1>2, <1>3, RowsAssumption
<1>9. \A d \in Clients : requests'[d] # Idle => FitsPlans(requests[d])'
  BY <1>1, <1>7, <1>8, WriteKeepsRequests
<1>10. QED
  BY <1>4, <1>5, <1>6, <1>9 DEF Inv

LEMMA CreateKeeps ==
  ASSUME Inv, UNCHANGED scope, NEW p \in PlanIds, NEW body \in Plans, Create(p, body)
  PROVE  Inv'
<1>1. /\ body \in Plan /\ body.status = "ACTIVE" /\ Valid(body)
      /\ plans[p] = NotCreated
      /\ UNCHANGED <<expenses, requests>>
  BY PlansAssumption DEF Create
<1>2. /\ plans'[p] = body
      /\ purchases'[p] = IF body.kind = "PURCHASE" THEN Purchase(body) ELSE Null
      /\ \A o \in PlanIds : o # p => plans'[o] = plans[o] /\ purchases'[o] = purchases[o]
  BY DEF Create, Inv, Typed
<1>3. Exists(p)' /\ ~ Exists(p) /\ \A o \in PlanIds : o # p => (Exists(o)' <=> Exists(o))
  BY <1>1, <1>2, RowsAssumption DEF Exists
<1>4. Typed'
  BY <1>1 DEF Create, Inv, Typed, HasRow
<1>5. PlansStayValid'
  <2> SUFFICES ASSUME NEW o \in PlanIds
               PROVE  /\ Exists(o)' => Valid(plans'[o])
                      /\ purchases'[o] = IF Exists(o)' /\ plans'[o].kind = "PURCHASE"
                                         THEN Purchase(plans'[o]) ELSE Null
    BY DEF PlansStayValid, Valid, Purchase
  <2>1. CASE o = p
    BY <1>1, <1>2, <1>3, <2>1
  <2>2. CASE o # p
    BY <1>2, <1>3, <2>2 DEF Inv, PlansStayValid
  <2>3. QED
    BY <2>1, <2>2
<1>6. SettlementIsRecorded'
  BY <1>1, <1>2, <1>3 DEF Inv, SettlementIsRecorded
<1>7. \A d \in Clients : requests'[d] # Idle => FitsPlans(requests[d])'
  <2> SUFFICES ASSUME NEW d \in Clients, requests'[d] # Idle
               PROVE  FitsPlans(requests[d])'
    OBVIOUS
  <2>1. PICK r : r = requests[d]
    OBVIOUS
  <2>2. requests'[d] = r /\ FitsPlans(r)
    BY <1>1, <2>1 DEF Inv
  <2>3. r.op = "update" => UpdateIsValid(r)'
    BY <1>1, <1>2, <1>3, <2>2 DEF FitsPlans, UpdateIsValid
  <2>4. r.op = "unrecognize" => SparesSettlement(r)'
    BY <1>1, <1>2, <1>3, <2>2 DEF FitsPlans, SparesSettlement
  <2>5. FitsPlans(r)'
    BY <2>2, <2>3, <2>4 DEF FitsPlans, SettlesOne
  <2>6. QED
    BY <2>2, <2>5
<1>8. QED
  BY <1>4, <1>5, <1>6, <1>7 DEF Inv

\* A month passes, a request fails, or nothing happens.
LEMMA NothingWritten ==
  ASSUME Inv, UNCHANGED <<plans, purchases, expenses, scope>>,
         requests' = requests \/ \E c \in Clients : Answer(c)
  PROVE  Inv'
<1>1. Typed' /\ PlansStayValid' /\ SettlementIsRecorded'
  BY DEF Inv, Typed, HasRow, PlansStayValid, SettlementIsRecorded, Exists, Answer
<1>2. \A d \in Clients : requests'[d] # Idle => FitsPlans(requests[d])'
  <2> SUFFICES ASSUME NEW d \in Clients, requests'[d] # Idle
               PROVE  FitsPlans(requests[d])'
    OBVIOUS
  <2>1. PICK r : r = requests[d]
    OBVIOUS
  <2>2. requests'[d] = r /\ FitsPlans(r)
    BY <2>1 DEF Inv, Typed, Answer
  <2>3. FitsPlans(r)'
    BY <2>2 DEF FitsPlans, UpdateIsValid, SparesSettlement, SettlesOne, Exists
  <2>4. QED
    BY <2>2, <2>3
<1>3. QED
  BY <1>1, <1>2 DEF Inv

-----------------------------------------------------------------------------
(* Every step *)

LEMMA InitHolds == Init => Inv
<1> SUFFICES ASSUME Init PROVE Inv
  OBVIOUS
<1>1. Typed
  BY DEF Init, Typed
<1>2. \A p \in PlanIds : ~ Exists(p) /\ purchases[p] = Null
  BY DEF Init, Exists
<1>3. QED
  BY <1>1, <1>2 DEF Init, Inv, PlansStayValid, SettlementIsRecorded

LEMMA StepKeeps == Inv /\ [Next]_vars => Inv'
<1> SUFFICES ASSUME Inv, [Next]_vars PROVE Inv'
  OBVIOUS
<1>1. CASE UNCHANGED vars
  BY <1>1, NothingWritten DEF vars
<1>2. ASSUME Next, Cut
      PROVE  Inv'
  BY <1>2, NothingWritten DEF Next, Cut
<1>3. ASSUME Next, NEW c \in Clients, Fail(c)
      PROVE  Inv'
  BY <1>3, NothingWritten DEF Next, Fail
<1>4. ASSUME Next
      PROVE  /\ scope \in Scopes /\ UNCHANGED scope
             /\ scope.clients \subseteq Clients /\ scope.plans \subseteq Plans
             /\ scope.patches \subseteq Patches
  BY <1>4, ScopesAssumption DEF Next, Inv, Typed
<1>5. ASSUME Next, NEW p \in PlanIds, NEW body \in scope.plans, Create(p, body)
      PROVE  Inv'
  BY <1>4, <1>5, CreateKeeps
<1>6. ASSUME Next, NEW c \in scope.clients, NEW p \in PlanIds,
             \/ \E patch \in scope.patches : BeginUpdate(c, p, patch)
             \/ BeginRemove(c, p)
             \/ \E k \in Numbers : BeginRecognize(c, p, k) \/ BeginUnrecognize(c, p, k)
             \/ \E month \in Months : BeginSettle(c, p, month)
             \/ BeginUnsettle(c, p)
      PROVE  Inv'
  BY <1>4, <1>6, BeginsKeep
<1>7. ASSUME Next, NEW c \in scope.clients, NEW period \in scope.periods,
             BeginRegisterPending(c, period)
      PROVE  Inv'
  BY <1>4, <1>7, BeginRegisterPendingKeeps
<1>8. ASSUME Next, NEW c \in Clients,
             \/ Update(c) \/ Remove(c) \/ RegisterPending(c) \/ Recognize(c)
             \/ Unrecognize(c) \/ Settle(c) \/ Unsettle(c)
      PROVE  Inv'
  BY <1>4, <1>8, UpdateKeeps, RemoveKeeps, RegisterPendingKeeps, RecognizeKeeps,
     UnrecognizeKeeps, SettleKeeps, UnsettleKeeps
<1>9. QED
  BY <1>1, <1>2, <1>3, <1>5, <1>6, <1>7, <1>8 DEF Next

\* However the requests of however many clients interleave, every plan is one
\* that create and update accept, with the purchase that goes with it.
THEOREM PlansAlwaysStayValid == Spec => []PlansStayValid
<1>1. Inv => PlansStayValid
  BY DEF Inv
<1>2. QED
  BY <1>1, InitHolds, StepKeeps, PTL DEF Spec

\* However the requests interleave, a settlement in force has its expense: one
\* that was read before the plan was settled is deleted by an id that is gone.
THEOREM SettlementIsAlwaysRecorded == Spec => []SettlementIsRecorded
<1>1. Inv => SettlementIsRecorded
  BY DEF Inv
<1>2. QED
  BY <1>1, InitHolds, StepKeeps, PTL DEF Spec
-----------------------------------------------------------------------------
(* What installments amount to *)

\* Numbers of installments are numbers, and there are finitely many.
LEMMA NumbersAreFinite == IsFiniteSet(Numbers) /\ \A k \in Numbers : k \in Nat /\ k >= 1
<1>1. 1 \in Int /\ MaxCount \in Int
  BY CountAssumption
<1>2. IsFiniteSet(1 .. MaxCount)
  BY <1>1, FS_Interval
<1>3. QED
  BY <1>1, <1>2 DEF Numbers

\* The terms of a plan.
LEMMA PlanTerms ==
  ASSUME NEW plan \in Plan
  PROVE  /\ plan.principal \in Nat /\ plan.count \in Nat \ {0} /\ plan.first \in Nat
         /\ plan.billed \in Nat /\ plan.recognizing \in BOOLEAN
         /\ plan.status \in {"ACTIVE", "SETTLED"} /\ plan.settlement \in Numbers \union {Null}
         /\ Installments(plan) \subseteq Numbers /\ IsFiniteSet(Installments(plan))
         /\ Installments(plan) = 1 .. plan.count
<1>1. plan.count \in Numbers /\ plan.billed \in 0 .. MaxCount
  BY DEF Plan
<1>2. plan.count \in Nat \ {0} /\ plan.billed \in Nat
  BY <1>1, CountAssumption DEF Numbers
<1>3. Installments(plan) \subseteq Numbers
  BY <1>1, CountAssumption DEF Numbers, Installments
<1>4. QED
  BY <1>2, <1>3, NumbersAreFinite, FS_Subset DEF Plan, Installments

\* What one installment is worth is an integer, and not below zero unless the
\* last is.
LEMMA PrincipalIsInt ==
  ASSUME NEW plan \in Plan, NEW k \in Numbers
  PROVE  /\ InstallmentAmount(plan.principal, plan.count) \in Nat
         /\ PrincipalOf(plan, k) \in Int
         /\ PrincipalOf(plan, plan.count) >= 0 => PrincipalOf(plan, k) \in Nat
<1> DEFINE amount == InstallmentAmount(plan.principal, plan.count)
<1>1. plan.principal \in Nat /\ plan.count \in Nat \ {0} /\ k \in Int
  BY PlanTerms, NumbersAreFinite
<1>2. amount \in Nat
  <2>1. 2 * plan.principal + plan.count \in Nat /\ 2 * plan.count \in Nat \ {0}
    BY <1>1
  <2>2. \A a \in Nat, b \in Nat \ {0} : a \div b \in Nat
    OBVIOUS
  <2>3. QED
    BY <2>1, <2>2 DEF InstallmentAmount
<1> HIDE DEF amount
<1>3. PrincipalOf(plan, k) = IF k = plan.count THEN plan.principal - (k - 1) * amount ELSE amount
  BY DEF PrincipalOf, PrincipalBefore, amount
<1>4. plan.principal - (k - 1) * amount \in Int
  BY <1>1, <1>2
<1>5. PrincipalOf(plan, k) \in Int
  BY <1>2, <1>3, <1>4
<1>6. ASSUME PrincipalOf(plan, plan.count) >= 0
      PROVE  PrincipalOf(plan, k) \in Nat
  BY <1>2, <1>3, <1>5, <1>6
<1>7. QED
  BY <1>2, <1>5, <1>6 DEF amount

\* A plan is worth what its principal, the number of installments and those
\* billed before say.
SameTerms(a, b) ==
    /\ a.principal = b.principal /\ a.count = b.count /\ a.first = b.first
    /\ a.billed = b.billed /\ a.recognizing = b.recognizing

LEMMA SameWorth ==
  ASSUME NEW a, NEW b, SameTerms(a, b)
  PROVE  /\ \A k : PrincipalOf(a, k) = PrincipalOf(b, k) /\ (Tracked(a, k) <=> Tracked(b, k))
         /\ \A ks : PrincipalOfAll(a, ks) = PrincipalOfAll(b, ks)
         /\ Installments(a) = Installments(b)
         /\ TrackedPrincipal(a) = TrackedPrincipal(b)
<1>1. \A k : PrincipalOf(a, k) = PrincipalOf(b, k) /\ (Tracked(a, k) <=> Tracked(b, k))
  BY DEF SameTerms, PrincipalOf, PrincipalBefore, Tracked
<1>2. \A ks : PrincipalOfAll(a, ks) = PrincipalOfAll(b, ks)
  <2> SUFFICES ASSUME NEW ks
               PROVE  PrincipalOfAll(a, ks) = PrincipalOfAll(b, ks)
    OBVIOUS
  <2>1. [k \in ks |-> PrincipalOf(a, k)] = [k \in ks |-> PrincipalOf(b, k)]
    BY <1>1
  <2>2. QED
    BY <2>1 DEF PrincipalOfAll
<1>3. Installments(a) = Installments(b)
  BY DEF SameTerms, Installments
<1>4. {k \in Installments(a) : Tracked(a, k)} = {k \in Installments(b) : Tracked(b, k)}
  BY <1>1, <1>3
<1>5. QED
  BY <1>1, <1>2, <1>3, <1>4 DEF TrackedPrincipal

Worth(plan) == [k \in Numbers |-> PrincipalOf(plan, k)]

\* The principal of some installments is a sum of a part of one table.
LEMMA PrincipalIsSum ==
  ASSUME NEW plan, NEW ks \in SUBSET Numbers
  PROVE  PrincipalOfAll(plan, ks) = SumFunctionOnSet(Worth(plan), ks) /\ IsFiniteSet(ks)
<1> DEFINE f == [k \in ks |-> PrincipalOf(plan, k)]
<1>1. IsFiniteSet(ks)
  BY NumbersAreFinite, FS_Subset
<1>2. \A k \in ks : f[k] = Worth(plan)[k]
  BY DEF Worth
<1>3. SumFunctionOnSet(f, ks) = SumFunctionOnSet(Worth(plan), ks)
  BY <1>1, <1>2, SameSum
<1>4. QED
  BY <1>1, <1>3, SumOfTable DEF PrincipalOfAll

LEMMA WorthIsInt ==
  ASSUME NEW plan \in Plan
  PROVE  /\ \A k \in Numbers : Worth(plan)[k] \in Int
         /\ PrincipalOf(plan, plan.count) >= 0 => \A k \in Numbers : Worth(plan)[k] \in Nat
BY PrincipalIsInt DEF Worth

\* The principal of two sets of installments that share none.
LEMMA PrincipalOfBoth ==
  ASSUME NEW plan \in Plan, NEW ks \in SUBSET Numbers, NEW js \in SUBSET Numbers,
         ks \intersect js = {}
  PROVE  /\ PrincipalOfAll(plan, ks \union js)
               = PrincipalOfAll(plan, ks) + PrincipalOfAll(plan, js)
         /\ PrincipalOfAll(plan, ks) \in Int /\ PrincipalOfAll(plan, js) \in Int
<1>1. ks \union js \in SUBSET Numbers /\ \A x \in ks \union js : Worth(plan)[x] \in Int
  BY WorthIsInt
<1>2. IsFiniteSet(ks) /\ IsFiniteSet(js)
  BY PrincipalIsSum
<1>3. SumFunctionOnSet(Worth(plan), ks \union js)
         = SumFunctionOnSet(Worth(plan), ks) + SumFunctionOnSet(Worth(plan), js)
  BY <1>1, <1>2, SumOfBoth
<1>4. /\ SumFunctionOnSet(Worth(plan), ks) \in Int
      /\ SumFunctionOnSet(Worth(plan), js) \in Int
  BY <1>1, <1>2, SumIsInt
<1>5. QED
  BY <1>1, <1>3, <1>4, PrincipalIsSum

\* Part of the installments is worth no more than all, if none is below zero.
LEMMA PrincipalOfPart ==
  ASSUME NEW plan \in Plan, PrincipalOf(plan, plan.count) >= 0,
         NEW js \in SUBSET Numbers, NEW ks \in SUBSET js
  PROVE  PrincipalOfAll(plan, ks) <= PrincipalOfAll(plan, js)
<1>1. IsFiniteSet(js) /\ \A x \in js : Worth(plan)[x] \in Nat
  BY WorthIsInt, PrincipalIsSum
<1>2. SumFunctionOnSet(Worth(plan), ks) <= SumFunctionOnSet(Worth(plan), js)
  BY <1>1, SumOfPart
<1>3. QED
  BY <1>2, PrincipalIsSum

\* Installments that all are worth the same.
LEMMA SumOfEqual ==
  ASSUME NEW f, NEW n \in Nat, NEW amount \in Int, \A k \in 1 .. n : f[k] = amount
  PROVE  SumFunctionOnSet(f, 1 .. n) = n * amount
<1> DEFINE Total(m) == SumFunctionOnSet(f, 1 .. m)
           Bad == {m \in 0 .. n : Total(m) # m * amount}
<1>1. ASSUME Bad # {}
      PROVE  FALSE
  <2>1. PICK m \in Bad : \A j \in Bad : ~ (<<j, m>> \in OpToRel(<, Nat))
    <3>1. Bad \in SUBSET Nat
      OBVIOUS
    <3> HIDE DEF Bad
    <3>2. QED
      BY <1>1, <3>1, NatLessThanWellFounded, WFMin
  <2>2. m \in Nat /\ m <= n /\ Total(m) # m * amount
    OBVIOUS
  <2>3. CASE m = 0
    <3>1. 1 .. m = {}
      BY <2>3
    <3>2. QED
      BY <2>2, <2>3, <3>1, SumOfNone
  <2>4. CASE m # 0
    <3>1. m - 1 \in Nat /\ m - 1 < m /\ m - 1 \in 0 .. n /\ m \in 1 .. m
      BY <2>2, <2>4
    <3>2. m - 1 \notin Bad
      <4>1. <<m - 1, m>> \in OpToRel(<, Nat)
        BY <2>2, <3>1 DEF OpToRel
      <4> HIDE DEF Bad
      <4>2. QED
        BY <2>1, <4>1
    <3>3. Total(m - 1) = (m - 1) * amount
      BY <3>1, <3>2
    <3>4. (1 .. m) \ {m} = 1 .. (m - 1)
      BY <3>1
    <3>5. IsFiniteSet(1 .. m)
      BY <2>2, FS_Interval
    <3>6. f[m] = amount /\ \A x \in 1 .. m : f[x] \in Int
      BY <2>2, <3>1
    <3>7. Total(m) = f[m] + Total(m - 1)
      BY <3>1, <3>4, <3>5, <3>6, SumTakesAny
    <3>8. amount + (m - 1) * amount = m * amount
      BY <2>2
    <3> HIDE DEF Total
    <3>9. QED
      BY <2>2, <3>3, <3>6, <3>7, <3>8
  <2>5. QED
    BY <2>3, <2>4
<1>2. n \notin Bad
  BY <1>1
<1>3. QED
  BY <1>2

\* All the installments together are worth the principal.
LEMMA InstallmentsSumToPrincipal ==
  ASSUME NEW plan \in Plan
  PROVE  PrincipalOfAll(plan, Installments(plan)) = plan.principal
<1> DEFINE n == plan.count
           amount == InstallmentAmount(plan.principal, n)
           f == Worth(plan)
<1>1. /\ plan.principal \in Nat /\ n \in Nat \ {0}
      /\ Installments(plan) \subseteq Numbers /\ IsFiniteSet(Installments(plan))
      /\ Installments(plan) = 1 .. n
  BY PlanTerms
<1>2. amount \in Nat
  BY <1>1, PrincipalIsInt, NumbersAreFinite
<1>3. \A k \in 1 .. n : f[k] = IF k = n THEN plan.principal - (n - 1) * amount ELSE amount
  BY <1>1 DEF Worth, PrincipalOf, PrincipalBefore
<1> HIDE DEF f, amount
<1>4. n \in 1 .. n /\ (1 .. n) \ {n} = 1 .. (n - 1) /\ n - 1 \in Nat
  BY <1>1
<1>5. \A k \in 1 .. n : f[k] \in Int
  BY <1>1, WorthIsInt DEF f
<1>6. SumFunctionOnSet(f, 1 .. n) = f[n] + SumFunctionOnSet(f, 1 .. (n - 1))
  BY <1>1, <1>4, <1>5, SumTakesAny
<1>7. SumFunctionOnSet(f, 1 .. (n - 1)) = (n - 1) * amount
  <2>1. \A k \in 1 .. (n - 1) : f[k] = amount
    BY <1>1, <1>3
  <2>2. QED
    BY <1>2, <1>4, <2>1, SumOfEqual
<1>8. f[n] = plan.principal - (n - 1) * amount /\ (n - 1) * amount \in Int
  BY <1>1, <1>2, <1>3, <1>4
<1>9. SumFunctionOnSet(f, 1 .. n) = plan.principal
  BY <1>1, <1>6, <1>7, <1>8
<1>10. QED
  BY <1>1, <1>9, PrincipalIsSum DEF f
-----------------------------------------------------------------------------
(* The expenses of a plan that is changed by one request at a time *)

TrackedOf(plan) == {k \in Installments(plan) : Tracked(plan, k)}

RowsOf(rows) == {k \in Numbers : rows[k] # NoRow}

\* An expense that recognizes installment k.
Pays(plan, k, amount, month) ==
    /\ plan.recognizing /\ k \in TrackedOf(plan) /\ month \in Nat
    /\ amount = PrincipalOf(plan, k)

\* The expenses are no more than what is tracked.
Bounded(plan, rows) ==
    PrincipalOf(plan, plan.count) >= 0 => AmountOfAll(rows, RowsOf(rows)) <= TrackedPrincipal(plan)

\* Each expense recognizes an installment; only that of the settlement is of
\* another amount.
RowsFit(plan, rows) ==
    /\ \A k \in RowsOf(rows) :
          /\ plan.recognizing /\ k \in TrackedOf(plan)
          /\ rows[k].month \in Nat /\ rows[k].amount \in Int
          /\ k # plan.settlement => rows[k].amount = PrincipalOf(plan, k)
    /\ plan.status = "ACTIVE" => plan.settlement = Null
    /\ Bounded(plan, rows)

\* What a settlement recognizes.
Left(plan, rows) ==
    IF plan.recognizing THEN {k \in TrackedOf(plan) : rows[k] = NoRow} ELSE {}

LEMMA TrackedAreNumbers ==
  ASSUME NEW plan \in Plan
  PROVE  TrackedOf(plan) \in SUBSET Numbers /\ TrackedPrincipal(plan) = PrincipalOfAll(plan, TrackedOf(plan))
BY PlanTerms DEF TrackedOf, TrackedPrincipal

\* Expenses of what installments are worth amount to their principal.
LEMMA AmountsAreWorth ==
  ASSUME NEW plan, NEW rows, NEW ks, \A k \in ks : rows[k].amount = PrincipalOf(plan, k)
  PROVE  AmountOfAll(rows, ks) = PrincipalOfAll(plan, ks)
<1>1. [k \in ks |-> rows[k].amount] = [k \in ks |-> PrincipalOf(plan, k)]
  OBVIOUS
<1>2. QED
  BY <1>1 DEF AmountOfAll, PrincipalOfAll

\* The same amounts amount to the same.
LEMMA SameAmounts ==
  ASSUME NEW rows, NEW others, NEW ks, \A k \in ks : others[k].amount = rows[k].amount
  PROVE  AmountOfAll(others, ks) = AmountOfAll(rows, ks)
<1>1. [k \in ks |-> others[k].amount] = [k \in ks |-> rows[k].amount]
  OBVIOUS
<1>2. QED
  BY <1>1 DEF AmountOfAll

\* One of the expenses, and the others.
LEMMA AmountOfOne ==
  ASSUME NEW rows, NEW ks \in SUBSET Numbers, \A k \in ks : rows[k].amount \in Int, NEW j \in ks
  PROVE  /\ AmountOfAll(rows, ks) = rows[j].amount + AmountOfAll(rows, ks \ {j})
         /\ AmountOfAll(rows, ks \ {j}) \in Int
<1> DEFINE f == [k \in ks |-> rows[k].amount]
           rest == ks \ {j}
           g == [k \in rest |-> rows[k].amount]
<1>1. IsFiniteSet(ks) /\ IsFiniteSet(rest)
  BY NumbersAreFinite, FS_Subset
<1>2. SumFunctionOnSet(f, ks) = f[j] + SumFunctionOnSet(f, rest)
  <2>1. \A x \in ks : f[x] \in Int
    OBVIOUS
  <2> HIDE DEF f
  <2>2. QED
    BY <1>1, <2>1, SumTakesAny
<1>3. SumFunctionOnSet(f, rest) = SumFunctionOnSet(g, rest) /\ SumFunctionOnSet(g, rest) \in Int
  <2>1. \A x \in rest : f[x] = g[x] /\ g[x] \in Int
    OBVIOUS
  <2> HIDE DEF f, g, rest
  <2>2. QED
    BY <1>1, <2>1, SameSum, SumIsInt
<1>4. AmountOfAll(rows, ks) = SumFunctionOnSet(f, ks) /\ AmountOfAll(rows, rest) = SumFunctionOnSet(g, rest)
  BY SumOfTable DEF AmountOfAll
<1>5. QED
  BY <1>2, <1>3, <1>4

\* Expenses of what installments are worth are no more than what is tracked.
LEMMA PlainRowsBounded ==
  ASSUME NEW plan \in Plan, NEW rows,
         \A k \in RowsOf(rows) : k \in TrackedOf(plan) /\ rows[k].amount = PrincipalOf(plan, k)
  PROVE  Bounded(plan, rows)
<1>1. AmountOfAll(rows, RowsOf(rows)) = PrincipalOfAll(plan, RowsOf(rows))
  BY AmountsAreWorth
<1>2. RowsOf(rows) \in SUBSET TrackedOf(plan)
  OBVIOUS
<1>3. QED
  BY <1>1, <1>2, TrackedAreNumbers, PrincipalOfPart DEF Bounded

\* Installments recognized of an active plan.
LEMMA RowsAdded ==
  ASSUME NEW plan \in Plan, NEW rows, RowsFit(plan, rows), plan.status = "ACTIVE", NEW others,
         \A k \in Numbers : \/ others[k] = rows[k]
                            \/ Pays(plan, k, others[k].amount, others[k].month)
  PROVE  RowsFit(plan, others)
<1>1. plan.settlement = Null /\ \A k \in Numbers : k # plan.settlement
  BY RowsAssumption DEF RowsFit
<1>2. ASSUME NEW k \in RowsOf(others)
      PROVE  /\ plan.recognizing /\ k \in TrackedOf(plan)
             /\ others[k].month \in Nat /\ others[k].amount \in Int
             /\ others[k].amount = PrincipalOf(plan, k)
  <2>1. k \in Numbers /\ others[k] # NoRow
    BY DEF RowsOf
  <2>2. CASE others[k] = rows[k]
    <3>1. k \in RowsOf(rows)
      BY <2>1, <2>2 DEF RowsOf
    <3>2. QED
      BY <1>1, <2>1, <2>2, <3>1 DEF RowsFit
  <2>3. CASE Pays(plan, k, others[k].amount, others[k].month)
    BY <2>1, <2>3, PrincipalIsInt DEF Pays
  <2>4. QED
    BY <2>1, <2>2, <2>3
<1>3. Bounded(plan, others)
  BY <1>2, PlainRowsBounded
<1>4. QED
  BY <1>1, <1>2, <1>3 DEF RowsFit

\* An expense undone that is not that of the settlement.
LEMMA RowUndone ==
  ASSUME NEW plan \in Plan, NEW rows, RowsFit(plan, rows),
         NEW j \in RowsOf(rows), j # plan.settlement, NEW others,
         \A k \in Numbers : others[k] = IF k = j THEN NoRow ELSE rows[k]
  PROVE  RowsFit(plan, others)
<1>1. RowsOf(others) = RowsOf(rows) \ {j} /\ \A k \in RowsOf(others) : others[k] = rows[k]
  BY DEF RowsOf
<1>2. Bounded(plan, others)
  <2> SUFFICES ASSUME PrincipalOf(plan, plan.count) >= 0
               PROVE  AmountOfAll(others, RowsOf(others)) <= TrackedPrincipal(plan)
    BY DEF Bounded
  <2>1. AmountOfAll(rows, RowsOf(rows)) <= TrackedPrincipal(plan)
    BY DEF RowsFit, Bounded
  <2>2. RowsOf(rows) \in SUBSET Numbers /\ \A k \in RowsOf(rows) : rows[k].amount \in Int
    BY DEF RowsOf, RowsFit
  <2>3. /\ AmountOfAll(rows, RowsOf(rows)) = rows[j].amount + AmountOfAll(rows, RowsOf(rows) \ {j})
        /\ AmountOfAll(rows, RowsOf(rows) \ {j}) \in Int
    BY <2>2, AmountOfOne
  <2>4. rows[j].amount \in Nat
    BY <2>2, PrincipalIsInt DEF RowsFit
  <2>5. AmountOfAll(others, RowsOf(others)) = AmountOfAll(rows, RowsOf(rows) \ {j})
    BY <1>1, SameAmounts
  <2>6. TrackedPrincipal(plan) \in Int
    <3>1. TrackedOf(plan) \in SUBSET Numbers /\ {} \in SUBSET Numbers
      BY TrackedAreNumbers
    <3>2. QED
      BY <3>1, TrackedAreNumbers, PrincipalOfBoth
  <2>7. QED
    BY <2>1, <2>3, <2>4, <2>5, <2>6
<1>3. QED
  BY <1>1, <1>2 DEF RowsFit

\* The expense of a settlement undone with it.
LEMMA RowsUnsettled ==
  ASSUME NEW plan \in Plan, NEW rows, RowsFit(plan, rows),
         NEW to \in Plan, SameTerms(to, plan), to.status = "ACTIVE", to.settlement = Null, NEW others,
         \A k \in Numbers : others[k] = IF k = plan.settlement THEN NoRow ELSE rows[k]
  PROVE  RowsFit(to, others)
<1>1. ASSUME NEW k \in RowsOf(others)
      PROVE  /\ to.recognizing /\ k \in TrackedOf(to)
             /\ others[k].month \in Nat /\ others[k].amount \in Int
             /\ others[k].amount = PrincipalOf(to, k)
  <2>1. k \in RowsOf(rows) /\ others[k] = rows[k] /\ k # plan.settlement
    BY DEF RowsOf
  <2>2. QED
    BY <2>1, SameWorth DEF RowsFit, TrackedOf, SameTerms
<1>2. Bounded(to, others)
  BY <1>1, PlainRowsBounded
<1>3. QED
  BY <1>1, <1>2 DEF RowsFit

\* An edit of what is not a term of the plan.
LEMMA RowsEdited ==
  ASSUME NEW plan \in Plan, NEW rows, RowsFit(plan, rows),
         NEW to \in Plan, SameTerms(to, plan),
         to.status = plan.status, to.settlement = plan.settlement, NEW others,
         RowsOf(others) = RowsOf(rows),
         \A k \in RowsOf(rows) : others[k].amount = rows[k].amount /\ others[k].month = rows[k].month
  PROVE  RowsFit(to, others)
<1>1. TrackedOf(to) = TrackedOf(plan) /\ to.count = plan.count
  BY SameWorth DEF TrackedOf, SameTerms
<1>2. Bounded(to, others)
  <2>1. AmountOfAll(others, RowsOf(others)) = AmountOfAll(rows, RowsOf(rows))
    BY SameAmounts
  <2>2. TrackedPrincipal(to) = TrackedPrincipal(plan)
        /\ PrincipalOf(to, to.count) = PrincipalOf(plan, plan.count)
    BY <1>1, SameWorth
  <2>3. QED
    BY <2>1, <2>2 DEF RowsFit, Bounded
<1>3. QED
  BY <1>1, <1>2, SameWorth DEF RowsFit, SameTerms

\* A plan without expenses.
LEMMA NoRowsFit ==
  ASSUME NEW plan \in Plan, NEW rows, RowsOf(rows) = {},
         plan.status = "ACTIVE" => plan.settlement = Null
  PROVE  RowsFit(plan, rows)
<1>1. Bounded(plan, rows)
  BY PlainRowsBounded
<1>2. QED
  BY <1>1 DEF RowsFit

\* What is left of a plan in one expense, that of the first installment left.
LEMMA RowsSettled ==
  ASSUME NEW plan \in Plan, NEW rows, RowsFit(plan, rows), plan.status = "ACTIVE",
         NEW to \in Plan, SameTerms(to, plan), to.status = "SETTLED",
         to.settlement = IF Left(plan, rows) = {} THEN Null ELSE Min(Left(plan, rows)), NEW others,
         \A k \in Numbers : k # to.settlement => others[k] = rows[k],
         to.settlement # Null =>
            /\ others[to.settlement] # NoRow
            /\ others[to.settlement].amount = PrincipalOfAll(plan, Left(plan, rows))
            /\ others[to.settlement].month \in Nat
  PROVE  RowsFit(to, others)
<1> DEFINE left == Left(plan, rows)
           s == to.settlement
<1>1. plan.settlement = Null /\ \A k \in Numbers : k # plan.settlement
  BY RowsAssumption DEF RowsFit
<1>2. \A k \in RowsOf(rows) : /\ plan.recognizing /\ k \in TrackedOf(plan)
                              /\ rows[k].month \in Nat /\ rows[k].amount \in Int
                              /\ rows[k].amount = PrincipalOf(plan, k)
  BY <1>1 DEF RowsFit, RowsOf
<1>3. TrackedOf(to) = TrackedOf(plan) /\ to.recognizing = plan.recognizing /\ to.count = plan.count
  BY SameWorth DEF TrackedOf, SameTerms
<1>4. \A k \in RowsOf(others) : k # s => k \in RowsOf(rows) /\ others[k] = rows[k]
  BY DEF RowsOf
<1>5. TrackedOf(plan) \in SUBSET Numbers
  BY TrackedAreNumbers
<1>6. CASE left = {}
  <2>1. s = Null /\ \A k \in Numbers : k # s
    BY <1>6, RowsAssumption
  <2>2. \A k \in RowsOf(others) : /\ to.recognizing /\ k \in TrackedOf(to)
                                  /\ others[k].month \in Nat /\ others[k].amount \in Int
                                  /\ others[k].amount = PrincipalOf(to, k)
    BY <1>2, <1>3, <1>4, <2>1, SameWorth DEF RowsOf
  <2>3. Bounded(to, others)
    BY <2>2, PlainRowsBounded
  <2>4. QED
    BY <2>2, <2>3 DEF RowsFit
<1>7. CASE left # {}
  <2>1. plan.recognizing /\ left = {k \in TrackedOf(plan) : rows[k] = NoRow}
    BY <1>7 DEF Left
  <2>2. left \in SUBSET Numbers /\ left \in SUBSET Nat
    BY <1>5, <2>1, NumbersAreFinite
  <2>3. s \in left /\ s \in Numbers /\ s # Null
    BY <1>7, <2>2, MinIsMember, RowsAssumption
  <2> HIDE DEF left, s
  <2>4. others[s] # NoRow /\ others[s].amount = PrincipalOfAll(plan, left) /\ others[s].month \in Nat
    BY <2>3 DEF left, s
  <2>5. RowsOf(others) = RowsOf(rows) \union {s} /\ s \notin RowsOf(rows)
    BY <2>1, <2>3, <2>4 DEF RowsOf, s
  <2>6. /\ TrackedOf(plan) = RowsOf(rows) \union left /\ RowsOf(rows) \intersect left = {}
        /\ RowsOf(rows) \in SUBSET Numbers
    BY <1>2, <1>5, <2>1 DEF RowsOf
  <2>7. /\ PrincipalOfAll(plan, TrackedOf(plan))
              = PrincipalOfAll(plan, RowsOf(rows)) + PrincipalOfAll(plan, left)
        /\ PrincipalOfAll(plan, RowsOf(rows)) \in Int /\ PrincipalOfAll(plan, left) \in Int
    <3>1. /\ PrincipalOfAll(plan, RowsOf(rows) \union left)
                = PrincipalOfAll(plan, RowsOf(rows)) + PrincipalOfAll(plan, left)
          /\ PrincipalOfAll(plan, RowsOf(rows)) \in Int /\ PrincipalOfAll(plan, left) \in Int
      <4>1. RowsOf(rows) \in SUBSET Numbers /\ left \in SUBSET Numbers
        BY <2>2, <2>6
      <4>2. RowsOf(rows) \intersect left = {}
        BY <2>6
      <4>3. QED
        BY <4>1, <4>2, PrincipalOfBoth
    <3>2. QED
      BY <2>6, <3>1
  <2>8. \A k \in RowsOf(others) : others[k].amount \in Int
    BY <1>2, <1>4, <2>4, <2>7 DEF s
  <2>9. AmountOfAll(others, RowsOf(others)) = others[s].amount + AmountOfAll(others, RowsOf(rows))
    <3>1. RowsOf(others) \in SUBSET Numbers /\ s \in RowsOf(others) /\ RowsOf(others) \ {s} = RowsOf(rows)
      BY <2>3, <2>5 DEF RowsOf
    <3>2. QED
      BY <2>8, <3>1, AmountOfOne
  <2>10. AmountOfAll(others, RowsOf(rows)) = PrincipalOfAll(plan, RowsOf(rows))
    <3>1. \A k \in RowsOf(rows) : others[k].amount = PrincipalOf(plan, k)
      BY <1>2, <1>4, <2>5
    <3>2. QED
      BY <3>1, AmountsAreWorth
  <2>11. AmountOfAll(others, RowsOf(others)) = TrackedPrincipal(plan)
    BY <2>4, <2>7, <2>9, <2>10, TrackedAreNumbers
  <2>12. Bounded(to, others)
    <3>1. TrackedPrincipal(to) = TrackedPrincipal(plan) /\ TrackedPrincipal(plan) \in Int
      BY <2>7, SameWorth, TrackedAreNumbers
    <3>2. QED
      BY <2>11, <3>1 DEF Bounded
  <2>13. \A k \in RowsOf(others) :
            /\ to.recognizing /\ k \in TrackedOf(to)
            /\ others[k].month \in Nat /\ others[k].amount \in Int
            /\ k # s => others[k].amount = PrincipalOf(to, k)
    <3>1. \A k : PrincipalOf(to, k) = PrincipalOf(plan, k)
      BY SameWorth
    <3>2. s \in TrackedOf(to)
      BY <1>3, <2>1, <2>3
    <3>3. QED
      BY <1>2, <1>3, <1>4, <2>1, <2>4, <2>8, <3>1, <3>2
  <2>14. QED
    BY <2>12, <2>13 DEF RowsFit, s
<1>8. QED
  BY <1>6, <1>7
-----------------------------------------------------------------------------
(* Requests that come one by one *)

\* The expenses of a plan fit it; those of a plan that is gone are gone.
MoneyFits(p) ==
    IF Exists(p) THEN RowsFit(plans[p], expenses[p]) ELSE RowsOf(expenses[p]) = {}

\* What a request has read of its plans is still so.
StillSo(q) ==
    /\ q.op # "registerPending" => q.plan \in PlanIds /\ Exists(q.plan)
    /\ q.op = "update" =>
          /\ q.principal = Unchanged => q.to.principal = plans[q.plan].principal
          /\ \/ SameTerms(q.to, plans[q.plan])
             \/ plans[q.plan].status = "ACTIVE" /\ RowsOf(expenses[q.plan]) = {}
    /\ q.op = "recognize" =>
          /\ q.number \in Numbers /\ plans[q.plan].status = "ACTIVE"
          /\ Pays(plans[q.plan], q.number, q.amount, q.month)
    /\ q.op = "registerPending" =>
          \A p \in PlanIds : \A k \in DOMAIN q.items[p] :
             /\ Exists(p) /\ plans[p].status = "ACTIVE"
             /\ Pays(plans[p], k, q.items[p][k].amount, q.items[p][k].month)
    /\ q.op = "unrecognize" => q.number # plans[q.plan].settlement
    /\ q.op = "settle" =>
          LET left == Left(plans[q.plan], expenses[q.plan])
          IN  /\ plans[q.plan].status = "ACTIVE" /\ q.month \in Nat
              /\ q.number = IF left = {} THEN Null ELSE Min(left)
              /\ q.amount = PrincipalOfAll(plans[q.plan], left)
    /\ q.op = "unsettle" => q.number = plans[q.plan].settlement

AloneInv ==
    OneByOne =>
       /\ \A c \in Clients : requests[c] # Idle => c \in scope.clients /\ StillSo(requests[c])
       /\ \A p \in PlanIds : MoneyFits(p)

\* Nobody else has a request under way.
LEMMA OthersAreIdle ==
  ASSUME Inv, AloneInv, OneByOne, NEW c \in Clients, requests[c] # Idle
  PROVE  \A d \in Clients : requests[d] # Idle => d = c
<1>1. scope.clients \in SUBSET Clients /\ IsFiniteSet(Clients)
  BY ScopesAssumption, ClientsAssumption DEF Inv, Typed
<1>2. IsFiniteSet(scope.clients)
  BY <1>1, FS_Subset
<1>3. PICK x : scope.clients = {x}
  BY <1>2, FS_Singleton DEF OneByOne
<1>4. QED
  BY <1>3 DEF AloneInv

\* A plan that is left alone keeps its expenses.
LEMMA MoneyStays ==
  ASSUME NEW p \in PlanIds, MoneyFits(p), plans'[p] = plans[p], expenses'[p] = expenses[p]
  PROVE  MoneyFits(p)'
BY DEF MoneyFits, Exists

\* What a request knows lasts as long as the plans that exist.
LEMMA KnownStays ==
  ASSUME NEW r, StillSo(r),
         \A p \in PlanIds : Exists(p) => plans'[p] = plans[p] /\ expenses'[p] = expenses[p]
  PROVE  StillSo(r)'
<1>1. \A p \in PlanIds : Exists(p) => Exists(p)'
  BY DEF Exists
<1>2. r.op = "registerPending" =>
         \A p \in PlanIds : \A k \in DOMAIN r.items[p] :
            /\ Exists(p)' /\ plans'[p].status = "ACTIVE"
            /\ Pays(plans'[p], k, r.items[p][k].amount, r.items[p][k].month)
  BY <1>1 DEF StillSo
<1>3. r.op # "registerPending" =>
         /\ r.plan \in PlanIds /\ Exists(r.plan) /\ Exists(r.plan)'
         /\ plans'[r.plan] = plans[r.plan] /\ expenses'[r.plan] = expenses[r.plan]
  BY <1>1 DEF StillSo
<1>4. QED
  BY <1>2, <1>3 DEF StillSo

\* A step that begins a request, knowing what is so.
LEMMA AloneBegins ==
  ASSUME Inv, AloneInv, UNCHANGED scope, NEW c \in Clients, c \in scope.clients,
         NEW q, Begin(c, q), OneByOne => StillSo(q)
  PROVE  AloneInv'
<1> SUFFICES ASSUME OneByOne
             PROVE  /\ \A d \in Clients : requests'[d] # Idle =>
                          d \in scope.clients /\ StillSo(requests[d])'
                    /\ \A p \in PlanIds : MoneyFits(p)'
  BY DEF AloneInv, OneByOne
<1>1. \A p \in PlanIds : plans'[p] = plans[p] /\ expenses'[p] = expenses[p]
  BY DEF Begin
<1>2. \A p \in PlanIds : MoneyFits(p)'
  BY <1>1, MoneyStays DEF AloneInv
<1>3. ASSUME NEW d \in Clients, requests'[d] # Idle
      PROVE  d \in scope.clients /\ StillSo(requests[d])'
  <2>1. PICK r : r = requests'[d]
    OBVIOUS
  <2>2. d \in scope.clients /\ StillSo(r)
    BY <1>3, <2>1 DEF AloneInv, Begin, Inv, Typed
  <2>3. StillSo(r)'
    BY <1>1, <2>2, KnownStays
  <2>4. QED
    BY <2>1, <2>2, <2>3
<1>4. QED
  BY <1>2, <1>3

\* A step that ends one.
LEMMA AloneEnds ==
  ASSUME Inv, AloneInv, UNCHANGED scope, NEW c \in Clients, requests[c] # Idle, Answer(c),
         OneByOne => \A p \in PlanIds : MoneyFits(p)'
  PROVE  AloneInv'
<1> SUFFICES ASSUME OneByOne
             PROVE  \A d \in Clients : requests'[d] = Idle
  BY DEF AloneInv, OneByOne
<1>1. \A d \in Clients : requests[d] # Idle => d = c
  BY OthersAreIdle
<1>2. QED
  BY <1>1 DEF Answer, Inv, Typed

\* An update that sends a term of the plan finds nothing recognized.
LEMMA PatchedTerms ==
  ASSUME NEW plan \in Plan, NEW patch \in Patches
  PROVE  /\ patch.principal = Unchanged => Patched(plan, patch).principal = plan.principal
         /\ (\A f \in StructuralFields : patch[f] = Unchanged) =>
               SameTerms(Patched(plan, patch), plan)
<1>1. StructuralFields \subseteq DOMAIN plan
  BY DEF StructuralFields, Plan
<1>2. StructuralFields \subseteq DOMAIN patch
  BY PatchesAssumption DEF StructuralFields
<1>3. \A f \in StructuralFields : Patched(plan, patch)[f] = Sent(patch, plan, f)
  BY <1>1, <1>2 DEF Patched
<1>4. \A f \in StructuralFields : patch[f] = Unchanged => Patched(plan, patch)[f] = plan[f]
  BY <1>3 DEF Sent
<1>5. QED
  BY <1>4 DEF StructuralFields, SameTerms

\* What is pending is an installment that can be recognized.
LEMMA PendingPays ==
  ASSUME NEW plan \in Plan, NEW rows, NEW k \in Installments(plan),
         StateOf(plan, rows, k, now) = "PENDING"
  PROVE  /\ plan.status = "ACTIVE" /\ k \in Numbers
         /\ Pays(plan, k, PrincipalOf(plan, k), DueMonth(plan, k))
<1>1. Tracked(plan, k) /\ plan.recognizing /\ plan.status # "SETTLED"
  BY DEF StateOf
<1>2. k \in Numbers /\ plan.status = "ACTIVE" /\ plan.first \in Nat /\ k \in Nat
  BY <1>1, PlanTerms, NumbersAreFinite
<1>3. k >= 1 /\ DueMonth(plan, k) \in Nat
  BY <1>2, NumbersAreFinite DEF DueMonth, StatementMonth
<1>4. QED
  BY <1>1, <1>2, <1>3 DEF Pays, TrackedOf

\* What is left of an active plan is what is pending and what is to come.
LEMMA RemainingIsLeft ==
  ASSUME NEW p \in PlanIds, plans[p] \in Plan, plans[p].status = "ACTIVE"
  PROVE  Remaining(p) = Left(plans[p], expenses[p])
<1>1. \A k \in Installments(plans[p]) :
         plans[p].recognizing =>
            (StateOf(plans[p], expenses[p], k, now) \in {"PENDING", "FUTURE"}
                <=> Tracked(plans[p], k) /\ expenses[p][k] = NoRow)
  BY DEF StateOf
<1>2. QED
  BY <1>1 DEF Remaining, Left, TrackedOf

\* Every request knows, when it begins, what it has read.
LEMMA BeginsAlone ==
  ASSUME Inv, AloneInv, UNCHANGED scope, NEW c \in Clients, c \in scope.clients, NEW p \in PlanIds
  PROVE  /\ \A patch \in Patches : BeginUpdate(c, p, patch) => AloneInv'
         /\ BeginRemove(c, p) => AloneInv'
         /\ \A k \in Numbers : BeginRecognize(c, p, k) => AloneInv'
         /\ \A k \in Numbers : BeginUnrecognize(c, p, k) => AloneInv'
         /\ \A month \in Months : BeginSettle(c, p, month) => AloneInv'
         /\ BeginUnsettle(c, p) => AloneInv'
<1>1. ASSUME Exists(p)
      PROVE  plans[p] \in Plan /\ Recognized(p) = RowsOf(expenses[p])
  BY <1>1, PlansExist DEF Inv, Recognized, RowsOf
<1>2. ASSUME OneByOne, Exists(p)
      PROVE  RowsFit(plans[p], expenses[p])
  BY <1>2 DEF AloneInv, MoneyFits
<1>3. ASSUME NEW patch \in Patches, BeginUpdate(c, p, patch)
      PROVE  AloneInv'
  <2>1. PICK q : /\ q = [op |-> "update", plan |-> p, to |-> Patched(plans[p], patch),
                         principal |-> patch.principal,
                         recategorize |-> Patched(plans[p], patch).category
                                             \notin {plans[p].category, Null}]
                 /\ Begin(c, q) /\ Exists(p)
                 /\ (\E f \in StructuralFields : patch[f] # Unchanged) =>
                        plans[p].status = "ACTIVE" /\ Recognized(p) = {}
    BY <1>3 DEF BeginUpdate
  <2>2. q.op = "update" /\ q.plan = p /\ q.to = Patched(plans[p], patch)
        /\ q.principal = patch.principal
    BY <2>1
  <2>3. StillSo(q)
    BY <1>1, <2>1, <2>2, PatchedTerms DEF StillSo
  <2>4. QED
    BY <2>1, <2>3, AloneBegins
<1>4. ASSUME BeginRemove(c, p)
      PROVE  AloneInv'
  <2>1. StillSo([op |-> "remove", plan |-> p])
    BY <1>4 DEF BeginRemove, StillSo
  <2>2. QED
    BY <1>4, <2>1, AloneBegins DEF BeginRemove
<1>5. ASSUME NEW k \in Numbers, BeginRecognize(c, p, k)
      PROVE  AloneInv'
  <2>1. PICK q : /\ q = [op |-> "recognize", plan |-> p, number |-> k,
                         amount |-> PrincipalOf(plans[p], k), month |-> DueMonth(plans[p], k),
                         category |-> plans[p].category]
                 /\ Begin(c, q) /\ Exists(p) /\ k \in Installments(plans[p])
                 /\ StateOf(plans[p], expenses[p], k, now) = "PENDING"
    BY <1>5 DEF BeginRecognize
  <2>2. q.op = "recognize" /\ q.plan = p /\ q.number = k
        /\ q.amount = PrincipalOf(plans[p], k) /\ q.month = DueMonth(plans[p], k)
    BY <2>1
  <2>3. plans[p].status = "ACTIVE" /\ Pays(plans[p], k, q.amount, q.month)
    BY <1>1, <2>1, <2>2, PendingPays
  <2>4. StillSo(q)
    BY <2>1, <2>2, <2>3 DEF StillSo
  <2>5. QED
    BY <2>1, <2>4, AloneBegins
<1>6. ASSUME NEW k \in Numbers, BeginUnrecognize(c, p, k)
      PROVE  AloneInv'
  <2>1. PICK q : /\ q = [op |-> "unrecognize", plan |-> p, number |-> k,
                         version |-> expenses[p][k].version]
                 /\ Begin(c, q) /\ Exists(p)
                 /\ ~ (plans[p].status = "SETTLED" /\ plans[p].settlement = k)
    BY <1>6 DEF BeginUnrecognize
  <2>2. q.op = "unrecognize" /\ q.plan = p /\ q.number = k
    BY <2>1
  <2>3. OneByOne => k # plans[p].settlement
    BY <1>1, <1>2, <2>1, RowsAssumption, PlanTerms DEF RowsFit
  <2>4. OneByOne => StillSo(q)
    BY <2>1, <2>2, <2>3 DEF StillSo
  <2>5. QED
    BY <2>1, <2>4, AloneBegins
<1>7. ASSUME NEW month \in Months, BeginSettle(c, p, month)
      PROVE  AloneInv'
  <2>1. PICK q : /\ q = [op |-> "settle", plan |-> p, month |-> month,
                         category |-> plans[p].category,
                         number |-> IF Remaining(p) = {} THEN Null ELSE Min(Remaining(p)),
                         amount |-> PrincipalOfAll(plans[p], Remaining(p))]
                 /\ Begin(c, q) /\ Exists(p) /\ plans[p].status = "ACTIVE"
    BY <1>7 DEF BeginSettle
  <2>2. /\ q.op = "settle" /\ q.plan = p /\ q.month = month
        /\ q.number = IF Remaining(p) = {} THEN Null ELSE Min(Remaining(p))
        /\ q.amount = PrincipalOfAll(plans[p], Remaining(p))
    BY <2>1
  <2>3. Remaining(p) = Left(plans[p], expenses[p]) /\ month \in Nat
    BY <1>1, <2>1, RemainingIsLeft DEF Months
  <2>4. StillSo(q)
    BY <2>1, <2>2, <2>3 DEF StillSo
  <2>5. QED
    BY <2>1, <2>4, AloneBegins
<1>8. ASSUME BeginUnsettle(c, p)
      PROVE  AloneInv'
  <2> DEFINE k == plans[p].settlement
             recorded == k # Null /\ k \in Recognized(p)
  <2>1. PICK q : /\ q = [op |-> "unsettle", plan |-> p,
                         number |-> IF recorded THEN k ELSE Null,
                         version |-> IF recorded THEN expenses[p][k].version ELSE Null]
                 /\ Begin(c, q) /\ Exists(p) /\ plans[p].status = "SETTLED"
    BY <1>8 DEF BeginUnsettle
  <2>2. q.op = "unsettle" /\ q.plan = p /\ q.number = IF recorded THEN k ELSE Null
    BY <2>1
  <2>3. k \in Numbers \union {Null}
    BY <1>1, <2>1, PlanTerms
  <2>4. k # Null => k \in Recognized(p)
    BY <2>1, <2>3 DEF Inv, SettlementIsRecorded, Recognized
  <2>5. q.number = k
    BY <2>2, <2>4
  <2>6. StillSo(q)
    BY <2>1, <2>2, <2>5 DEF StillSo
  <2>7. QED
    BY <2>1, <2>6, AloneBegins
<1>9. QED
  BY <1>3, <1>4, <1>5, <1>6, <1>7, <1>8

LEMMA BeginRegisterPendingAlone ==
  ASSUME Inv, AloneInv, UNCHANGED scope, NEW c \in Clients, c \in scope.clients,
         NEW period, BeginRegisterPending(c, period)
  PROVE  AloneInv'
<1> DEFINE items == [p \in PlanIds |-> [k \in Pending(p, period) |->
                        [amount |-> PrincipalOf(plans[p], k), month |-> DueMonth(plans[p], k)]]]
<1>1. PICK q : q = [op |-> "registerPending", items |-> items] /\ Begin(c, q)
  BY DEF BeginRegisterPending
<1>2. q.op = "registerPending" /\ q.items = items
  BY <1>1
<1>3. ASSUME NEW p \in PlanIds, NEW k \in DOMAIN items[p]
      PROVE  /\ Exists(p) /\ plans[p].status = "ACTIVE"
             /\ Pays(plans[p], k, items[p][k].amount, items[p][k].month)
  <2>1. k \in Pending(p, period)
    BY <1>3
  <2>2. Exists(p) /\ k \in Installments(plans[p]) /\ StateOf(plans[p], expenses[p], k, now) = "PENDING"
    BY <2>1 DEF Pending
  <2>3. plans[p] \in Plan
    BY <2>2, PlansExist DEF Inv
  <2>4. items[p][k].amount = PrincipalOf(plans[p], k) /\ items[p][k].month = DueMonth(plans[p], k)
    BY <2>1
  <2>5. QED
    BY <2>2, <2>3, <2>4, PendingPays
<1>4. StillSo(q)
  <2> HIDE DEF items
  <2>1. QED
    BY <1>2, <1>3 DEF StillSo
<1>5. QED
  BY <1>1, <1>4, AloneBegins

\* The writes of one plan.
LEMMA OneWritten ==
  ASSUME Inv, AloneInv, UNCHANGED scope, NEW c \in Clients, requests[c] # Idle, Answer(c),
         NEW p \in PlanIds, OneByOne => MoneyFits(p)',
         \A o \in PlanIds : o # p => plans'[o] = plans[o] /\ expenses'[o] = expenses[o]
  PROVE  AloneInv'
<1>1. ASSUME OneByOne, NEW o \in PlanIds, o # p
      PROVE  MoneyFits(o)'
  BY <1>1, MoneyStays DEF AloneInv
<1>2. QED
  BY <1>1, AloneEnds

\* An expense that is written is one, of the amount and in the month asked for.
LEMMA ExpenseSays ==
  ASSUME NEW p \in PlanIds, NEW k \in Numbers, NEW amount, NEW month, NEW category
  PROVE  /\ Expense(p, k, amount, month, category) # NoRow
         /\ Expense(p, k, amount, month, category).amount = amount
         /\ Expense(p, k, amount, month, category).month = month
<1>1. Expense(p, k, amount, month, category) # NoRow
  BY ExpenseIsRow, VersionsAssumption
<1>2. QED
  BY <1>1 DEF Expense

LEMMA UpdateAlone ==
  ASSUME Inv, AloneInv, UNCHANGED scope, NEW c \in Clients, Update(c)
  PROVE  AloneInv'
<1>0. PICK q, p : q = requests[c] /\ p = q.plan
  OBVIOUS
<1> DEFINE to == [q.to EXCEPT !.principal  = PrincipalSent(q, plans[p].principal),
                              !.status     = plans[p].status,
                              !.settlement = plans[p].settlement]
<1>1. /\ UpdateIsValid(q) /\ p \in PlanIds /\ q.to \in Plan /\ q.op = "update"
      /\ Exists(p) /\ plans[p] \in Plan /\ requests[c] # Idle /\ q.plan = p
  BY <1>0, PlansExist DEF Update, Inv, FitsPlans, Writes, UpdateIsValid
<1>2. /\ plans' = [plans EXCEPT ![p] = to]
      /\ expenses' = [expenses EXCEPT ![p] =
                         [k \in Numbers |-> Recategorized(q, expenses[p][k])]]
      /\ Answer(c)
  BY <1>0, <1>1 DEF Update, Inv, Typed
<1>3. /\ to.count = q.to.count /\ to.first = q.to.first /\ to.billed = q.to.billed
      /\ to.recognizing = q.to.recognizing
      /\ to.principal = PrincipalSent(q, plans[p].principal)
      /\ to.status = plans[p].status /\ to.settlement = plans[p].settlement
  BY <1>1 DEF Plan
<1>4. to \in Plan
  BY <1>1 DEF Plan, PrincipalSent, UpdateIsValid
<1> HIDE DEF to
<1>5. PICK plan, rows : plan = plans[p] /\ rows = expenses[p]
  OBVIOUS
<1>6. PICK others : others = [k \in Numbers |-> Recategorized(q, rows[k])]
  OBVIOUS
<1>7. plans'[p] = to /\ expenses'[p] = others /\ Exists(p)'
  BY <1>1, <1>2, <1>4, <1>5, <1>6, RowsAssumption DEF Inv, Typed, Exists
<1>8. /\ RowsOf(others) = RowsOf(rows)
      /\ \A k \in RowsOf(rows) : others[k].amount = rows[k].amount /\ others[k].month = rows[k].month
  <2>1. ASSUME NEW k \in Numbers, rows[k] = NoRow
        PROVE  others[k] = NoRow
    BY <1>6, <2>1 DEF Recategorized
  <2>2. ASSUME NEW k \in Numbers, rows[k] # NoRow
        PROVE  /\ others[k] # NoRow
               /\ others[k].amount = rows[k].amount /\ others[k].month = rows[k].month
    <3>1. DOMAIN rows[k] = {"version", "amount", "month", "category"} /\ rows[k].version \in Versions
      BY <1>1, <1>5, <2>2 DEF Inv, Typed, HasRow
    <3>2. others[k] = Recategorized(q, rows[k])
      BY <1>6
    <3>3. others[k].version \in Versions
      BY <3>1, <3>2, RecategorizedKeepsId
    <3>4. others[k].amount = rows[k].amount /\ others[k].month = rows[k].month
      BY <3>1, <3>2 DEF Recategorized
    <3>5. QED
      BY <3>3, <3>4, VersionsAssumption
  <2>3. QED
    BY <2>1, <2>2 DEF RowsOf
<1>9. ASSUME OneByOne
      PROVE  RowsFit(to, others)
  <2>1. RowsFit(plan, rows) /\ StillSo(q)
    BY <1>0, <1>1, <1>5, <1>9 DEF AloneInv, MoneyFits
  <2>2. to.principal = q.to.principal
    BY <1>1, <1>3, <2>1 DEF StillSo, PrincipalSent, UpdateIsValid
  <2>3. CASE SameTerms(q.to, plan)
    <3>1. SameTerms(to, plan)
      BY <1>3, <2>2, <2>3 DEF SameTerms
    <3>2. QED
      BY <1>1, <1>3, <1>4, <1>5, <1>8, <2>1, <3>1, RowsEdited
  <2>4. CASE plan.status = "ACTIVE" /\ RowsOf(rows) = {}
    BY <1>3, <1>4, <1>5, <1>8, <2>1, <2>4, NoRowsFit DEF RowsFit
  <2>5. QED
    BY <1>1, <1>5, <2>1, <2>3, <2>4 DEF StillSo
<1>10. OneByOne => MoneyFits(p)'
  BY <1>7, <1>9 DEF MoneyFits
<1>11. \A o \in PlanIds : o # p => plans'[o] = plans[o] /\ expenses'[o] = expenses[o]
  BY <1>2 DEF Inv, Typed
<1>12. QED
  BY <1>1, <1>2, <1>10, <1>11, OneWritten

LEMMA RemoveAlone ==
  ASSUME Inv, AloneInv, UNCHANGED scope, NEW c \in Clients, Remove(c)
  PROVE  AloneInv'
<1>1. PICK p : p = requests[c].plan
  OBVIOUS
<1>2. /\ p \in PlanIds /\ requests[c] # Idle /\ Answer(c)
      /\ plans' = [plans EXCEPT ![p] = Gone]
      /\ expenses' = [expenses EXCEPT ![p] = [k \in Numbers |-> NoRow]]
  BY <1>1 DEF Remove, Writes, Inv, FitsPlans
<1>3. plans'[p] = Gone /\ \A k \in Numbers : expenses'[p][k] = NoRow
  BY <1>2 DEF Inv, Typed
<1>4. MoneyFits(p)'
  BY <1>3 DEF MoneyFits, Exists, RowsOf
<1>5. \A o \in PlanIds : o # p => plans'[o] = plans[o] /\ expenses'[o] = expenses[o]
  BY <1>2 DEF Inv, Typed
<1>6. QED
  BY <1>2, <1>4, <1>5, OneWritten

\* Installments recognized, of plans that are active.
LEMMA RecognizedAlone ==
  ASSUME Inv, AloneInv, OneByOne, UNCHANGED plans, NEW p \in PlanIds,
         \A k \in Numbers :
            \/ expenses'[p][k] = expenses[p][k]
            \/ /\ Exists(p) /\ plans[p].status = "ACTIVE"
               /\ Pays(plans[p], k, expenses'[p][k].amount, expenses'[p][k].month)
  PROVE  MoneyFits(p)'
<1>1. MoneyFits(p) /\ (Exists(p) => plans[p] \in Plan)
  BY PlansExist DEF AloneInv, Inv
<1>2. PICK plan, rows, others : plan = plans[p] /\ rows = expenses[p] /\ others = expenses'[p]
  OBVIOUS
<1>3. plans'[p] = plan /\ (Exists(p)' <=> Exists(p))
  BY <1>2 DEF Exists
<1>4. CASE \A k \in Numbers : others[k] = rows[k]
  <2>1. RowsOf(others) = RowsOf(rows) /\ \A k \in RowsOf(rows) : others[k] = rows[k]
    BY <1>4 DEF RowsOf
  <2>2. CASE Exists(p)
    <3>1. RowsFit(plan, rows) /\ plan \in Plan /\ SameTerms(plan, plan)
      BY <1>1, <1>2, <2>2 DEF MoneyFits, SameTerms
    <3>2. RowsFit(plan, others)
      BY <2>1, <3>1, RowsEdited
    <3>3. QED
      BY <1>2, <1>3, <2>2, <3>2 DEF MoneyFits
  <2>3. CASE ~ Exists(p)
    BY <1>1, <1>2, <1>3, <2>1, <2>3 DEF MoneyFits
  <2>4. QED
    BY <2>2, <2>3
<1>5. CASE \E k \in Numbers : others[k] # rows[k]
  <2>1. Exists(p) /\ plan.status = "ACTIVE" /\ plan \in Plan /\ RowsFit(plan, rows)
    BY <1>1, <1>2, <1>5 DEF MoneyFits
  <2>2. RowsFit(plan, others)
    BY <1>2, <2>1, RowsAdded
  <2>3. QED
    BY <1>2, <1>3, <2>1, <2>2 DEF MoneyFits
<1>6. QED
  BY <1>4, <1>5

LEMMA RecognizeAlone ==
  ASSUME Inv, AloneInv, UNCHANGED scope, NEW c \in Clients, Recognize(c)
  PROVE  AloneInv'
<1>1. PICK q : q = requests[c]
  OBVIOUS
<1>2. PICK row : row = Expense(q.plan, q.number, q.amount, q.month, q.category)
  OBVIOUS
<1>3. /\ q.plan \in PlanIds /\ q.number \in Numbers /\ q.op = "recognize"
      /\ requests[c] # Idle /\ Answer(c) /\ Exists(q.plan) /\ UNCHANGED plans
      /\ expenses' = [expenses EXCEPT ![q.plan][q.number] = row]
  BY <1>1, <1>2 DEF Recognize, Writes, Inv, FitsPlans
<1>4. row.amount = q.amount /\ row.month = q.month
  BY <1>2, <1>3, ExpenseSays
<1>5. /\ \A o \in PlanIds : o # q.plan => expenses'[o] = expenses[o]
      /\ expenses'[q.plan][q.number] = row
      /\ \A k \in Numbers : k # q.number => expenses'[q.plan][k] = expenses[q.plan][k]
  BY <1>3 DEF Inv, Typed
<1>6. ASSUME OneByOne
      PROVE  MoneyFits(q.plan)'
  <2>1. plans[q.plan].status = "ACTIVE" /\ Pays(plans[q.plan], q.number, row.amount, row.month)
    BY <1>1, <1>3, <1>4, <1>6 DEF AloneInv, StillSo
  <2>2. QED
    BY <1>3, <1>5, <1>6, <2>1, RecognizedAlone
<1>7. QED
  BY <1>3, <1>5, <1>6, OneWritten

LEMMA RegisterPendingAlone ==
  ASSUME Inv, AloneInv, UNCHANGED scope, NEW c \in Clients, RegisterPending(c)
  PROVE  AloneInv'
<1>1. PICK q : q = requests[c]
  OBVIOUS
<1>2. /\ q.op = "registerPending" /\ requests[c] # Idle /\ Answer(c) /\ UNCHANGED plans
      /\ expenses' = [p \in PlanIds |-> [k \in Numbers |->
            IF k \in DOMAIN q.items[p]
            THEN Expense(p, k, q.items[p][k].amount, q.items[p][k].month, plans[p].category)
            ELSE expenses[p][k]]]
  BY <1>1 DEF RegisterPending, Writes
<1>3. ASSUME OneByOne, NEW p \in PlanIds
      PROVE  MoneyFits(p)'
  <2>1. StillSo(q)
    BY <1>1, <1>2, <1>3 DEF AloneInv
  <2>2. ASSUME NEW k \in Numbers, k \notin DOMAIN q.items[p]
        PROVE  expenses'[p][k] = expenses[p][k]
    BY <1>2, <2>2
  <2>3. ASSUME NEW k \in Numbers, k \in DOMAIN q.items[p]
        PROVE  /\ Exists(p) /\ plans[p].status = "ACTIVE"
               /\ Pays(plans[p], k, expenses'[p][k].amount, expenses'[p][k].month)
    <3>1. expenses'[p][k] = Expense(p, k, q.items[p][k].amount, q.items[p][k].month, plans[p].category)
      BY <1>2, <2>3
    <3>2. expenses'[p][k].amount = q.items[p][k].amount /\ expenses'[p][k].month = q.items[p][k].month
      BY <3>1, ExpenseSays
    <3>3. QED
      BY <1>2, <2>1, <2>3, <3>2 DEF StillSo
  <2>4. QED
    BY <1>2, <1>3, <2>2, <2>3, RecognizedAlone
<1>4. QED
  BY <1>2, <1>3, AloneEnds

LEMMA UnrecognizeAlone ==
  ASSUME Inv, AloneInv, UNCHANGED scope, NEW c \in Clients, Unrecognize(c)
  PROVE  AloneInv'
<1>1. PICK q : q = requests[c]
  OBVIOUS
<1>2. /\ q.op = "unrecognize" /\ requests[c] # Idle /\ Answer(c) /\ UNCHANGED plans
      /\ q.plan \in PlanIds /\ q.number \in Numbers /\ expenses[q.plan][q.number] # NoRow
      /\ expenses' = [expenses EXCEPT ![q.plan][q.number] = NoRow]
  BY <1>1 DEF Unrecognize, Writes, Inv, FitsPlans, SparesSettlement, Holds
<1>3. /\ \A o \in PlanIds : o # q.plan => expenses'[o] = expenses[o]
      /\ \A k \in Numbers : expenses'[q.plan][k] = IF k = q.number THEN NoRow
                                                   ELSE expenses[q.plan][k]
  BY <1>2 DEF Inv, Typed
<1>4. PICK plan, rows, others : /\ plan = plans[q.plan] /\ rows = expenses[q.plan]
                                /\ others = expenses'[q.plan]
  OBVIOUS
<1>5. ASSUME OneByOne
      PROVE  MoneyFits(q.plan)'
  <2>1. StillSo(q) /\ MoneyFits(q.plan)
    BY <1>1, <1>2, <1>5 DEF AloneInv
  <2>2. Exists(q.plan) /\ q.number # plan.settlement
    BY <1>2, <1>4, <2>1 DEF StillSo
  <2>3. plan \in Plan /\ RowsFit(plan, rows) /\ q.number \in RowsOf(rows)
    BY <1>2, <1>4, <2>1, <2>2, PlansExist DEF Inv, MoneyFits, RowsOf
  <2>4. RowsFit(plan, others)
    BY <1>3, <1>4, <2>2, <2>3, RowUndone
  <2>5. plans'[q.plan] = plan /\ Exists(q.plan)'
    BY <1>2, <1>4, <2>2 DEF Exists
  <2>6. QED
    BY <1>4, <2>4, <2>5 DEF MoneyFits
<1>6. QED
  BY <1>2, <1>3, <1>5, OneWritten

\* A plan with another status and settlement.
LEMMA StatusSet ==
  ASSUME Inv, NEW p \in PlanIds, Exists(p),
         NEW status \in {"ACTIVE", "SETTLED"}, NEW settlement \in Numbers \union {Null},
         plans' = [plans EXCEPT ![p].status = status, ![p].settlement = settlement]
  PROVE  /\ plans'[p] \in Plan /\ SameTerms(plans'[p], plans[p])
         /\ plans'[p].status = status /\ plans'[p].settlement = settlement
         /\ Exists(p)'
         /\ \A o \in PlanIds : o # p => plans'[o] = plans[o]
<1> DEFINE to == [plans[p] EXCEPT !.status = status, !.settlement = settlement]
<1>1. plans[p] \in Plan
  BY PlansExist DEF Inv
<1>2. plans'[p] = to /\ \A o \in PlanIds : o # p => plans'[o] = plans[o]
  BY DEF Inv, Typed
<1>3. to \in Plan /\ to.status = status /\ to.settlement = settlement
  BY <1>1 DEF Plan
<1>4. SameTerms(to, plans[p])
  BY <1>1 DEF Plan, SameTerms
<1> HIDE DEF to
<1>5. QED
  BY <1>2, <1>3, <1>4, RowsAssumption DEF Exists

LEMMA SettleAlone ==
  ASSUME Inv, AloneInv, UNCHANGED scope, NEW c \in Clients, Settle(c)
  PROVE  AloneInv'
<1>1. PICK q : q = requests[c]
  OBVIOUS
<1>2. PICK row : row = Expense(q.plan, q.number, q.amount, q.month, q.category)
  OBVIOUS
<1>3. /\ q.op = "settle" /\ requests[c] # Idle /\ Answer(c)
      /\ q.plan \in PlanIds /\ q.number \in Numbers \union {Null} /\ Exists(q.plan)
      /\ plans' = [plans EXCEPT ![q.plan].status = "SETTLED", ![q.plan].settlement = q.number]
      /\ expenses' = IF q.number = Null THEN expenses
                     ELSE [expenses EXCEPT ![q.plan][q.number] = row]
  BY <1>1, <1>2 DEF Settle, Writes, Inv, FitsPlans, SettlesOne
<1>4. /\ \A o \in PlanIds : o # q.plan => expenses'[o] = expenses[o]
      /\ \A k \in Numbers : k # q.number => expenses'[q.plan][k] = expenses[q.plan][k]
      /\ q.number # Null => expenses'[q.plan][q.number] = row
  BY <1>3 DEF Inv, Typed
<1>5. q.number # Null => row # NoRow /\ row.amount = q.amount /\ row.month = q.month
  BY <1>2, <1>3, ExpenseSays
<1>6. PICK plan, to, rows, others :
         /\ plan = plans[q.plan] /\ to = plans'[q.plan]
         /\ rows = expenses[q.plan] /\ others = expenses'[q.plan]
  OBVIOUS
<1>7. /\ to \in Plan /\ SameTerms(to, plan) /\ to.status = "SETTLED" /\ to.settlement = q.number
      /\ Exists(q.plan)' /\ \A o \in PlanIds : o # q.plan => plans'[o] = plans[o]
  <2>1. PICK p, status, settlement : p = q.plan /\ status = "SETTLED" /\ settlement = q.number
    OBVIOUS
  <2>2. /\ p \in PlanIds /\ Exists(p) /\ status \in {"ACTIVE", "SETTLED"}
        /\ settlement \in Numbers \union {Null}
        /\ plans' = [plans EXCEPT ![p].status = status, ![p].settlement = settlement]
    BY <1>3, <2>1
  <2>3. /\ plans'[p] \in Plan /\ SameTerms(plans'[p], plans[p])
        /\ plans'[p].status = status /\ plans'[p].settlement = settlement
        /\ Exists(p)' /\ \A o \in PlanIds : o # p => plans'[o] = plans[o]
    BY <2>2, StatusSet
  <2>4. QED
    BY <1>6, <2>1, <2>3
<1>8. ASSUME OneByOne
      PROVE  MoneyFits(q.plan)'
  <2>1. StillSo(q) /\ MoneyFits(q.plan)
    BY <1>1, <1>3, <1>8 DEF AloneInv
  <2>2. /\ plan.status = "ACTIVE" /\ q.month \in Nat
        /\ q.number = IF Left(plan, rows) = {} THEN Null ELSE Min(Left(plan, rows))
        /\ q.amount = PrincipalOfAll(plan, Left(plan, rows))
    BY <1>3, <1>6, <2>1 DEF StillSo
  <2>3. plan \in Plan /\ RowsFit(plan, rows)
    BY <1>3, <1>6, <2>1, PlansExist DEF Inv, MoneyFits
  <2>4. /\ \A k \in Numbers : k # to.settlement => others[k] = rows[k]
        /\ to.settlement # Null => /\ others[to.settlement] # NoRow
                                   /\ others[to.settlement].amount = PrincipalOfAll(plan, Left(plan, rows))
                                   /\ others[to.settlement].month \in Nat
    BY <1>4, <1>5, <1>6, <1>7, <2>2
  <2>5. RowsFit(to, others)
    BY <1>7, <2>2, <2>3, <2>4, RowsSettled
  <2>6. QED
    BY <1>6, <1>7, <2>5 DEF MoneyFits
<1>9. QED
  BY <1>3, <1>4, <1>7, <1>8, OneWritten

LEMMA UnsettleAlone ==
  ASSUME Inv, AloneInv, UNCHANGED scope, NEW c \in Clients, Unsettle(c)
  PROVE  AloneInv'
<1>1. PICK q : q = requests[c]
  OBVIOUS
<1>2. /\ q.op = "unsettle" /\ requests[c] # Idle /\ Answer(c)
      /\ q.plan \in PlanIds /\ Exists(q.plan)
      /\ plans' = [plans EXCEPT ![q.plan].status = "ACTIVE", ![q.plan].settlement = Null]
      /\ expenses' = IF q.number = Null THEN expenses
                     ELSE [expenses EXCEPT ![q.plan][q.number] = NoRow]
  BY <1>1 DEF Unsettle, Writes, Inv, FitsPlans
<1>3. \A o \in PlanIds : o # q.plan => expenses'[o] = expenses[o]
  BY <1>2 DEF Inv, Typed
<1>4. PICK plan, to, rows, others :
         /\ plan = plans[q.plan] /\ to = plans'[q.plan]
         /\ rows = expenses[q.plan] /\ others = expenses'[q.plan]
  OBVIOUS
<1>5. /\ to \in Plan /\ SameTerms(to, plan) /\ to.status = "ACTIVE" /\ to.settlement = Null
      /\ Exists(q.plan)' /\ \A o \in PlanIds : o # q.plan => plans'[o] = plans[o]
  <2>1. PICK p, status, settlement : p = q.plan /\ status = "ACTIVE" /\ settlement = Null
    OBVIOUS
  <2>2. /\ p \in PlanIds /\ Exists(p) /\ status \in {"ACTIVE", "SETTLED"}
        /\ settlement \in Numbers \union {Null}
        /\ plans' = [plans EXCEPT ![p].status = status, ![p].settlement = settlement]
    BY <1>2, <2>1
  <2>3. /\ plans'[p] \in Plan /\ SameTerms(plans'[p], plans[p])
        /\ plans'[p].status = status /\ plans'[p].settlement = settlement
        /\ Exists(p)' /\ \A o \in PlanIds : o # p => plans'[o] = plans[o]
    BY <2>2, StatusSet
  <2>4. QED
    BY <1>4, <2>1, <2>3
<1>6. ASSUME OneByOne
      PROVE  MoneyFits(q.plan)'
  <2>1. StillSo(q) /\ MoneyFits(q.plan)
    BY <1>1, <1>2, <1>6 DEF AloneInv
  <2>2. q.number = plan.settlement
    BY <1>2, <1>4, <2>1 DEF StillSo
  <2>3. plan \in Plan /\ RowsFit(plan, rows)
    BY <1>2, <1>4, <2>1, PlansExist DEF Inv, MoneyFits
  <2>4. \A k \in Numbers : others[k] = IF k = plan.settlement THEN NoRow ELSE rows[k]
    <3>1. Null \notin Numbers /\ plan.settlement \in Numbers \union {Null}
      BY <2>3, PlanTerms, RowsAssumption
    <3>2. QED
      BY <1>2, <1>4, <2>2, <3>1 DEF Inv, Typed
  <2>5. RowsFit(to, others)
    BY <1>5, <2>3, <2>4, RowsUnsettled
  <2>6. QED
    BY <1>4, <1>5, <2>5 DEF MoneyFits
<1>7. QED
  BY <1>2, <1>3, <1>5, <1>6, OneWritten

\* A plan that is created has no expenses; no request knew of it.
LEMMA CreateAlone ==
  ASSUME Inv, AloneInv, UNCHANGED scope, NEW p \in PlanIds, NEW body \in Plans, Create(p, body)
  PROVE  AloneInv'
<1> SUFFICES ASSUME OneByOne
             PROVE  /\ \A d \in Clients : requests'[d] # Idle =>
                          d \in scope.clients /\ StillSo(requests[d])'
                    /\ \A o \in PlanIds : MoneyFits(o)'
  BY DEF AloneInv, OneByOne
<1>1. /\ ~ Exists(p) /\ body \in Plan /\ body.status = "ACTIVE" /\ body.settlement = Null
      /\ requests' = requests /\ expenses' = expenses
      /\ plans'[p] = body /\ \A o \in PlanIds : o # p => plans'[o] = plans[o]
  BY PlansAssumption DEF Create, Exists, Inv, Typed
<1>2. \A o \in PlanIds : Exists(o) => plans'[o] = plans[o] /\ expenses'[o] = expenses[o]
  BY <1>1
<1>3. ASSUME NEW d \in Clients, requests'[d] # Idle
      PROVE  d \in scope.clients /\ StillSo(requests[d])'
  <2>1. PICK r : r = requests'[d]
    OBVIOUS
  <2>2. d \in scope.clients /\ StillSo(r)
    BY <1>1, <1>3, <2>1 DEF AloneInv
  <2>3. StillSo(r)'
    BY <1>2, <2>2, KnownStays
  <2>4. QED
    BY <2>1, <2>2, <2>3
<1>4. MoneyFits(p)'
  <2>1. PICK rows : rows = expenses[p]
    OBVIOUS
  <2>2. RowsOf(rows) = {}
    BY <1>1, <2>1 DEF AloneInv, MoneyFits
  <2>3. RowsFit(body, rows)
    BY <1>1, <2>2, NoRowsFit
  <2>4. Exists(p)'
    BY <1>1, RowsAssumption DEF Exists
  <2>5. QED
    BY <1>1, <2>1, <2>3, <2>4 DEF MoneyFits
<1>5. ASSUME NEW o \in PlanIds, o # p
      PROVE  MoneyFits(o)'
  BY <1>1, <1>5, MoneyStays DEF AloneInv
<1>6. QED
  BY <1>3, <1>4, <1>5

LEMMA InitAlone == Init => AloneInv
<1> SUFFICES ASSUME Init, OneByOne
             PROVE  /\ \A c \in Clients : requests[c] = Idle
                    /\ \A p \in PlanIds : MoneyFits(p)
  BY DEF AloneInv
<1>1. \A p \in PlanIds : ~ Exists(p) /\ RowsOf(expenses[p]) = {}
  BY DEF Init, Exists, RowsOf
<1>2. QED
  BY <1>1 DEF Init, MoneyFits

\* Nothing but time and requests that fail.
LEMMA NothingWrittenAlone ==
  ASSUME Inv, AloneInv, UNCHANGED <<plans, purchases, expenses, scope>>,
         \A c \in Clients : requests'[c] \in {requests[c], Idle}
  PROVE  AloneInv'
<1> SUFFICES ASSUME OneByOne
             PROVE  /\ \A d \in Clients : requests'[d] # Idle =>
                          d \in scope.clients /\ StillSo(requests[d])'
                    /\ \A p \in PlanIds : MoneyFits(p)'
  BY DEF AloneInv, OneByOne
<1>1. ASSUME NEW d \in Clients, requests'[d] # Idle
      PROVE  d \in scope.clients /\ StillSo(requests[d])'
  <2>1. PICK r : r = requests'[d]
    OBVIOUS
  <2>2. d \in scope.clients /\ StillSo(r)
    BY <1>1, <2>1 DEF AloneInv
  <2>3. StillSo(r)'
    BY <2>2, KnownStays
  <2>4. QED
    BY <2>1, <2>2, <2>3
<1>2. QED
  BY <1>1, MoneyStays DEF AloneInv

LEMMA StepAlone ==
  ASSUME Inv, AloneInv, [Next]_vars
  PROVE  AloneInv'
<1>1. CASE UNCHANGED vars
  BY <1>1, NothingWrittenAlone DEF vars
<1>2. ASSUME Next, Cut
      PROVE  AloneInv'
  BY <1>2, NothingWrittenAlone DEF Next, Cut
<1>3. ASSUME Next, NEW c \in Clients, Fail(c)
      PROVE  AloneInv'
  BY <1>3, NothingWrittenAlone DEF Next, Fail, Answer, Inv, Typed
<1>4. ASSUME Next
      PROVE  /\ scope \in Scopes /\ UNCHANGED scope
             /\ scope.clients \subseteq Clients /\ scope.plans \subseteq Plans
             /\ scope.patches \subseteq Patches
  BY <1>4, ScopesAssumption DEF Next, Inv, Typed
<1>5. ASSUME Next, NEW p \in PlanIds, NEW body \in scope.plans, Create(p, body)
      PROVE  AloneInv'
  BY <1>4, <1>5, CreateAlone
<1>6. ASSUME Next, NEW c \in scope.clients, NEW p \in PlanIds,
             \/ \E patch \in scope.patches : BeginUpdate(c, p, patch)
             \/ BeginRemove(c, p)
             \/ \E k \in Numbers : BeginRecognize(c, p, k) \/ BeginUnrecognize(c, p, k)
             \/ \E month \in Months : BeginSettle(c, p, month)
             \/ BeginUnsettle(c, p)
      PROVE  AloneInv'
  BY <1>4, <1>6, BeginsAlone
<1>7. ASSUME Next, NEW c \in scope.clients, NEW period \in scope.periods,
             BeginRegisterPending(c, period)
      PROVE  AloneInv'
  BY <1>4, <1>7, BeginRegisterPendingAlone
<1>8. ASSUME Next, NEW c \in Clients,
             \/ Update(c) \/ Remove(c) \/ RegisterPending(c) \/ Recognize(c)
             \/ Unrecognize(c) \/ Settle(c) \/ Unsettle(c)
      PROVE  AloneInv'
  BY <1>4, <1>8, UpdateAlone, RemoveAlone, RegisterPendingAlone, RecognizeAlone,
     UnrecognizeAlone, SettleAlone, UnsettleAlone
<1>9. QED
  BY <1>1, <1>2, <1>3, <1>5, <1>6, <1>7, <1>8 DEF Next

-----------------------------------------------------------------------------
(* What plans charge *)

\* Expenses that fit an active plan, and what is left of it, are all of it.
LEMMA ChargedOnce ==
  ASSUME NEW plan \in Plan, NEW rows, DOMAIN rows = Numbers, RowsFit(plan, rows), plan.recognizing
  PROVE  LET charged == InstallmentChargesInRange(plan, rows, Nat)
         IN  IF plan.status = "ACTIVE" THEN charged = TrackedPrincipal(plan)
             ELSE PrincipalOf(plan, plan.count) >= 0 => charged <= TrackedPrincipal(plan)
<1>1. {k \in DOMAIN rows : rows[k] # NoRow /\ rows[k].month \in Nat} = RowsOf(rows)
  BY DEF RowsOf, RowsFit
<1>2. PICK recognized : recognized = RowsOf(rows)
  OBVIOUS
<1>3. AmountOfAll(rows, {k \in DOMAIN rows : rows[k] # NoRow /\ rows[k].month \in Nat})
         = AmountOfAll(rows, recognized)
  BY <1>1, <1>2
<1>4. CASE plan.status = "SETTLED"
  <2>1. \A k \in recognized : rows[k].amount \in Int
    BY <1>2 DEF RowsFit
  <2>2. AmountOfAll(rows, recognized) \in Int
    <3>1. CASE recognized = {}
      <4>1. AmountOfAll(rows, recognized) = PrincipalOfAll(plan, recognized)
        BY <3>1, AmountsAreWorth
      <4>2. {} \in SUBSET Numbers
        OBVIOUS
      <4>3. PrincipalOfAll(plan, {}) \in Int
        BY <4>2, PrincipalOfBoth
      <4>4. QED
        BY <3>1, <4>1, <4>3
    <3>2. CASE recognized # {}
      <4>1. PICK j \in recognized : TRUE
        BY <3>2
      <4>2. recognized \in SUBSET Numbers
        BY <1>2 DEF RowsOf
      <4>3. AmountOfAll(rows, recognized) = rows[j].amount + AmountOfAll(rows, recognized \ {j})
            /\ AmountOfAll(rows, recognized \ {j}) \in Int
        BY <2>1, <4>1, <4>2, AmountOfOne
      <4>4. QED
        BY <2>1, <4>1, <4>3
    <3>3. QED
      BY <3>1, <3>2
  <2>3. InstallmentChargesInRange(plan, rows, Nat) = AmountOfAll(rows, recognized)
    BY <1>3, <1>4, <2>2 DEF InstallmentChargesInRange
  <2>4. QED
    BY <1>2, <1>4, <2>3 DEF RowsFit, Bounded
<1>5. CASE plan.status = "ACTIVE"
  <2>1. PICK left : left = {k \in TrackedOf(plan) : rows[k] = NoRow}
    OBVIOUS
  <2>2. TrackedOf(plan) \in SUBSET Numbers /\ TrackedPrincipal(plan) = PrincipalOfAll(plan, TrackedOf(plan))
    BY TrackedAreNumbers
  <2>3. {k \in Installments(plan) : /\ Tracked(plan, k)
                                    /\ rows[k] = NoRow
                                    /\ DueMonth(plan, k) \in Nat} = left
    <3>1. \A k \in TrackedOf(plan) : DueMonth(plan, k) \in Nat
      <4>1. ASSUME NEW k \in TrackedOf(plan)
            PROVE  DueMonth(plan, k) \in Nat
        <5>1. k \in Nat /\ k >= 1 /\ plan.first \in Nat
          BY <2>2, NumbersAreFinite, PlanTerms
        <5>2. QED
          BY <5>1 DEF DueMonth, StatementMonth
      <4>2. QED
        BY <4>1
    <3>2. QED
      BY <2>1, <3>1 DEF TrackedOf
  <2>4. plan.settlement = Null /\ Null \notin Numbers
    BY <1>5, RowsAssumption DEF RowsFit
  <2>5. AmountOfAll(rows, recognized) = PrincipalOfAll(plan, recognized)
    <3>1. \A k \in recognized : rows[k].amount = PrincipalOf(plan, k)
      BY <1>2, <2>4 DEF RowsFit, RowsOf
    <3>2. QED
      BY <3>1, AmountsAreWorth
  <2>6. /\ TrackedOf(plan) = recognized \union left /\ recognized \intersect left = {}
        /\ recognized \in SUBSET Numbers /\ left \in SUBSET Numbers
    BY <1>2, <2>1, <2>2 DEF RowsOf, RowsFit
  <2>7. PrincipalOfAll(plan, recognized \union left)
           = PrincipalOfAll(plan, recognized) + PrincipalOfAll(plan, left)
    BY <2>6, PrincipalOfBoth
  <2>8. InstallmentChargesInRange(plan, rows, Nat)
           = AmountOfAll(rows, recognized) + PrincipalOfAll(plan, left)
    BY <1>3, <1>5, <2>3 DEF InstallmentChargesInRange
  <2>9. QED
    BY <1>5, <2>2, <2>5, <2>6, <2>7, <2>8
<1>6. QED
  BY <1>4, <1>5, PlanTerms

LEMMA AloneChargesOnce ==
  ASSUME Inv, AloneInv
  PROVE  ChargedOnceOneByOne
<1> SUFFICES ASSUME OneByOne, NEW p \in PlanIds, Recognizing(p)
             PROVE  LET charged == InstallmentChargesInRange(plans[p], expenses[p], Nat)
                    IN  IF plans[p].status = "ACTIVE" THEN charged = TrackedPrincipal(plans[p])
                        ELSE PrincipalOf(plans[p], plans[p].count) >= 0 =>
                                charged <= TrackedPrincipal(plans[p])
  BY DEF ChargedOnceOneByOne, PrincipalChargedOnce
<1>1. /\ plans[p] \in Plan /\ plans[p].recognizing
      /\ RowsFit(plans[p], expenses[p]) /\ DOMAIN expenses[p] = Numbers
  BY PlansExist DEF Recognizing, Inv, Typed, AloneInv, MoneyFits
<1>2. QED
  BY <1>1, ChargedOnce

\* A plan shown as finished has an expense for each installment that is tracked.
LEMMA FinishedHasRows ==
  ASSUME Inv, AloneInv
  PROVE  FinishedIsRecognized
<1> SUFFICES ASSUME OneByOne, NEW p \in PlanIds, Recognizing(p),
                    StatusView(plans[p], expenses[p], now) = "FINISHED"
             PROVE  /\ RecognizedPrincipal(p) = TrackedPrincipal(plans[p])
                    /\ RemainingPrincipal(plans[p], now) = 0
  BY DEF FinishedIsRecognized
<1>1. PICK plan, rows : plan = plans[p] /\ rows = expenses[p]
  OBVIOUS
<1>2. plan \in Plan /\ plan.recognizing /\ RowsFit(plan, rows) /\ Recognized(p) = RowsOf(rows)
  BY <1>1, PlansExist DEF Recognizing, Inv, AloneInv, MoneyFits, Recognized, RowsOf
<1>3. /\ plan.status # "SETTLED"
      /\ \A k \in Installments(plan) :
            Billed(plan, k, now) /\ StateOf(plan, rows, k, now) # "PENDING"
  BY <1>1 DEF StatusView
<1>4. plan.status = "ACTIVE" /\ plan.settlement = Null /\ Null \notin Numbers
  BY <1>2, <1>3, PlanTerms, RowsAssumption DEF RowsFit
<1>5. TrackedOf(plan) \in SUBSET Numbers /\ TrackedPrincipal(plan) = PrincipalOfAll(plan, TrackedOf(plan))
  BY <1>2, TrackedAreNumbers
<1>6. RowsOf(rows) = TrackedOf(plan)
  <2>1. \A k \in TrackedOf(plan) : rows[k] # NoRow
    BY <1>2, <1>3 DEF StateOf, TrackedOf
  <2>2. QED
    BY <1>2, <1>5, <2>1 DEF RowsOf, RowsFit
<1>7. RecognizedPrincipal(p) = TrackedPrincipal(plan)
  <2>1. \A k \in RowsOf(rows) : rows[k].amount = PrincipalOf(plan, k)
    BY <1>2, <1>4 DEF RowsFit, RowsOf
  <2>2. AmountOfAll(rows, RowsOf(rows)) = PrincipalOfAll(plan, RowsOf(rows))
    BY <2>1, AmountsAreWorth
  <2>3. QED
    BY <1>1, <1>2, <1>5, <1>6, <2>2 DEF RecognizedPrincipal
<1>8. RemainingPrincipal(plan, now) = 0
  <2>1. {k \in Installments(plan) : Billed(plan, k, now)} = Installments(plan)
    BY <1>3
  <2>2. PrincipalOfAll(plan, Installments(plan)) = plan.principal /\ plan.principal \in Nat
    BY <1>2, InstallmentsSumToPrincipal, PlanTerms
  <2>3. RemainingPrincipal(plan, now) = plan.principal - PrincipalOfAll(plan, Installments(plan))
    BY <1>3, <2>1 DEF RemainingPrincipal
  <2>4. QED
    BY <2>2, <2>3
<1>9. QED
  BY <1>1, <1>7, <1>8

\* Requests that come one by one, in whatever order, charge every cent of what
\* a plan tracks exactly once to some month while it is active, in expenses
\* and in what is still to be recognized; a settlement charges what is left,
\* and no more than that, unless the last installment is below zero.
THEOREM PrincipalIsChargedOnceOneByOne == Spec => []ChargedOnceOneByOne
<1>1. Inv /\ AloneInv => ChargedOnceOneByOne
  BY AloneChargesOnce
<1>2. QED
  BY <1>1, InitHolds, StepKeeps, InitAlone, StepAlone, PTL DEF Spec

\* A plan shown as finished has charged all of its tracked principal, and there
\* is nothing left of it to bill: getStatusView, which looks at the calendar and
\* the states of the installments, agrees with the money.
THEOREM FinishedIsAlwaysRecognized == Spec => []FinishedIsRecognized
<1>1. Inv /\ AloneInv => FinishedIsRecognized
  BY FinishedHasRows
<1>2. QED
  BY <1>1, InitHolds, StepKeeps, InitAlone, StepAlone, PTL DEF Spec

=============================================================================
