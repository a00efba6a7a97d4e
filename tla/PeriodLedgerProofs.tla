-------------------------- MODULE PeriodLedgerProofs --------------------------
(***************************************************************************)
(* What is proved of PeriodLedger for every value of its constants: its    *)
(* requests do to the rows of transactions and periods what                *)
(* TransactionPeriods says, so that whatever is proved there of every      *)
(* behaviour holds here too.                                               *)
(*                                                                         *)
(* The invariant ties the two halves of a row: a movement has its money,   *)
(* and the kind TransactionPeriods reads is that of its type.              *)
(*                                                                         *)
(* The second half is about PeriodRebuild, whose statements write the same *)
(* rows (db and tx; PeriodLedger's own variables play no part there).      *)
(***************************************************************************)
EXTENDS PeriodLedger, PeriodRebuild, FiniteTheorems, SequenceTheorems, TLAPS

\* What is proved of the rows alone
Proved == INSTANCE TransactionPeriodsProofs

\* The rows of U are those of T, with their kinds.
SameKinds(T, U) ==
    /\ DOMAIN U = DOMAIN T
    /\ \A i \in DOMAIN T : U[i].kind = T[i].kind /\ "kind" \in DOMAIN U[i]

HaveKinds(T) == \A i \in DOMAIN T : "kind" \in DOMAIN T[i]

\* A table of transactions beside a table of money.
Tied(T, M) ==
    /\ HaveKinds(T)
    /\ DOMAIN M = DOMAIN T
    /\ \A i \in DOMAIN T : M[i].type \in Types /\ T[i].kind = Kind(M[i].type)

\* WithMoney of any such table
With(M, i, type, amount) ==
    [j \in DOMAIN M \union {i} |-> IF j = i THEN [type |-> type, amount |-> amount] ELSE M[j]]

Coupled == Tied(txs, money) /\ scope \in Scopes

-----------------------------------------------------------------------------
(* The operators of PeriodSequence, extended and instantiated *)

\* What the proofs about the rows assume of their constants
LEMMA RowsAssumptions ==
  /\ Proved!TxIdsAssumption /\ Proved!InstantsAssumption
  /\ Proved!DayLengthAssumption /\ Proved!KeysAssumption
BY TxIdsAssumption, InstantsAssumption, DayLengthAssumption, KeysAssumption
   DEF Proved!TxIdsAssumption, Proved!InstantsAssumption,
       Proved!DayLengthAssumption, Proved!KeysAssumption

\* PeriodSequence is read three times here, by EXTENDS and behind Rows and
\* Proved; all are one.
LEMMA SameMin ==
  ASSUME NEW S
  PROVE  Rows!Min(S) = Min(S) /\ Proved!Min(S) = Min(S)
BY DEF Rows!Min, Proved!Min, Min

LEMMA SameRange ==
  ASSUME NEW f
  PROVE  Rows!Range(f) = Range(f) /\ Proved!Range(f) = Range(f)
BY DEF Rows!Range, Proved!Range, Range

LEMMA SameStartOfDay ==
  ASSUME NEW date
  PROVE  /\ Rows!StartOfFinancialDay(date) = StartOfFinancialDay(date)
         /\ Proved!StartOfFinancialDay(date) = StartOfFinancialDay(date)
BY DEF Rows!StartOfFinancialDay, Proved!StartOfFinancialDay, StartOfFinancialDay

LEMMA SameAnchors ==
  ASSUME NEW T
  PROVE  /\ Rows!Anchors(T) = Anchors(T)
         /\ Proved!Anchors(T) = Anchors(T)
<1>1. Rows!Anchors(T) = Anchors(T)
  BY SameStartOfDay
     DEF Rows!Anchors, Anchors, Rows!Salaries, Salaries, Rows!IsSalary, IsSalary,
         Rows!SameDay, SameDay, Rows!Precedes, Precedes
<1>2. Proved!Anchors(T) = Anchors(T)
  BY SameStartOfDay
     DEF Proved!Anchors, Anchors, Proved!Salaries, Salaries, Proved!IsSalary, IsSalary,
         Proved!SameDay, SameDay, Proved!Precedes, Precedes
<1>3. QED
  BY <1>1, <1>2

LEMMA SameKeys ==
  ASSUME NEW T, NEW cover
  PROVE  /\ Rows!DesiredKeys(T, cover) = DesiredKeys(T, cover)
         /\ Proved!DesiredKeys(T, cover) = DesiredKeys(T, cover)
<1>1. Rows!NeedsBootstrap(T, cover) = NeedsBootstrap(T, cover)
  BY SameMin, SameStartOfDay, SameAnchors
     DEF Rows!NeedsBootstrap, NeedsBootstrap, Rows!DatesToReach, DatesToReach
<1>2. Proved!NeedsBootstrap(T, cover) = NeedsBootstrap(T, cover)
  BY SameMin, SameStartOfDay, SameAnchors
     DEF Proved!NeedsBootstrap, NeedsBootstrap, Proved!DatesToReach, DatesToReach
<1>3. QED
  BY <1>1, <1>2, SameAnchors DEF Rows!DesiredKeys, Proved!DesiredKeys, DesiredKeys

LEMMA SameDesired ==
  ASSUME NEW T, NEW cover
  PROVE  /\ Rows!DesiredPeriods(T, cover) = DesiredPeriods(T, cover)
         /\ Proved!DesiredPeriods(T, cover) = DesiredPeriods(T, cover)
<1>1. \A k : /\ Rows!DesiredStart(T, cover, k) = DesiredStart(T, cover, k)
             /\ Proved!DesiredStart(T, cover, k) = DesiredStart(T, cover, k)
  BY SameMin, SameStartOfDay
     DEF Rows!DesiredStart, Proved!DesiredStart, DesiredStart,
         Rows!DatesToReach, Proved!DatesToReach, DatesToReach
<1>2. \A starts, s : /\ Rows!NextStart(starts, s) = NextStart(starts, s)
                     /\ Proved!NextStart(starts, s) = NextStart(starts, s)
  BY SameMin DEF Rows!NextStart, Proved!NextStart, NextStart
<1>3. Rows!DesiredPeriods(T, cover) = DesiredPeriods(T, cover)
  BY <1>1, <1>2, SameRange, SameKeys DEF Rows!DesiredPeriods, DesiredPeriods
<1>4. Proved!DesiredPeriods(T, cover) = DesiredPeriods(T, cover)
  BY <1>1, <1>2, SameRange, SameKeys DEF Proved!DesiredPeriods, DesiredPeriods
<1>5. QED
  BY <1>3, <1>4

LEMMA SameCovering ==
  ASSUME NEW P, NEW date
  PROVE  /\ Rows!CoveringKeys(P, date) = CoveringKeys(P, date)
         /\ Proved!CoveringKeys(P, date) = CoveringKeys(P, date)
BY DEF Rows!CoveringKeys, Proved!CoveringKeys, CoveringKeys, Rows!Covers, Proved!Covers, Covers

LEMMA SameTouched ==
  ASSUME NEW P, NEW Q
  PROVE  /\ Rows!TouchedKeys(P, Q) = TouchedKeys(P, Q)
         /\ Proved!TouchedKeys(P, Q) = TouchedKeys(P, Q)
BY DEF Rows!TouchedKeys, Proved!TouchedKeys, TouchedKeys

LEMMA SameBoundary ==
  ASSUME NEW P, NEW Q, NEW from
  PROVE  /\ Rows!Boundary(P, Q, from) = Boundary(P, Q, from)
         /\ Proved!Boundary(P, Q, from) = Boundary(P, Q, from)
BY SameMin, SameStartOfDay, SameTouched DEF Rows!Boundary, Proved!Boundary, Boundary

LEMMA SameRebuild ==
  ASSUME NEW T, NEW P, NEW from, NEW cover
  PROVE  /\ Rows!Rebuild(T, P, from, cover) = Rebuild(T, P, from, cover)
         /\ Proved!Rebuild(T, P, from, cover) = Rebuild(T, P, from, cover)
<1>1. \A Q, boundary : Rows!Reassigned(T, P, Q, boundary) = Reassigned(T, P, Q, boundary)
  BY DEF Rows!Reassigned, Reassigned, Rows!Reassigning, Reassigning,
         Rows!CoveringKeys, CoveringKeys, Rows!Covers, Covers
<1>2. \A Q, boundary : Proved!Reassigned(T, P, Q, boundary) = Reassigned(T, P, Q, boundary)
  BY DEF Proved!Reassigned, Reassigned, Proved!Reassigning, Reassigning,
         Proved!CoveringKeys, CoveringKeys, Proved!Covers, Covers
<1>3. Rows!Rebuild(T, P, from, cover) = Rebuild(T, P, from, cover)
  BY <1>1, SameDesired, SameBoundary DEF Rows!Rebuild, Rebuild, Rows!RebuildTo, RebuildTo
<1>4. Proved!Rebuild(T, P, from, cover) = Rebuild(T, P, from, cover)
  BY <1>2, SameDesired, SameBoundary DEF Proved!Rebuild, Rebuild, Proved!RebuildTo, RebuildTo
<1>5. QED
  BY <1>3, <1>4

LEMMA SamePeriodForDate ==
  ASSUME NEW P, NEW date
  PROVE  /\ Rows!PeriodForDate(P, date) = PeriodForDate(P, date)
         /\ Proved!PeriodForDate(P, date) = PeriodForDate(P, date)
BY SameCovering DEF Rows!PeriodForDate, Proved!PeriodForDate, PeriodForDate

LEMMA SameLocate ==
  ASSUME NEW T, NEW P, NEW date, NEW opens
  PROVE  /\ Rows!Locate(T, P, date, opens) = Locate(T, P, date, opens)
         /\ Proved!Locate(T, P, date, opens) = Locate(T, P, date, opens)
<1>1. Rows!Locate(T, P, date, opens) = Locate(T, P, date, opens)
  BY SameMin, SameRebuild, SamePeriodForDate, SameCovering
     DEF Rows!Locate, Locate, Rows!LocatedIn, LocatedIn
<1>2. Proved!Locate(T, P, date, opens) = Locate(T, P, date, opens)
  BY SameMin, SameRebuild, SamePeriodForDate, SameCovering
     DEF Proved!Locate, Locate, Proved!LocatedIn, LocatedIn
<1>3. QED
  BY <1>1, <1>2

LEMMA SameAssign ==
  ASSUME NEW T, NEW P, NEW i, NEW read
  PROVE  /\ Rows!Assign(T, P, i, read) = Assign(T, P, i, read)
         /\ Proved!Assign(T, P, i, read) = Assign(T, P, i, read)
<1>1. Rows!Assign(T, P, i, read) = Assign(T, P, i, read)
  BY SameLocate DEF Rows!Assign, Assign, Rows!Placed, Placed, Rows!IsSalary, IsSalary
<1>2. Proved!Assign(T, P, i, read) = Assign(T, P, i, read)
  BY SameLocate DEF Proved!Assign, Assign, Proved!Placed, Placed, Proved!IsSalary, IsSalary
<1>3. QED
  BY <1>1, <1>2

\* The requests of TransactionPeriods are those its proofs are about.
LEMMA SameRequests ==
  ASSUME NEW i, NEW date, NEW kind
  PROVE  /\ Rows!AfterInsert(txs, periods, i, date, kind) = Proved!AfterInsert(txs, periods, i, date, kind)
         /\ Rows!AfterEdit(txs, periods, i, date, kind) = Proved!AfterEdit(txs, periods, i, date, kind)
         /\ Rows!AfterDelete(txs, periods, i) = Proved!AfterDelete(txs, periods, i)
<1>1. /\ \A d, e : Rows!Earlier(d, e) = Proved!Earlier(d, e)
      /\ \A T : Rows!Inserted(T, i, date, kind) = Proved!Inserted(T, i, date, kind)
      /\ \A T : Rows!Edited(T, i, date, kind) = Proved!Edited(T, i, date, kind)
      /\ \A T : Rows!Deleted(T, i) = Proved!Deleted(T, i)
      /\ \A row : Rows!IsSalary(row) = Proved!IsSalary(row)
  BY DEF Rows!Earlier, Proved!Earlier, Rows!Inserted, Proved!Inserted, Rows!Edited, Proved!Edited,
         Rows!Deleted, Proved!Deleted, Rows!IsSalary, Proved!IsSalary
<1>2. Rows!AfterInsert(txs, periods, i, date, kind) = Proved!AfterInsert(txs, periods, i, date, kind)
  BY <1>1, SameAssign DEF Rows!AfterInsert, Proved!AfterInsert
<1>3. Rows!AfterEdit(txs, periods, i, date, kind) = Proved!AfterEdit(txs, periods, i, date, kind)
  BY <1>1, SameMin, SameRebuild, SameAssign DEF Rows!AfterEdit, Proved!AfterEdit
<1>4. Rows!AfterDelete(txs, periods, i) = Proved!AfterDelete(txs, periods, i)
  BY <1>1, SameRebuild DEF Rows!AfterDelete, Proved!AfterDelete
<1>5. QED
  BY <1>2, <1>3, <1>4

LEMMA SameSystem ==
  /\ Rows!Init => Proved!Init
  /\ Rows!Next => Proved!Next
<1>1. Rows!Kinds = Proved!Kinds /\ Rows!ApiKinds = Proved!ApiKinds
  BY DEF Rows!Kinds, Proved!Kinds, Rows!ApiKinds, Proved!ApiKinds
<1>2. Rows!Init => Proved!Init
  BY <1>1 DEF Rows!Init, Proved!Init
<1>3. \A result : Rows!Becomes(result) => Proved!Becomes(result)
  BY DEF Rows!Becomes, Proved!Becomes
<1>4. ASSUME NEW i \in TxIds, NEW date \in Instants, NEW kind \in Rows!Kinds,
             Rows!CreateTransaction(i, date, kind) \/ Rows!UpdateTransaction(i, date, kind)
      PROVE  Proved!CreateTransaction(i, date, kind) \/ Proved!UpdateTransaction(i, date, kind)
  BY <1>1, <1>3, <1>4, SameRequests
     DEF Rows!CreateTransaction, Proved!CreateTransaction,
         Rows!UpdateTransaction, Proved!UpdateTransaction
<1>5. ASSUME NEW i \in TxIds, NEW date \in Instants,
             Rows!RecordMovement(i, date) \/ Rows!MoveMovement(i, date)
      PROVE  Proved!RecordMovement(i, date) \/ Proved!MoveMovement(i, date)
  BY <1>3, <1>5, SameRequests
     DEF Rows!RecordMovement, Proved!RecordMovement, Rows!MoveMovement, Proved!MoveMovement
<1>6. ASSUME NEW i \in TxIds, Rows!RemoveTransaction(i) \/ Rows!DropMovement(i)
      PROVE  Proved!RemoveTransaction(i) \/ Proved!DropMovement(i)
  BY <1>3, <1>6, SameRequests
     DEF Rows!RemoveTransaction, Proved!RemoveTransaction, Rows!DropMovement, Proved!DropMovement
<1>7. ASSUME NEW now \in Instants, Rows!GetCurrentPeriod(now)
      PROVE  Proved!GetCurrentPeriod(now)
  BY <1>3, <1>7, SameLocate DEF Rows!GetCurrentPeriod, Proved!GetCurrentPeriod
<1>8. Rows!MigratePeriods => Proved!MigratePeriods
  BY <1>3, SameRebuild DEF Rows!MigratePeriods, Proved!MigratePeriods
<1>9. Rows!Next => Proved!Next
  BY <1>1, <1>4, <1>5, <1>6, <1>7, <1>8 DEF Rows!Next, Proved!Next
<1>10. QED
  BY <1>2, <1>9

-----------------------------------------------------------------------------
(* What keeps the kinds of the rows *)

LEMMA RebuildKeepsKinds ==
  ASSUME NEW T, HaveKinds(T), NEW P, NEW from, NEW cover
  PROVE  SameKinds(T, Rebuild(T, P, from, cover).txs)
<1> DEFINE Q == DesiredPeriods(T, cover)
           boundary == Boundary(P, Q, from)
           U == Reassigned(T, P, Q, boundary)
<1>1. Rebuild(T, P, from, cover).txs = U
  BY DEF Rebuild, RebuildTo
<1> HIDE DEF Q, boundary
<1>2. SameKinds(T, U)
  BY DEF Reassigned, SameKinds, HaveKinds
<1>3. QED
  BY <1>1, <1>2

LEMMA LocateKeepsKinds ==
  ASSUME NEW T, HaveKinds(T), NEW P, NEW date, NEW opens
  PROVE  /\ SameKinds(T, Locate(T, P, date, opens).txs)
         /\ "txs" \in DOMAIN Locate(T, P, date, opens)
<1>1. SameKinds(T, T)
  BY DEF SameKinds, HaveKinds
<1>2. QED
  BY <1>1, RebuildKeepsKinds DEF Locate, LocatedIn

LEMMA AssignKeepsKinds ==
  ASSUME NEW T, HaveKinds(T), NEW P, NEW i, NEW read
  PROVE  SameKinds(T, Assign(T, P, i, read).txs)
<1> DEFINE L == Locate(T, P, T[i].date, IsSalary(T[i]))
<1>1. SameKinds(T, L.txs) /\ "txs" \in DOMAIN L
  BY LocateKeepsKinds
<1>2. Assign(T, P, i, read) = IF read = L.period THEN L ELSE [L EXCEPT !.txs[i].period = L.period]
  BY DEF Assign, Placed
<1> HIDE DEF L
<1>3. CASE read = L.period
  BY <1>1, <1>2, <1>3
<1>4. CASE read # L.period
  <2>1. Assign(T, P, i, read).txs = [L.txs EXCEPT ![i].period = L.period]
    BY <1>1, <1>2, <1>4
  <2>2. SameKinds(T, [L.txs EXCEPT ![i].period = L.period])
    BY <1>1 DEF SameKinds
  <2>3. QED
    BY <2>1, <2>2
<1>5. QED
  BY <1>3, <1>4

\* What the rows are after each kind of write.
LEMMA InsertedKinds ==
  ASSUME NEW T, NEW M, Tied(T, M), NEW P, NEW i, NEW date, NEW type \in Types, NEW amount,
         i \notin DOMAIN T
  PROVE  Tied(Assign(Rows!Inserted(T, i, date, Kind(type)), P, i, Null).txs,
              With(M, i, type, amount))
<1> DEFINE U == Rows!Inserted(T, i, date, Kind(type))
<1>1. Tied(U, With(M, i, type, amount))
  BY DEF Rows!Inserted, Tied, HaveKinds, With
<1> HIDE DEF U
<1>2. SameKinds(U, Assign(U, P, i, Null).txs)
  BY <1>1, AssignKeepsKinds DEF Tied
<1>3. QED
  BY <1>1, <1>2 DEF Tied, SameKinds, HaveKinds, U

LEMMA EditedKinds ==
  ASSUME NEW T, NEW M, Tied(T, M), NEW i \in DOMAIN T, NEW date, NEW type \in Types, NEW amount
  PROVE  Tied(Rows!Edited(T, i, date, Kind(type)), With(M, i, type, amount))
<1> DEFINE V == [T EXCEPT ![i].date = date]
           U == [V EXCEPT ![i].kind = Kind(type)]
<1>1. DOMAIN V = DOMAIN T /\ \A j \in DOMAIN T : V[j].kind = T[j].kind /\ "kind" \in DOMAIN V[j]
  BY DEF Tied, HaveKinds
<1>2. Rows!Edited(T, i, date, Kind(type)) = U
  BY DEF Rows!Edited
<1> HIDE DEF V
<1>3. /\ DOMAIN U = DOMAIN T /\ U[i].kind = Kind(type)
      /\ \A j \in DOMAIN T : "kind" \in DOMAIN U[j] /\ (j # i => U[j].kind = T[j].kind)
  BY <1>1
<1> HIDE DEF U
<1>4. Tied(U, With(M, i, type, amount))
  BY <1>3 DEF Tied, HaveKinds, With
<1>5. QED
  BY <1>2, <1>4

\* AfterEdit rebuilds first when the row was a salary.
LEMMA AfterEditKinds ==
  ASSUME NEW T, NEW M, Tied(T, M), NEW P, NEW i \in DOMAIN T, NEW date, NEW type \in Types,
         NEW amount
  PROVE  Tied(Rows!AfterEdit(T, P, i, date, Kind(type)).txs, With(M, i, type, amount))
<1> DEFINE E == Rows!Edited(T, i, date, Kind(type))
           from == Rows!Earlier(T[i].date, date)
           R == IF Rows!IsSalary(T[i]) THEN Rows!Rebuild(E, P, from, {})
                ELSE [txs |-> E, periods |-> P, boundary |-> from]
           A == Rows!Assign(R.txs, R.periods, i, T[i].period)
<1>1. Rows!AfterEdit(T, P, i, date, Kind(type)).txs = A.txs
  BY DEF Rows!AfterEdit
<1>2. Tied(E, With(M, i, type, amount))
  BY EditedKinds
<1> HIDE DEF E, from
<1>3. SameKinds(E, Rebuild(E, P, from, {}).txs) /\ SameKinds(E, E)
  BY <1>2, RebuildKeepsKinds DEF Tied, SameKinds, HaveKinds
<1>4. SameKinds(E, R.txs)
  BY <1>3, SameRebuild
<1> HIDE DEF R
<1>5. HaveKinds(R.txs)
  BY <1>4 DEF SameKinds, HaveKinds
<1>6. A = Assign(R.txs, R.periods, i, T[i].period)
  BY SameAssign
<1>7. SameKinds(R.txs, A.txs)
  BY <1>5, <1>6, AssignKeepsKinds
<1> HIDE DEF A
<1>8. QED
  BY <1>1, <1>2, <1>4, <1>7 DEF Tied, SameKinds, HaveKinds

LEMMA AfterDeleteKinds ==
  ASSUME NEW T, NEW M, Tied(T, M), NEW P, NEW i
  PROVE  Tied(Rows!AfterDelete(T, P, i).txs, Restrict(M, DOMAIN M \ {i}))
<1> DEFINE D == Rows!Deleted(T, i)
           N == Restrict(M, DOMAIN M \ {i})
           R == IF Rows!IsSalary(T[i]) THEN Rows!Rebuild(D, P, T[i].date, {})
                ELSE [txs |-> D, periods |-> P, boundary |-> T[i].date]
<1>1. Rows!AfterDelete(T, P, i).txs = R.txs
  BY DEF Rows!AfterDelete
<1>2. Tied(D, N)
  BY DEF Rows!Deleted, Restrict, Tied, HaveKinds
<1> HIDE DEF D, N
<1>3. SameKinds(D, Rebuild(D, P, T[i].date, {}).txs) /\ SameKinds(D, D)
  BY <1>2, RebuildKeepsKinds DEF Tied, SameKinds, HaveKinds
<1>4. SameKinds(D, R.txs)
  BY <1>3, SameRebuild
<1> HIDE DEF R
<1>5. Tied(R.txs, N)
  BY <1>2, <1>4 DEF Tied, SameKinds, HaveKinds
<1>6. QED
  BY <1>1, <1>5 DEF N

\* The types of the API are not those of rows that other services manage.
LEMMA KindOfType ==
  ASSUME NEW type \in Types
  PROVE  /\ Kind(type) \in Rows!Kinds
         /\ type \in ApiTypes <=> Kind(type) # "managed"
         /\ type \in ApiTypes => Kind(type) \in Rows!ApiKinds
         /\ type = "transfer" <=> Kind(type) = "transfer"
         /\ type \in {"loan", "purchase", "installment"} <=> Kind(type) = "managed"
         /\ type = "salary" <=> Kind(type) = "salary"
BY TypesAssumption DEF Kind, AllTypes, ApiTypes, Rows!Kinds, Rows!ApiKinds

-----------------------------------------------------------------------------
(* Every request is one of the rows, or changes none of them *)

LEMMA InitRows == Init => Rows!Init /\ Coupled
<1> SUFFICES ASSUME Init PROVE Coupled
  BY DEF Init
<1>1. HaveKinds(txs)
  BY DEF Init, Rows!Init, HaveKinds
<1>2. \A i \in DOMAIN txs : money[i].type \in Types /\ txs[i].kind = Kind(money[i].type)
  BY ScopesAssumption DEF Init
<1>3. QED
  BY <1>1, <1>2 DEF Init, Coupled, Tied

\* What a step does to the rows, and that the two halves stay together.
RowsStep == (Rows!Next \/ UNCHANGED <<txs, periods>>) /\ Coupled'

LEMMA StepOfInsert ==
  ASSUME Coupled, UNCHANGED scope, NEW i \in TxIds, NEW date \in Instants, NEW type \in Types,
         NEW amount, i \notin DOMAIN txs,
         NEW result, result.txs = Assign(Rows!Inserted(txs, i, date, Kind(type)), periods, i, Null).txs,
         result.periods = Assign(Rows!Inserted(txs, i, date, Kind(type)), periods, i, Null).periods,
         Rows!Becomes(result), money' = WithMoney(i, type, amount)
  PROVE  RowsStep
<1>1. Rows!Becomes(Rows!AfterInsert(txs, periods, i, date, Kind(type)))
  BY SameAssign DEF Rows!Becomes, Rows!AfterInsert
<1>2. Coupled'
  <2>1. Tied(Assign(Rows!Inserted(txs, i, date, Kind(type)), periods, i, Null).txs,
             With(money, i, type, amount))
    BY InsertedKinds DEF Coupled
  <2>2. money' = With(money, i, type, amount)
    BY DEF WithMoney, With
  <2>3. Tied(txs', money')
    BY <2>1, <2>2 DEF Rows!Becomes
  <2>4. QED
    BY <2>3 DEF Coupled, Tied, HaveKinds
<1>3. CASE Kind(type) = "managed"
  <2>1. Rows!RecordMovement(i, date)
    BY <1>1, <1>3 DEF Rows!RecordMovement
  <2>2. QED
    BY <1>2, <2>1 DEF RowsStep, Rows!Next
<1>4. CASE Kind(type) # "managed"
  <2>1. Rows!CreateTransaction(i, date, Kind(type)) /\ Kind(type) \in Rows!Kinds
    BY <1>1, <1>4, KindOfType DEF Rows!CreateTransaction
  <2>2. QED
    BY <1>2, <2>1 DEF RowsStep, Rows!Next
<1>5. QED
  BY <1>3, <1>4

LEMMA StepOfEdit ==
  ASSUME Coupled, UNCHANGED scope, NEW i \in TxIds, NEW date \in Instants, NEW type \in Types,
         NEW amount, i \in DOMAIN txs,
         type = "transfer" <=> money[i].type = "transfer",
         type \in ApiTypes <=> money[i].type \in ApiTypes,
         NEW result, result.txs = Rows!AfterEdit(txs, periods, i, date, Kind(type)).txs,
         result.periods = Rows!AfterEdit(txs, periods, i, date, Kind(type)).periods,
         Rows!Becomes(result), money' = WithMoney(i, type, amount)
  PROVE  RowsStep
<1>1. Rows!Becomes(Rows!AfterEdit(txs, periods, i, date, Kind(type)))
  BY DEF Rows!Becomes
<1>2. Coupled'
  <2>1. Tied(Rows!AfterEdit(txs, periods, i, date, Kind(type)).txs, With(money, i, type, amount))
    BY AfterEditKinds DEF Coupled
  <2>2. money' = With(money, i, type, amount)
    BY DEF WithMoney, With
  <2>3. Tied(txs', money')
    BY <2>1, <2>2 DEF Rows!Becomes
  <2>4. QED
    BY <2>3 DEF Coupled, Tied, HaveKinds
<1>3. money[i].type \in Types /\ txs[i].kind = Kind(money[i].type)
  BY DEF Coupled, Tied
<1>4. CASE Kind(type) = "managed"
  <2>1. txs[i].kind = "managed"
    BY <1>3, <1>4, KindOfType
  <2>2. Rows!MoveMovement(i, date)
    BY <1>1, <1>4, <2>1 DEF Rows!MoveMovement
  <2>3. QED
    BY <1>2, <2>2 DEF RowsStep, Rows!Next
<1>5. CASE Kind(type) # "managed"
  <2>1. txs[i].kind # "managed" /\ Kind(type) \in Rows!ApiKinds /\ Kind(type) \in Rows!Kinds
        /\ (Kind(type) = "transfer" <=> txs[i].kind = "transfer")
    BY <1>3, <1>5, KindOfType
  <2>2. Rows!UpdateTransaction(i, date, Kind(type))
    BY <1>1, <2>1 DEF Rows!UpdateTransaction
  <2>3. QED
    BY <1>2, <2>1, <2>2 DEF RowsStep, Rows!Next
<1>6. QED
  BY <1>4, <1>5

LEMMA StepOfDelete ==
  ASSUME Coupled, UNCHANGED scope, NEW i \in TxIds, i \in DOMAIN txs,
         Rows!Becomes(Rows!AfterDelete(txs, periods, i)), money' = WithoutMoney(i)
  PROVE  RowsStep
<1>1. Coupled'
  BY AfterDeleteKinds DEF Coupled, WithoutMoney, Rows!Becomes
<1>2. Rows!RemoveTransaction(i) \/ Rows!DropMovement(i)
  BY DEF Rows!RemoveTransaction, Rows!DropMovement
<1>3. QED
  BY <1>1, <1>2 DEF RowsStep, Rows!Next

\* A step of the ledgers and the contributions alone.
LEMMA StepOfSameRows ==
  ASSUME Coupled, UNCHANGED <<scope, txs, periods, money>>
  PROVE  RowsStep
BY DEF Coupled, RowsStep, Tied, HaveKinds

\* A loan is assigned its period as any movement that has the period it had.
LEMMA AssignIsEdit ==
  ASSUME Coupled, NEW i \in DOMAIN txs, money[i].type = "loan", NEW date
  PROVE  LET A == Assign(Rows!Edited(txs, i, date, "managed"), periods, i, txs[i].period)
             E == Rows!AfterEdit(txs, periods, i, date, Kind("loan"))
         IN  A.txs = E.txs /\ A.periods = E.periods
<1>1. "loan" \in Types /\ txs[i].kind = Kind("loan")
  BY DEF Coupled, Tied
<1>2. Kind("loan") = "managed" /\ ~ Rows!IsSalary(txs[i])
  BY <1>1 DEF Kind, Rows!IsSalary
<1>3. QED
  BY <1>2, SameAssign DEF Rows!AfterEdit

\* The loan's own write, with or without the cascade.
LEMMA LoanWrites ==
  ASSUME NEW T, NEW i, NEW read, NEW M, AssignLoanPeriod(T, i, read, M)
  PROVE  Rows!Becomes(Assign(T, periods, i, read)) /\ money' = M
BY DEF AssignLoanPeriod, RecalculateIfBefore, RecalculateAffected, Recalculate, NoRecalculation

LEMMA NextRows == Coupled /\ [Next]_vars => RowsStep
<1> SUFFICES ASSUME Coupled, [Next]_vars PROVE RowsStep
  OBVIOUS
<1>1. /\ scope \in Scopes /\ scope.types \subseteq Types /\ scope.instants \subseteq Instants
      /\ scope.loanInstants \subseteq Instants
  BY ScopesAssumption DEF Coupled
<1>2. CASE UNCHANGED vars
  BY <1>2, StepOfSameRows DEF vars
<1> SUFFICES ASSUME Next PROVE RowsStep
  BY <1>2
<1>3. UNCHANGED scope
  BY DEF Next
<1>4. ASSUME NEW i \in TxIds, NEW date \in Instants, NEW type \in Types, NEW amount,
             Insert(i, date, type, amount)
      PROVE  RowsStep
  <2>1. /\ i \notin DOMAIN txs /\ money' = WithMoney(i, type, amount)
        /\ Rows!Becomes(Rows!AfterInsert(txs, periods, i, date, Kind(type)))
    BY <1>4 DEF Insert, RecalculateAffected, Recalculate
  <2>2. QED
    BY <1>3, <2>1, SameAssign, StepOfInsert DEF Rows!AfterInsert
<1>5. ASSUME NEW i \in TxIds, NEW date \in Instants, NEW type \in Types, NEW amount,
             i \in DOMAIN txs,
             type = "transfer" <=> money[i].type = "transfer",
             type \in ApiTypes <=> money[i].type \in ApiTypes,
             Edit(i, date, type, amount)
      PROVE  RowsStep
  <2>1. /\ money' = WithMoney(i, type, amount)
        /\ Rows!Becomes(Rows!AfterEdit(txs, periods, i, date, Kind(type)))
    BY <1>5 DEF Edit, RecalculateAffected, Recalculate
  <2>2. QED
    BY <1>3, <1>5, <2>1, StepOfEdit
<1>6. ASSUME NEW i \in TxIds, i \in DOMAIN txs, Delete(i)
      PROVE  RowsStep
  BY <1>3, <1>6, StepOfDelete DEF Delete, RecalculateAffected, Recalculate
<1>7. ASSUME NEW i \in TxIds, NEW date \in scope.instants, NEW type \in scope.types,
             NEW amount \in Amounts,
             \/ CreateTransaction(i, date, type, amount)
             \/ UpdateTransaction(i, date, type, amount)
             \/ RecordPlanMovement(i, date, type, amount)
      PROVE  RowsStep
  <2>1. date \in Instants /\ type \in Types
    BY <1>1
  <2>2. CASE CreateTransaction(i, date, type, amount) \/ RecordPlanMovement(i, date, type, amount)
    BY <1>4, <2>1, <2>2 DEF CreateTransaction, RecordPlanMovement
  <2>3. CASE UpdateTransaction(i, date, type, amount)
    BY <1>5, <2>1, <2>3 DEF UpdateTransaction
  <2>4. QED
    BY <1>7, <2>2, <2>3
<1>8. ASSUME NEW i \in TxIds, NEW date \in scope.loanInstants, NEW amount \in Amounts,
             RecordLoanMovement(i, date, amount)
      PROVE  RowsStep
  <2> DEFINE result == Assign(Rows!Inserted(txs, i, date, "managed"), periods, i, Null)
  <2>1. /\ Rows!Becomes(result) /\ money' = WithMoney(i, "loan", amount)
        /\ i \notin DOMAIN txs /\ "loan" \in Types /\ date \in Instants
    BY <1>1, <1>8, LoanWrites DEF RecordLoanMovement
  <2>2. Kind("loan") = "managed"
    BY DEF Kind
  <2> HIDE DEF result
  <2>3. /\ result.txs = Assign(Rows!Inserted(txs, i, date, Kind("loan")), periods, i, Null).txs
        /\ result.periods = Assign(Rows!Inserted(txs, i, date, Kind("loan")), periods, i, Null).periods
    BY <2>2 DEF result
  <2>4. QED
    BY <1>3, <2>1, <2>3, StepOfInsert
<1>9. ASSUME NEW i \in TxIds, NEW date \in scope.loanInstants, MoveLoan(i, date)
      PROVE  RowsStep
  <2> DEFINE result == Assign(Rows!Edited(txs, i, date, "managed"), periods, i, txs[i].period)
  <2>1. /\ Rows!Becomes(result) /\ money' = money
        /\ i \in DOMAIN txs /\ money[i].type = "loan" /\ date \in Instants
    BY <1>1, <1>9, LoanWrites DEF MoveLoan
  <2>2. "loan" \in Types /\ txs[i].kind = "managed"
    BY <2>1 DEF Coupled, Tied, Kind
  <2>3. Rows!Becomes(Rows!AfterEdit(txs, periods, i, date, "managed"))
    BY <2>1, AssignIsEdit DEF Rows!Becomes, Kind
  <2>4. Tied(txs', money)
    <3>1. HaveKinds(Rows!Edited(txs, i, date, "managed"))
      BY DEF Coupled, Tied, HaveKinds, Rows!Edited
    <3>2. SameKinds(Rows!Edited(txs, i, date, "managed"), result.txs)
      BY <3>1, AssignKeepsKinds
    <3>3. SameKinds(txs, Rows!Edited(txs, i, date, "managed"))
      BY <2>1, <2>2 DEF SameKinds, Coupled, Tied, HaveKinds, Rows!Edited
    <3> HIDE DEF result
    <3>4. QED
      BY <2>1, <3>2, <3>3 DEF Rows!Becomes, SameKinds, HaveKinds, Coupled, Tied
  <2>5. Rows!MoveMovement(i, date)
    BY <2>1, <2>2, <2>3 DEF Rows!MoveMovement
  <2>6. QED
    BY <1>1, <1>3, <2>1, <2>4, <2>5 DEF RowsStep, Rows!Next, Coupled, Tied, HaveKinds
<1>10. ASSUME NEW i \in TxIds, NEW date \in scope.instants, NEW amount \in Amounts,
              MovePurchase(i, date, amount)
      PROVE  RowsStep
  <2>1. /\ i \in DOMAIN txs /\ money[i].type = "purchase" /\ Edit(i, date, "purchase", amount)
        /\ date \in Instants
    BY <1>1, <1>10 DEF MovePurchase
  <2>2. "purchase" \in Types
    BY <2>1 DEF Coupled, Tied
  <2>3. QED
    BY <1>5, <2>1, <2>2
<1>11. ASSUME NEW i \in TxIds, RemoveTransaction(i) \/ DropPlanMovement(i)
      PROVE  RowsStep
  BY <1>6, <1>11 DEF RemoveTransaction, DropPlanMovement
<1>12. ASSUME NEW i \in TxIds, DropLoanMovement(i)
      PROVE  RowsStep
  BY <1>3, <1>12, StepOfDelete DEF DropLoanMovement, NoRecalculation
<1>13. ASSUME NEW M, UNCHANGED money, Rows!Becomes(SameRows)
      PROVE  RowsStep
  BY <1>3, <1>13, StepOfSameRows DEF Rows!Becomes, SameRows
<1>14. ASSUME NEW c \in scope.contributions, NEW goal \in Goals, NEW date \in scope.instants,
              NEW amount \in Amounts, AddContribution(c, goal, date, amount)
      PROVE  RowsStep
  BY <1>13, <1>14 DEF AddContribution, Recalculate
<1>15. ASSUME NEW goal \in Goals, RemoveGoal(goal)
      PROVE  RowsStep
  BY <1>13, <1>15 DEF RemoveGoal, Recalculate
<1>16. ASSUME NEW now \in scope.instants, GetCurrentPeriod(now) \/ ReadCurrentLedger(now)
      PROVE  RowsStep
  <2>1. now \in Instants
    BY <1>1
  <2>2. UNCHANGED money
    BY <1>16 DEF GetCurrentPeriod, ReadCurrentLedger
  <2>3. UNCHANGED <<txs, periods>> \/ Rows!GetCurrentPeriod(now)
    BY <1>16, SameLocate
       DEF GetCurrentPeriod, ReadCurrentLedger, Rows!GetCurrentPeriod, Rows!Becomes
  <2>4. CASE UNCHANGED <<txs, periods>>
    BY <1>3, <2>2, <2>4, StepOfSameRows
  <2>5. CASE Rows!GetCurrentPeriod(now)
    <3>1. txs' = Locate(txs, periods, now, FALSE).txs
      BY <2>5, SameLocate DEF Rows!GetCurrentPeriod, Rows!Becomes
    <3>2. SameKinds(txs, txs')
      BY <3>1, LocateKeepsKinds DEF Coupled, Tied
    <3>3. Tied(txs', money)
      BY <3>2 DEF SameKinds, HaveKinds, Coupled, Tied
    <3>4. QED
      BY <1>3, <2>1, <2>2, <2>5, <3>3 DEF RowsStep, Rows!Next, Coupled, Tied, HaveKinds
  <2>6. QED
    BY <2>3, <2>4, <2>5
<1>17. ASSUME NEW k \in DOMAIN periods, ReadLedger(k) \/ RecalculateFrom(k)
      PROVE  RowsStep
  BY <1>3, <1>13, <1>17, StepOfSameRows DEF ReadLedger, RecalculateFrom, Recalculate
<1>18. CASE MigratePeriods
  <2>1. Rows!Becomes(Rebuild(txs, periods, 0, {})) /\ UNCHANGED money
    BY <1>18 DEF MigratePeriods, Recalculate
  <2>2. Rows!MigratePeriods
    BY <2>1, SameRebuild DEF Rows!MigratePeriods
  <2>3. SameKinds(txs, txs')
    BY <2>1, RebuildKeepsKinds DEF Rows!Becomes, Coupled, Tied
  <2>4. Tied(txs', money)
    BY <2>3 DEF SameKinds, HaveKinds, Coupled, Tied
  <2>5. QED
    BY <1>3, <2>1, <2>2, <2>4 DEF RowsStep, Rows!Next, Coupled, Tied, HaveKinds
<1>19. QED
  BY <1>7, <1>8, <1>9, <1>10, <1>11, <1>12, <1>14, <1>15, <1>16, <1>17, <1>18 DEF Next

\* The rows of transactions and periods behave as TransactionPeriods says, whatever
\* is done to the ledgers and the contributions.
THEOREM RowsAreTransactionPeriods == Spec => RowsSpec
<1>1. Coupled /\ [Next]_vars => [Rows!Next]_(Rows!vars) /\ Coupled'
  BY NextRows DEF RowsStep, Rows!vars
<1>2. QED
  BY <1>1, InitRows, PTL DEF Spec, RowsSpec, Rows!Spec

-----------------------------------------------------------------------------
(* Tables and what is summed of them *)

\* The four tables as every request leaves them.
Tables(T, P, M, C) ==
    /\ Proved!Consistent(T, P)
    /\ Tied(T, M)
    /\ \A i \in DOMAIN T : M[i].amount \in Amounts
    /\ DOMAIN C \subseteq ContributionIds
    /\ \A c \in DOMAIN C : C[c].date \in Instants /\ C[c].amount \in Amounts

\* The periods up to one of them, and the running balance at its end.
UpTo(P, k) == {j \in DOMAIN P : P[j].start <= P[k].start}

Nets(T, P, M, C) == [j \in DOMAIN P |-> Net(T, P, M, C, j)]

Balance(T, P, M, C, k) == SumFunctionOnSet(Nets(T, P, M, C), UpTo(P, k))

\* The ledgers hold what a reader would sum now.
UpToDate(T, P, M, C, L) ==
    /\ DOMAIN L \subseteq DOMAIN P
    /\ \A k \in DOMAIN L :
          /\ L[k].income = Income(T, M, k)
          /\ L[k].expenses = Expenses(T, M, k)
          /\ L[k].savings = Savings(P, C, k)
          /\ L[k].closing = Balance(T, P, M, C, k)

\* The rows have their types, and are finitely many.
LEMMA RowsOfTables ==
  ASSUME NEW T, NEW P, NEW M, NEW C, Tables(T, P, M, C)
  PROVE  /\ IsFiniteSet(DOMAIN T) /\ DOMAIN T \subseteq TxIds
         /\ IsFiniteSet(DOMAIN P) /\ IsFiniteSet(DOMAIN C)
         /\ \A i \in DOMAIN T : T[i].date \in Nat /\ M[i].amount \in Nat
         /\ \A k \in DOMAIN P : P[k].start \in Nat /\ P[k].end \in Nat \union {Null}
         /\ \A c \in DOMAIN C : C[c].date \in Nat /\ C[c].amount \in Nat
<1>1. /\ DOMAIN T \subseteq TxIds /\ \A i \in DOMAIN T : T[i].date \in Instants
      /\ DOMAIN P \subseteq TxIds \union {Bootstrap}
      /\ \A k \in DOMAIN P : P[k].start \in Nat /\ P[k].end \in Nat \union {Null}
  BY DEF Tables, Proved!Consistent, Proved!IsTable, Proved!Transaction,
         Proved!IsSequence, Proved!Period, Proved!Keys
<1>2. IsFiniteSet(DOMAIN T) /\ IsFiniteSet(DOMAIN C)
  BY <1>1, IdsAssumption, FS_Subset DEF Tables
<1>3. IsFiniteSet(DOMAIN P)
  <2>1. IsFiniteSet(TxIds \union {Bootstrap})
    BY IdsAssumption, FS_AddElement
  <2>2. QED
    BY <1>1, <2>1, FS_Subset
<1>4. QED
  BY <1>1, <1>2, <1>3, InstantsAssumption, AmountsAssumption DEF Tables

\* No two periods cover a date or start together; each ends before a later one.
LEMMA PeriodsOfTables ==
  ASSUME NEW T, NEW P, NEW M, NEW C, Tables(T, P, M, C), NEW j \in DOMAIN P, NEW k \in DOMAIN P
  PROVE  /\ P[j].start = P[k].start => j = k
         /\ \A date \in Nat : Covers(P[j], date) /\ Covers(P[k], date) => j = k
         /\ P[j].start < P[k].start => P[j].end # Null /\ P[j].end <= P[k].start
         /\ P[j].end # Null => P[j].start < P[j].end
<1>1. Proved!IsSequence(P) /\ Proved!Partition(P)
  BY DEF Tables, Proved!Consistent
<1>2. P[j].start = P[k].start => j = k
  BY <1>1 DEF Proved!Partition
<1>3. ASSUME NEW date \in Nat, Covers(P[j], date), Covers(P[k], date)
      PROVE  j = k
  <2>1. j \in Proved!CoveringKeys(P, date) /\ k \in Proved!CoveringKeys(P, date)
    BY <1>3 DEF Proved!CoveringKeys, Proved!Covers, Covers
  <2>2. QED
    BY <1>1, <2>1, RowsAssumptions, Proved!CoveredOnce
<1> DEFINE starts == {P[i].start : i \in DOMAIN P}
<1>4. P[j].end = Proved!NextStart(starts, P[j].start)
  BY <1>1 DEF Proved!Partition
<1>5. P[j].start \in Nat /\ starts \in SUBSET Nat /\ P[k].start \in starts
  BY RowsOfTables
<1> HIDE DEF starts
<1>6. /\ P[j].end = Null => \A n \in starts : n <= P[j].start
      /\ P[j].end # Null => /\ P[j].start < P[j].end
                            /\ \A n \in starts : P[j].start < n => P[j].end <= n
  BY <1>4, <1>5, RowsAssumptions, Proved!NextStartIsNext
<1>7. P[k].start \in Nat
  BY RowsOfTables
<1>8. QED
  BY <1>2, <1>3, <1>5, <1>6, <1>7

\* A transaction is of the period that covers its date, and of no other.
LEMMA PeriodByDate ==
  ASSUME NEW T, NEW P, NEW M, NEW C, Tables(T, P, M, C), NEW i \in DOMAIN T
  PROVE  /\ DOMAIN P # {} => T[i].period \in DOMAIN P /\ Covers(P[T[i].period], T[i].date)
         /\ \A k \in DOMAIN P : T[i].period = k <=> Covers(P[k], T[i].date)
<1>1. DOMAIN P # {} => T[i].period \in DOMAIN P /\ Covers(P[T[i].period], T[i].date)
  BY DEF Tables, Proved!Consistent, Proved!InItsPeriod, Proved!Covers, Covers
<1>2. T[i].date \in Nat
  BY RowsOfTables
<1>3. QED
  BY <1>1, <1>2, PeriodsOfTables

\* A total is a sum of integers.
LEMMA TotalIsSum ==
  ASSUME NEW table, NEW ids, IsFiniteSet(ids), \A i \in ids : table[i].amount \in Nat
  PROVE  /\ Total(table, ids) = SumFunctionOnSet([i \in ids |-> table[i].amount], ids)
         /\ Total(table, ids) \in Int
<1> DEFINE f == [i \in ids |-> table[i].amount]
<1>1. Total(table, ids) = SumFunctionOnSet(f, ids)
  BY SumOfTable DEF Total
<1>2. \A i \in ids : f[i] \in Int
  OBVIOUS
<1> HIDE DEF f
<1>3. SumFunctionOnSet(f, ids) \in Int
  BY <1>2, SumIsInt
<1>4. QED
  BY <1>1, <1>3 DEF f

\* The same rows have the same total.
LEMMA SameTotal ==
  ASSUME NEW table, NEW other, NEW ids, \A i \in ids : other[i].amount = table[i].amount
  PROVE  Total(other, ids) = Total(table, ids)
<1>1. [i \in ids |-> other[i].amount] = [i \in ids |-> table[i].amount]
  OBVIOUS
<1>2. QED
  BY <1>1 DEF Total

\* What a period sums are integers.
LEMMA SumsOfPeriods ==
  ASSUME NEW T, NEW P, NEW M, NEW C, Tables(T, P, M, C), NEW k
  PROVE  /\ Income(T, M, k) \in Int /\ Expenses(T, M, k) \in Int /\ Savings(P, C, k) \in Int
         /\ Net(T, P, M, C, k) \in Int
<1>1. Income(T, M, k) \in Int
  <2> DEFINE ids == {i \in DOMAIN T : T[i].period = k /\ M[i].type \in IncomeTypes}
  <2>1. IsFiniteSet(ids) /\ \A i \in ids : M[i].amount \in Nat
    BY RowsOfTables, FS_Subset
  <2> HIDE DEF ids
  <2>2. Total(M, ids) \in Int
    BY <2>1, TotalIsSum
  <2>3. QED
    BY <2>2 DEF Income, ids
<1>2. Expenses(T, M, k) \in Int
  <2> DEFINE ids == {i \in DOMAIN T : T[i].period = k /\ M[i].type \in EXPENSE_TYPES}
  <2>1. IsFiniteSet(ids) /\ \A i \in ids : M[i].amount \in Nat
    BY RowsOfTables, FS_Subset
  <2> HIDE DEF ids
  <2>2. Total(M, ids) \in Int
    BY <2>1, TotalIsSum
  <2>3. QED
    BY <2>2 DEF Expenses, ids
<1>3. Savings(P, C, k) \in Int
  <2> DEFINE ids == {c \in DOMAIN C : Covers(P[k], C[c].date)}
  <2>1. IsFiniteSet(ids) /\ \A c \in ids : C[c].amount \in Nat
    BY RowsOfTables, FS_Subset
  <2> HIDE DEF ids
  <2>2. Total(C, ids) \in Int
    BY <2>1, TotalIsSum
  <2>3. QED
    BY <2>2 DEF Savings, ids
<1>4. QED
  BY <1>1, <1>2, <1>3 DEF Net

-----------------------------------------------------------------------------
(* What a step leaves alone before a date *)

SamePeriods(P, Q, from) ==
    \A k : (k \in DOMAIN P /\ P[k].start < from) \/ (k \in DOMAIN Q /\ Q[k].start < from)
             => k \in DOMAIN P /\ k \in DOMAIN Q /\ Q[k] = P[k]

\* Loans, purchases, savings and transfers are in no sum.
Summed(row) == row.type \in IncomeTypes \union EXPENSE_TYPES

SameMovements(T, M, U, N, from) ==
    \A i : (\/ i \in DOMAIN T /\ Summed(M[i]) /\ T[i].date < from
            \/ i \in DOMAIN U /\ Summed(N[i]) /\ U[i].date < from)
              => i \in DOMAIN T /\ i \in DOMAIN U /\ U[i].date = T[i].date /\ N[i] = M[i]

SameContributions(C, D, from) ==
    \A c : (c \in DOMAIN C /\ C[c].date < from) \/ (c \in DOMAIN D /\ D[c].date < from)
             => c \in DOMAIN C /\ c \in DOMAIN D /\ D[c] = C[c]

\* A period that ends by then sums what it summed.
LEMMA SumsStay ==
  ASSUME NEW T, NEW P, NEW M, NEW C, Tables(T, P, M, C),
         NEW U, NEW Q, NEW N, NEW D, Tables(U, Q, N, D),
         NEW from \in Nat, SamePeriods(P, Q, from), SameMovements(T, M, U, N, from),
         SameContributions(C, D, from),
         NEW k \in DOMAIN Q, Q[k].end # Null, Q[k].end <= from
  PROVE  /\ k \in DOMAIN P /\ Q[k] = P[k]
         /\ Income(U, N, k) = Income(T, M, k)
         /\ Expenses(U, N, k) = Expenses(T, M, k)
         /\ Savings(Q, D, k) = Savings(P, C, k)
         /\ Net(U, Q, N, D, k) = Net(T, P, M, C, k)
<1>1. Q[k].start \in Nat /\ Q[k].end \in Nat /\ Q[k].start < Q[k].end
  BY RowsOfTables, PeriodsOfTables
<1>2. k \in DOMAIN P /\ Q[k] = P[k]
  BY <1>1 DEF SamePeriods
<1>3. \A date \in Nat : Covers(Q[k], date) => date < from
  BY <1>1 DEF Covers
<1>4. \A i : (\/ i \in DOMAIN T /\ T[i].period = k /\ Summed(M[i])
              \/ i \in DOMAIN U /\ U[i].period = k /\ Summed(N[i]))
         => i \in DOMAIN T /\ i \in DOMAIN U /\ T[i].period = k /\ U[i].period = k /\ N[i] = M[i]
  <2> TAKE i
  <2>1. /\ i \in DOMAIN T => T[i].date \in Nat /\ (T[i].period = k <=> Covers(Q[k], T[i].date))
        /\ i \in DOMAIN U => U[i].date \in Nat /\ (U[i].period = k <=> Covers(Q[k], U[i].date))
    BY <1>2, RowsOfTables, PeriodByDate
  <2>2. /\ i \in DOMAIN T /\ T[i].period = k => T[i].date < from
        /\ i \in DOMAIN U /\ U[i].period = k => U[i].date < from
    BY <1>3, <2>1
  <2>3. (\/ i \in DOMAIN T /\ Summed(M[i]) /\ T[i].date < from
         \/ i \in DOMAIN U /\ Summed(N[i]) /\ U[i].date < from)
        => i \in DOMAIN T /\ i \in DOMAIN U /\ U[i].date = T[i].date /\ N[i] = M[i]
    BY DEF SameMovements
  <2>4. QED
    BY <2>1, <2>2, <2>3
<1>5. Income(U, N, k) = Income(T, M, k)
  <2> DEFINE ids == {i \in DOMAIN T : T[i].period = k /\ M[i].type \in IncomeTypes}
  <2>1. {i \in DOMAIN U : U[i].period = k /\ N[i].type \in IncomeTypes} = ids
    BY <1>4 DEF Summed
  <2>2. \A i \in ids : N[i].amount = M[i].amount
    BY <1>4 DEF Summed
  <2> HIDE DEF ids
  <2>3. Total(N, ids) = Total(M, ids)
    BY <2>2, SameTotal
  <2>4. QED
    BY <2>1, <2>3 DEF Income, ids
<1>6. Expenses(U, N, k) = Expenses(T, M, k)
  <2> DEFINE ids == {i \in DOMAIN T : T[i].period = k /\ M[i].type \in EXPENSE_TYPES}
  <2>1. {i \in DOMAIN U : U[i].period = k /\ N[i].type \in EXPENSE_TYPES} = ids
    BY <1>4 DEF Summed
  <2>2. \A i \in ids : N[i].amount = M[i].amount
    BY <1>4 DEF Summed
  <2> HIDE DEF ids
  <2>3. Total(N, ids) = Total(M, ids)
    BY <2>2, SameTotal
  <2>4. QED
    BY <2>1, <2>3 DEF Expenses, ids
<1>7. Savings(Q, D, k) = Savings(P, C, k)
  <2> DEFINE ids == {c \in DOMAIN C : Covers(P[k], C[c].date)}
  <2>1. /\ \A c \in DOMAIN C : C[c].date \in Nat
        /\ \A c \in DOMAIN D : D[c].date \in Nat
    BY RowsOfTables
  <2>2. {c \in DOMAIN D : Covers(Q[k], D[c].date)} = ids /\ \A c \in ids : D[c] = C[c]
    BY <1>2, <1>3, <2>1 DEF SameContributions
  <2>3. Total(D, ids) = Total(C, ids)
    BY <2>2, SameTotal
  <2>4. QED
    BY <2>2, <2>3 DEF Savings
<1>8. QED
  BY <1>2, <1>5, <1>6, <1>7 DEF Net

\* ... and has the running balance it had.
LEMMA BalanceStays ==
  ASSUME NEW T, NEW P, NEW M, NEW C, Tables(T, P, M, C),
         NEW U, NEW Q, NEW N, NEW D, Tables(U, Q, N, D),
         NEW from \in Nat, SamePeriods(P, Q, from), SameMovements(T, M, U, N, from),
         SameContributions(C, D, from),
         NEW k \in DOMAIN Q, Q[k].end # Null, Q[k].end <= from
  PROVE  Balance(U, Q, N, D, k) = Balance(T, P, M, C, k)
<1>1. Q[k].start \in Nat /\ Q[k].end \in Nat /\ Q[k].start < from /\ k \in DOMAIN P /\ Q[k] = P[k]
  BY RowsOfTables, PeriodsOfTables, SumsStay
<1>2. UpTo(Q, k) = UpTo(P, k)
  <2>1. /\ \A j \in DOMAIN P : P[j].start \in Nat
        /\ \A j \in DOMAIN Q : Q[j].start \in Nat
    BY RowsOfTables
  <2>2. QED
    BY <1>1, <2>1 DEF UpTo, SamePeriods
<1>3. ASSUME NEW j \in UpTo(Q, k)
      PROVE  Nets(U, Q, N, D)[j] = Nets(T, P, M, C)[j]
  <2>1. j \in DOMAIN Q /\ Q[j].start <= Q[k].start /\ Q[j].start \in Nat
    BY RowsOfTables DEF UpTo
  <2>2. Q[j].end # Null /\ Q[j].end <= from
    <3>1. CASE Q[j].start = Q[k].start
      BY <2>1, <3>1, PeriodsOfTables
    <3>2. CASE Q[j].start < Q[k].start
      <4>1. Q[j].end # Null /\ Q[j].end <= Q[k].start
        BY <2>1, <3>2, PeriodsOfTables
      <4>2. Q[j].end \in Nat
        BY <2>1, <4>1, RowsOfTables
      <4>3. QED
        BY <1>1, <4>1, <4>2
    <3>3. QED
      BY <1>1, <2>1, <3>1, <3>2
  <2>3. j \in DOMAIN P /\ Net(U, Q, N, D, j) = Net(T, P, M, C, j)
    BY <2>1, <2>2, SumsStay
  <2>4. QED
    BY <2>1, <2>3 DEF Nets
<1>4. IsFiniteSet(UpTo(Q, k))
  BY RowsOfTables, FS_Subset DEF UpTo
<1>5. SumFunctionOnSet(Nets(U, Q, N, D), UpTo(Q, k)) = SumFunctionOnSet(Nets(T, P, M, C), UpTo(Q, k))
  BY <1>3, <1>4, SameSum
<1>6. QED
  BY <1>2, <1>5 DEF Balance

-----------------------------------------------------------------------------
(* The cascade *)

\* The period the cascade reaches first starts by `from`, or is the first.
LEMMA ReachedByThen ==
  ASSUME NEW U, NEW Q, NEW N, NEW D, Tables(U, Q, N, D), NEW from \in Nat, DOMAIN Q # {}
  PROVE  /\ \E m \in DOMAIN Q : Q[m].start = FirstReached(Q, from)
         /\ \A k \in DOMAIN Q : Q[k].start < FirstReached(Q, from) => FirstReached(Q, from) <= from
<1> DEFINE reached == {k \in DOMAIN Q : Q[k].start <= from}
<1>1. CASE reached = {}
  <2> DEFINE starts == StartsOf(Q, DOMAIN Q)
  <2>1. starts \in SUBSET Nat /\ starts # {}
    BY RowsOfTables DEF StartsOf
  <2>2. Min(starts) \in starts /\ \A n \in starts : Min(starts) <= n
    <3> HIDE DEF starts
    <3>1. QED
      BY <2>1, RowsAssumptions, SameMin, Proved!MinIsLeast
  <2>3. FirstReached(Q, from) = Min(starts)
    BY <1>1 DEF FirstReached
  <2>4. \A k \in DOMAIN Q : Q[k].start \in starts /\ Q[k].start \in Nat
    BY RowsOfTables DEF StartsOf
  <2>5. \E m \in DOMAIN Q : Q[m].start = Min(starts)
    BY <2>2 DEF StartsOf
  <2> HIDE DEF starts
  <2>6. Min(starts) \in Nat
    BY <2>1, <2>2
  <2>7. QED
    BY <2>2, <2>3, <2>4, <2>5, <2>6
<1>2. CASE reached # {}
  <2>1. IsFiniteSet(reached) /\ \A k \in DOMAIN Q : Q[k].start \in Nat
    BY RowsOfTables, FS_Subset
  <2>2. PICK m \in reached : \A k \in reached : Q[k].start <= Q[m].start
    <3> HIDE DEF reached
    <3>1. QED
      BY <1>2, <2>1, LatestExists DEF reached
  <2>3. FirstReached(Q, from) = Q[m].start
    <3> DEFINE starts == StartsOf(Q, reached)
    <3>1. FirstReached(Q, from) = Max(starts)
      BY <1>2 DEF FirstReached
    <3>2. Q[m].start \in starts /\ \A n \in starts : n \in Nat /\ n <= Q[m].start
      BY <2>1, <2>2 DEF StartsOf
    <3> HIDE DEF starts
    <3>3. Max(starts) \in starts /\ \A n \in starts : Max(starts) >= n
      BY <3>2 DEF Max
    <3>4. QED
      BY <3>1, <3>2, <3>3
  <2>4. QED
    BY <2>1, <2>2, <2>3
<1>3. QED
  BY <1>1, <1>2

\* What the cascade keeps are the periods up to one that has a ledger, all of
\* them over by `from`.
LEMMA KeptAreOver ==
  ASSUME NEW U, NEW Q, NEW N, NEW D, Tables(U, Q, N, D), NEW from \in Nat, NEW L
  PROVE  LET kept == KeptLedgers(Q, L, from)
             last == CHOOSE k \in kept : \A j \in kept : Q[j].start <= Q[k].start
         IN  /\ kept \subseteq DOMAIN Q
             /\ \A k \in kept : Q[k].end # Null /\ Q[k].end <= from
             /\ \A k \in kept : UpTo(Q, k) \subseteq kept
             /\ kept # {} => last \in kept /\ last \in DOMAIN L /\ UpTo(Q, last) = kept
<1> DEFINE kept == KeptLedgers(Q, L, from)
           first == FirstReached(Q, from)
           last == CHOOSE k \in kept : \A j \in kept : Q[j].start <= Q[k].start
<1>1. kept \subseteq DOMAIN Q
  BY DEF KeptLedgers
<1>2. \A k \in DOMAIN Q : Q[k].start \in Nat /\ Q[k].end \in Nat \union {Null}
  BY RowsOfTables
<1>3. \A k \in kept : \E j \in DOMAIN Q \intersect DOMAIN L :
         Q[k].start <= Q[j].start /\ Q[j].start < first
  BY DEF KeptLedgers
<1>4. \A k \in DOMAIN Q, j \in DOMAIN Q \intersect DOMAIN L :
         Q[k].start <= Q[j].start /\ Q[j].start < first => k \in kept
  BY DEF KeptLedgers
<1>5. DOMAIN Q # {} => /\ \E m \in DOMAIN Q : Q[m].start = first
                       /\ \A k \in DOMAIN Q : Q[k].start < first => first <= from
  BY ReachedByThen
<1> HIDE DEF kept, first
<1>6. ASSUME NEW k \in kept
      PROVE  Q[k].end # Null /\ Q[k].end <= from
  <2>1. PICK m \in DOMAIN Q : Q[m].start = first
    BY <1>1, <1>5
  <2>2. Q[k].start < Q[m].start
    BY <1>1, <1>2, <1>3, <2>1
  <2>3. Q[k].end # Null /\ Q[k].end <= Q[m].start
    BY <1>1, <2>2, PeriodsOfTables
  <2>4. first <= from
    BY <1>1, <1>5, <2>1, <2>2
  <2>5. QED
    BY <1>1, <1>2, <2>1, <2>3, <2>4
<1>7. ASSUME NEW k \in kept
      PROVE  UpTo(Q, k) \subseteq kept
  <2>1. PICK j \in DOMAIN Q \intersect DOMAIN L : Q[k].start <= Q[j].start /\ Q[j].start < first
    BY <1>3
  <2>2. ASSUME NEW i \in UpTo(Q, k)
        PROVE  i \in kept
    <3>1. i \in DOMAIN Q /\ Q[i].start <= Q[k].start
      BY DEF UpTo
    <3>2. Q[i].start <= Q[j].start
      BY <1>1, <1>2, <2>1, <3>1
    <3>3. QED
      BY <1>4, <2>1, <3>1, <3>2
  <2>3. QED
    BY <2>2
<1>8. ASSUME kept # {}
      PROVE  last \in kept /\ last \in DOMAIN L /\ UpTo(Q, last) = kept
  <2>1. IsFiniteSet(kept)
    BY <1>1, RowsOfTables, FS_Subset
  <2>5. \E k \in kept : \A j \in kept : Q[j].start <= Q[k].start
    BY <1>1, <1>2, <1>8, <2>1, LatestExists
  <2>6. last \in kept /\ \A j \in kept : Q[j].start <= Q[last].start
    BY <2>5
  <2> HIDE DEF last
  <2>7. PICK j \in DOMAIN Q \intersect DOMAIN L : Q[last].start <= Q[j].start /\ Q[j].start < first
    BY <1>3, <2>6
  <2>8. j \in kept
    BY <1>2, <1>4, <2>7
  <2>9. Q[j].start = Q[last].start
    BY <1>1, <1>2, <2>6, <2>7, <2>8
  <2>10. j = last
    BY <1>1, <2>6, <2>9, PeriodsOfTables
  <2>11. UpTo(Q, last) = kept
    <3>1. UpTo(Q, last) \subseteq kept
      BY <1>7, <2>6
    <3>2. kept \subseteq UpTo(Q, last)
      BY <1>1, <2>6 DEF UpTo
    <3>3. QED
      BY <3>1, <3>2
  <2>12. QED
    BY <2>6, <2>7, <2>10, <2>11
<1>9. QED
  BY <1>1, <1>6, <1>7, <1>8 DEF kept

\* Of the ledgers of S, that were up to date, the cascade leaves ledgers that are,
\* when nothing changed before `from` or there is none.
LEMMA CascadeIsUpToDate ==
  ASSUME NEW T, NEW P, NEW M, NEW C, Tables(T, P, M, C),
         NEW L, UpToDate(T, P, M, C, L),
         NEW U, NEW Q, NEW N, NEW D, Tables(U, Q, N, D), NEW from \in Nat,
         NEW S, DOMAIN S \subseteq DOMAIN L \intersect DOMAIN Q, \A k \in DOMAIN S : S[k] = L[k],
         DOMAIN L = {} \/ /\ SamePeriods(P, Q, from)
                          /\ SameMovements(T, M, U, N, from)
                          /\ SameContributions(C, D, from)
  PROVE  UpToDate(U, Q, N, D, Cascade(U, Q, N, D, S, from))
<1> DEFINE kept == KeptLedgers(Q, S, from)
           last == CHOOSE k \in kept : \A j \in kept : Q[j].start <= Q[k].start
           f == Nets(U, Q, N, D)
           net == [k \in DOMAIN Q \ kept |-> Net(U, Q, N, D, k)]
           base == BaseBalance(Q, S, kept)
           computed == Recomputed(U, Q, N, D, net, base)
           result == Cascade(U, Q, N, D, S, from)
<1>1. DOMAIN S \subseteq DOMAIN L \intersect DOMAIN Q /\ \A k \in DOMAIN S : S[k] = L[k]
  OBVIOUS
<1>2. /\ kept \subseteq DOMAIN Q
      /\ \A k \in kept : Q[k].end # Null /\ Q[k].end <= from
      /\ \A k \in kept : UpTo(Q, k) \subseteq kept
      /\ kept # {} => last \in kept /\ last \in DOMAIN S /\ UpTo(Q, last) = kept
  BY KeptAreOver
<1>3. result = [k \in (DOMAIN Q \ kept) \union (kept \intersect DOMAIN S) |->
                   IF k \in kept THEN S[k] ELSE computed[k]]
  BY DEF Cascade, CascadeAfter
<1>4. /\ DOMAIN computed = DOMAIN Q \ kept
      /\ \A k \in DOMAIN Q \ kept :
           computed[k] = [opening  |-> Opening(Q, net, base, k),
                          income   |-> Income(U, N, k),
                          expenses |-> Expenses(U, N, k),
                          savings  |-> Savings(Q, D, k),
                          closing  |-> Opening(Q, net, base, k) + net[k]]
  BY DEF Recomputed
<1>6. base = IF kept = {} THEN 0 ELSE S[last].closing
  BY DEF BaseBalance
<1>7. \A k \in DOMAIN Q : f[k] \in Int /\ f[k] = Net(U, Q, N, D, k)
  BY SumsOfPeriods DEF Nets
<1>8. IsFiniteSet(DOMAIN Q) /\ \A k \in DOMAIN Q : Q[k].start \in Nat
  BY RowsOfTables
<1>9. \A k \in DOMAIN Q \ kept : net[k] = f[k]
  BY <1>7
<1>10. DOMAIN net = DOMAIN Q \ kept
  OBVIOUS
<1> HIDE DEF kept, last, f, net, base, computed, result
<1>11. ASSUME NEW k \in kept \intersect DOMAIN S
       PROVE  /\ L[k].income = Income(U, N, k)
              /\ L[k].expenses = Expenses(U, N, k)
              /\ L[k].savings = Savings(Q, D, k)
              /\ L[k].closing = Balance(U, Q, N, D, k)
  <2>1. k \in DOMAIN L /\ k \in DOMAIN Q /\ Q[k].end # Null /\ Q[k].end <= from
    BY <1>1, <1>2
  <2>2. /\ SamePeriods(P, Q, from) /\ SameMovements(T, M, U, N, from)
        /\ SameContributions(C, D, from)
    BY <2>1
  <2>3. /\ Income(U, N, k) = Income(T, M, k)
        /\ Expenses(U, N, k) = Expenses(T, M, k)
        /\ Savings(Q, D, k) = Savings(P, C, k)
    BY <2>1, <2>2, SumsStay
  <2>4. Balance(U, Q, N, D, k) = Balance(T, P, M, C, k)
    BY <2>1, <2>2, BalanceStays
  <2>5. QED
    BY <2>1, <2>3, <2>4 DEF UpToDate
<1>12. base = SumFunctionOnSet(f, kept)
  <2>1. CASE kept = {}
    BY <1>6, <2>1, SumOfNone
  <2>2. CASE kept # {}
    BY <1>1, <1>2, <1>6, <1>11, <2>2 DEF Balance, f
  <2>3. QED
    BY <2>1, <2>2
<1>13. ASSUME NEW k \in DOMAIN Q \ kept
       PROVE  Opening(Q, net, base, k) + net[k] = Balance(U, Q, N, D, k)
  <2> DEFINE below == {j \in DOMAIN Q \ kept : Q[j].start < Q[k].start}
  <2>1. \A j \in kept : Q[j].start < Q[k].start
    BY <1>2, <1>8 DEF UpTo
  <2>2. UpTo(Q, k) = (kept \union below) \union {k}
    <3>1. \A j \in DOMAIN Q : Q[j].start = Q[k].start => j = k
      BY PeriodsOfTables
    <3>2. QED
      BY <1>2, <1>8, <2>1, <3>1 DEF UpTo
  <2>3. /\ kept \intersect below = {} /\ k \notin kept \union below
        /\ IsFiniteSet(kept) /\ IsFiniteSet(below) /\ IsFiniteSet(kept \union below)
    BY <1>2, <1>8, FS_Subset, FS_Union
  <2>4. \A j \in kept \union below : f[j] \in Int
    BY <1>2, <1>7
  <2>5. \A j \in below : net[j] = f[j]
    BY <1>9
  <2>6. Opening(Q, net, base, k) = base + SumFunctionOnSet(net, below)
    BY <1>10 DEF Opening
  <2> HIDE DEF below
  <2>7. SumFunctionOnSet(net, below) = SumFunctionOnSet(f, below)
    BY <2>3, <2>5, SameSum
  <2>8. SumFunctionOnSet(f, kept \union below) = base + SumFunctionOnSet(f, below)
    BY <1>12, <2>3, <2>4, SumOfBoth
  <2>9. Balance(U, Q, N, D, k) = f[k] + SumFunctionOnSet(f, kept \union below)
    <3> DEFINE S1 == kept \union below
    <3>1. IsFiniteSet(S1) /\ k \notin S1 /\ f[k] \in Int /\ \A j \in S1 : f[j] \in Int /\ f[j] = f[j]
      BY <1>7, <2>3, <2>4
    <3> HIDE DEF S1
    <3>3. SumFunctionOnSet(f, S1 \union {k}) = f[k] + SumFunctionOnSet(f, S1)
      BY <3>1, SumWithOneMore
    <3>2. QED
      BY <2>2, <3>3 DEF Balance, f, S1
  <2>10. /\ SumFunctionOnSet(f, kept \union below) \in Int /\ f[k] \in Int
    BY <1>7, <2>3, <2>4, SumIsInt
  <2>11. net[k] = f[k]
    BY <1>9
  <2>12. QED
    BY <2>6, <2>7, <2>8, <2>9, <2>10, <2>11
<1>14. DOMAIN result = (DOMAIN Q \ kept) \union (kept \intersect DOMAIN S)
  BY <1>3
<1>15. \A k \in DOMAIN Q \ kept : result[k] = computed[k]
  BY <1>3
<1>16. \A k \in kept \intersect DOMAIN S : result[k] = L[k]
  BY <1>1, <1>3
<1>17. ASSUME NEW k \in DOMAIN result
       PROVE  /\ result[k].income = Income(U, N, k)
              /\ result[k].expenses = Expenses(U, N, k)
              /\ result[k].savings = Savings(Q, D, k)
              /\ result[k].closing = Balance(U, Q, N, D, k)
  <2>1. CASE k \in DOMAIN Q \ kept
    BY <1>4, <1>13, <1>15, <2>1
  <2>2. CASE k \in kept \intersect DOMAIN S
    BY <1>11, <1>16, <2>2
  <2>3. QED
    BY <1>14, <2>1, <2>2
<1>18. UpToDate(U, Q, N, D, result)
  BY <1>2, <1>14, <1>17 DEF UpToDate
<1>19. QED
  BY <1>18 DEF result
-----------------------------------------------------------------------------
(* What a request changes is dated from `affectedFrom` on *)

SameDates(T, U) == DOMAIN U = DOMAIN T /\ \A i \in DOMAIN T : U[i].date = T[i].date

\* A rebuild changes no period that starts before the boundary, and no date.
LEMMA RebuildChanges ==
  ASSUME NEW T, Proved!IsTable(T), NEW P, Proved!IsSequence(P), NEW from \in Nat,
         NEW cover \in SUBSET Nat
  PROVE  LET R == Rebuild(T, P, from, cover)
         IN  /\ R.boundary \in Nat /\ R.boundary <= from
             /\ R.boundary <= StartOfFinancialDay(from)
             /\ SamePeriods(P, R.periods, R.boundary)
             /\ SameDates(T, R.txs) /\ Proved!IsTable(R.txs) /\ Proved!IsSequence(R.periods)
<1> DEFINE Q == DesiredPeriods(T, cover)
           boundary == Boundary(P, Q, from)
           R == Rebuild(T, P, from, cover)
<1>1. Proved!IsSequence(Q)
  BY RowsAssumptions, SameDesired, Proved!DesiredIsPartition
<1>2. R.periods = Q /\ R.boundary = boundary
  BY DEF Rebuild, RebuildTo
<1>3. /\ DOMAIN R.txs = DOMAIN T /\ \A i \in DOMAIN T : R.txs[i].date = T[i].date
      /\ Proved!IsTable(R.txs)
  BY RowsAssumptions, SameRebuild, Proved!RebuildKeepsRows
<1> HIDE DEF R
<1>4. /\ boundary \in Nat /\ boundary <= from
      /\ \A k \in TouchedKeys(P, Q) :
            /\ k \in DOMAIN P => boundary <= P[k].start
            /\ k \in DOMAIN Q => boundary <= Q[k].start
  <2> HIDE DEF Q
  <2>1. QED
    BY <1>1, RowsAssumptions, SameBoundary, SameTouched, Proved!BoundaryBounds
<1>5. boundary <= StartOfFinancialDay(from)
  <2> DEFINE dates == {StartOfFinancialDay(from)}
                      \union {P[k].start : k \in TouchedKeys(P, Q) \intersect DOMAIN P}
                      \union {Q[k].start : k \in TouchedKeys(P, Q) \intersect DOMAIN Q}
  <2>1. /\ \A k \in DOMAIN P : P[k].start \in Nat
        /\ \A k \in DOMAIN Q : Q[k].start \in Nat
    BY <1>1 DEF Proved!IsSequence, Proved!Period
  <2>2. StartOfFinancialDay(from) \in Nat
    BY RowsAssumptions, SameStartOfDay, Proved!StartOfDayBounds
  <2> HIDE DEF Q
  <2>3. dates \in SUBSET Nat /\ StartOfFinancialDay(from) \in dates
    BY <2>1, <2>2
  <2>4. boundary = Min(dates)
    BY DEF Boundary
  <2> HIDE DEF dates, boundary
  <2>5. Proved!Min(dates) <= StartOfFinancialDay(from)
    BY <2>3, RowsAssumptions, Proved!MinIsLeast
  <2>6. QED
    BY <2>4, <2>5, SameMin
<1> HIDE DEF Q, boundary
<1>6. /\ \A k \in DOMAIN P : P[k].start \in Nat
      /\ \A k \in DOMAIN Q : Q[k].start \in Nat
  BY <1>1 DEF Proved!IsSequence, Proved!Period
<1>7. SamePeriods(P, Q, boundary)
  <2> SUFFICES ASSUME NEW k,
                      (k \in DOMAIN P /\ P[k].start < boundary)
                        \/ (k \in DOMAIN Q /\ Q[k].start < boundary)
               PROVE  k \in DOMAIN P /\ k \in DOMAIN Q /\ Q[k] = P[k]
    BY DEF SamePeriods
  <2>1. k \notin TouchedKeys(P, Q)
    BY <1>4, <1>6
  <2>2. QED
    BY <2>1 DEF TouchedKeys
<1>8. QED
  BY <1>1, <1>2, <1>3, <1>4, <1>5, <1>7 DEF SameDates, R

LEMMA SamePeriodsBefore ==
  ASSUME NEW P, NEW Q, NEW from \in Int, SamePeriods(P, Q, from), NEW to \in Int, to <= from,
         \A k \in DOMAIN P : P[k].start \in Nat, \A k \in DOMAIN Q : Q[k].start \in Nat
  PROVE  SamePeriods(P, Q, to)
<1>1. ASSUME NEW n \in Nat, n < to
      PROVE  n < from
  BY <1>1
<1>2. QED
  BY <1>1 DEF SamePeriods

LEMMA SamePeriodsTwice ==
  ASSUME NEW P, NEW Q, NEW R, NEW from, SamePeriods(P, Q, from), SamePeriods(Q, R, from)
  PROVE  SamePeriods(P, R, from)
BY DEF SamePeriods

\* The least of some dates.
LEMMA LeastDate ==
  ASSUME NEW S \in SUBSET Nat, S # {}
  PROVE  Min(S) \in S /\ \A n \in S : Min(S) <= n
BY RowsAssumptions, SameMin, Proved!MinIsLeast

\* locate
LEMMA LocateChanges ==
  ASSUME NEW T, Proved!IsTable(T), NEW P, Proved!IsSequence(P), NEW date \in Nat, NEW opens
  PROVE  LET L == Locate(T, P, date, opens)
         IN  /\ L.affectedFrom \in Nat /\ L.affectedFrom <= date
             /\ SamePeriods(P, L.periods, L.affectedFrom)
             /\ SameDates(T, L.txs) /\ Proved!IsTable(L.txs) /\ Proved!IsSequence(L.periods)
             /\ \/ L.affectedFrom <= StartOfFinancialDay(date)
                \/ L.txs = T /\ L.periods = P
<1> DEFINE L == Locate(T, P, date, opens)
           R == Rebuild(T, P, date, {date})
<1>1. CASE ~ opens /\ CoveringKeys(P, date) # {}
  <2>1. L.txs = T /\ L.periods = P /\ L.affectedFrom = date
    BY <1>1 DEF Locate
  <2>2. SamePeriods(P, P, date) /\ SameDates(T, T)
    BY DEF SamePeriods, SameDates
  <2>3. QED
    BY <2>1, <2>2
<1>2. CASE ~ (~ opens /\ CoveringKeys(P, date) # {})
  <2>1. /\ R.boundary \in Nat /\ R.boundary <= date
        /\ R.boundary <= StartOfFinancialDay(date)
        /\ SamePeriods(P, R.periods, R.boundary)
        /\ SameDates(T, R.txs) /\ Proved!IsTable(R.txs) /\ Proved!IsSequence(R.periods)
    BY RebuildChanges
  <2>2. L.txs = R.txs /\ L.periods = R.periods /\ L.affectedFrom = Min({R.boundary, date})
    BY <1>2 DEF Locate, LocatedIn
  <2> HIDE DEF R
  <2>3. Min({R.boundary, date}) = R.boundary
    <3>1. /\ Min({R.boundary, date}) \in {R.boundary, date}
          /\ Min({R.boundary, date}) <= R.boundary
      BY <2>1, LeastDate
    <3>2. QED
      BY <2>1, <3>1
  <2>4. QED
    BY <2>1, <2>2, <2>3
<1>3. QED
  BY <1>1, <1>2

\* assignTransactionToPeriod: a movement that is no salary moves nothing but
\* itself, or what is dated since the midnight before it.
LEMMA AssignChanges ==
  ASSUME NEW T, Proved!IsTable(T), NEW P, Proved!IsSequence(P), NEW i \in DOMAIN T, NEW read
  PROVE  LET A == Assign(T, P, i, read)
         IN  /\ A.affectedFrom \in Nat /\ A.affectedFrom <= T[i].date
             /\ SamePeriods(P, A.periods, A.affectedFrom)
             /\ SameDates(T, A.txs) /\ Proved!IsSequence(A.periods)
             /\ \/ A.affectedFrom <= StartOfFinancialDay(T[i].date)
                \/ A.periods = P /\ \A j \in DOMAIN T \ {i} : A.txs[j] = T[j]
<1> DEFINE L == Locate(T, P, T[i].date, IsSalary(T[i]))
           A == Assign(T, P, i, read)
<1>1. T[i].date \in Nat
  BY InstantsAssumption DEF Proved!IsTable, Proved!Transaction
<1>2. /\ L.affectedFrom \in Nat /\ L.affectedFrom <= T[i].date
      /\ SamePeriods(P, L.periods, L.affectedFrom)
      /\ SameDates(T, L.txs) /\ Proved!IsTable(L.txs) /\ Proved!IsSequence(L.periods)
      /\ \/ L.affectedFrom <= StartOfFinancialDay(T[i].date)
         \/ L.txs = T /\ L.periods = P
  BY <1>1, LocateChanges
<1>3. A = Placed(L, i, read)
  BY DEF Assign
<1>4. {"txs", "periods", "affectedFrom"} \subseteq DOMAIN L
  BY DEF Locate, LocatedIn
<1>5. \A j \in DOMAIN L.txs : DOMAIN L.txs[j] = {"date", "kind", "period"}
  BY <1>2 DEF Proved!IsTable, Proved!Transaction
<1> HIDE DEF L, A
<1>6. CASE read = L.period
  BY <1>2, <1>3, <1>6 DEF Placed, SameDates, A
<1>7. CASE read # L.period
  <2> DEFINE U == [L.txs EXCEPT ![i].period = L.period]
  <2>1. /\ A.txs = U
        /\ A.periods = L.periods /\ A.affectedFrom = L.affectedFrom
    BY <1>3, <1>4, <1>7 DEF Placed
  <2>2. DOMAIN U = DOMAIN T /\ \A j \in DOMAIN T \ {i} : U[j] = L.txs[j]
    BY <1>2 DEF SameDates
  <2>3. U[i].date = L.txs[i].date
    BY <1>2, <1>5 DEF SameDates
  <2> HIDE DEF U
  <2>4. SameDates(T, U)
    BY <1>2, <2>2, <2>3 DEF SameDates
  <2>5. QED
    BY <1>2, <2>1, <2>2, <2>4 DEF A
<1>8. QED
  BY <1>6, <1>7
\* The rows as each kind of write leaves them, before any period is assigned.
LEMMA InsertedRows ==
  ASSUME NEW T, Proved!IsTable(T), NEW i \in TxIds \ DOMAIN T, NEW date \in Instants,
         NEW type \in Types
  PROVE  LET U == Rows!Inserted(T, i, date, Kind(type))
         IN  /\ Proved!IsTable(U) /\ DOMAIN U = DOMAIN T \union {i}
             /\ U[i].date = date /\ \A j \in DOMAIN T : U[j] = T[j]
<1>1. Kind(type) \in Proved!Kinds
  BY KindOfType DEF Rows!Kinds, Proved!Kinds
<1>2. Rows!Inserted(T, i, date, Kind(type)) = Proved!Inserted(T, i, date, Kind(type))
  BY DEF Rows!Inserted, Proved!Inserted
<1>3. QED
  BY <1>1, <1>2, RowsAssumptions, Proved!InsertedRow

LEMMA EditedRows ==
  ASSUME NEW T, Proved!IsTable(T), NEW i \in DOMAIN T, NEW date \in Instants, NEW type \in Types
  PROVE  LET U == Rows!Edited(T, i, date, Kind(type))
         IN  /\ Proved!IsTable(U) /\ DOMAIN U = DOMAIN T
             /\ U[i].date = date /\ \A j \in DOMAIN T \ {i} : U[j] = T[j]
<1>1. Kind(type) \in Proved!Kinds
  BY KindOfType DEF Rows!Kinds, Proved!Kinds
<1>2. Rows!Edited(T, i, date, Kind(type)) = Proved!Edited(T, i, date, Kind(type))
  BY DEF Rows!Edited, Proved!Edited
<1>3. QED
  BY <1>1, <1>2, RowsAssumptions, Proved!EditedRow

LEMMA DeletedRows ==
  ASSUME NEW T, Proved!IsTable(T), NEW i \in DOMAIN T
  PROVE  LET U == Rows!Deleted(T, i)
         IN  /\ Proved!IsTable(U) /\ DOMAIN U = DOMAIN T \ {i}
             /\ \A j \in DOMAIN U : U[j] = T[j]
<1>1. Rows!Deleted(T, i) = Proved!Deleted(T, i)
  BY DEF Rows!Deleted, Proved!Deleted
<1>2. LET U == Proved!Deleted(T, i)
      IN  /\ Proved!IsTable(U) /\ DOMAIN U = DOMAIN T \ {i}
          /\ \A j \in DOMAIN U : U[j] = T[j]
  BY RowsAssumptions, Proved!DeletedRow
<1>3. QED
  BY <1>1, <1>2, Zenon

\* What a write of the rows leaves as it was before the date it is affected from.
Unaffected(T, P, M, result, N) ==
    /\ result.affectedFrom \in Nat
    /\ SamePeriods(P, result.periods, result.affectedFrom)
    /\ SameMovements(T, M, result.txs, N, result.affectedFrom)

LEMMA InsertUnaffected ==
  ASSUME NEW T, Proved!IsTable(T), NEW P, Proved!IsSequence(P), NEW M, Tied(T, M),
         NEW i \in TxIds \ DOMAIN T, NEW date \in Instants, NEW type \in Types, NEW amount
  PROVE  Unaffected(T, P, M, Assign(Rows!Inserted(T, i, date, Kind(type)), P, i, Null),
                    With(M, i, type, amount))
<1> DEFINE U == Rows!Inserted(T, i, date, Kind(type))
<1>1. /\ Proved!IsTable(U) /\ DOMAIN U = DOMAIN T \union {i}
      /\ U[i].date = date /\ \A j \in DOMAIN T : U[j] = T[j]
  <2>1. Proved!IsTable(U)
    BY InsertedRows
  <2>2. DOMAIN U = DOMAIN T \union {i} /\ U[i].date = date /\ \A j \in DOMAIN T : U[j] = T[j]
    BY DEF Rows!Inserted
  <2>3. QED
    BY <2>1, <2>2
<1> DEFINE A == Assign(U, P, i, Null)
           N == With(M, i, type, amount)
<1>2. \A j \in DOMAIN T : N[j] = M[j]
  BY DEF With, Tied
<1> HIDE DEF U, N
<1>3. /\ A.affectedFrom \in Nat /\ A.affectedFrom <= date
      /\ SamePeriods(P, A.periods, A.affectedFrom) /\ SameDates(U, A.txs)
  BY <1>1, AssignChanges
<1> HIDE DEF A
<1>4. date \in Nat
  BY InstantsAssumption
<1>5. SameMovements(T, M, A.txs, N, A.affectedFrom)
  BY <1>1, <1>2, <1>3, <1>4 DEF SameMovements, SameDates
<1>6. QED
  BY <1>3, <1>5 DEF Unaffected, A, U, N

\* Of a row that is no salary nothing is rebuilt before it is assigned.
LEMMA EditUnaffected ==
  ASSUME NEW T, Proved!IsTable(T), NEW P, Proved!IsSequence(P), NEW M, Tied(T, M),
         NEW i \in TxIds, i \in DOMAIN T, NEW date \in Instants, NEW type \in Types, NEW amount
  PROVE  Unaffected(T, P, M, Rows!AfterEdit(T, P, i, date, Kind(type)), With(M, i, type, amount))
<1> DEFINE E == Rows!Edited(T, i, date, Kind(type))
           from == Rows!Earlier(T[i].date, date)
           R == IF Rows!IsSalary(T[i]) THEN Rows!Rebuild(E, P, from, {})
                ELSE [txs |-> E, periods |-> P, boundary |-> from]
           A == Rows!Assign(R.txs, R.periods, i, T[i].period)
           result == Rows!AfterEdit(T, P, i, date, Kind(type))
           N == With(M, i, type, amount)
           dates == {from, R.boundary, A.affectedFrom}
<1>1. /\ Proved!IsTable(E) /\ DOMAIN E = DOMAIN T
      /\ E[i].date = date /\ \A j \in DOMAIN T \ {i} : E[j] = T[j]
  BY EditedRows
<1>2. \A j \in DOMAIN T \ {i} : N[j] = M[j]
  BY DEF With, Tied
<1>3. T[i].date \in Nat /\ date \in Nat
  BY InstantsAssumption DEF Proved!IsTable, Proved!Transaction
<1>4. from \in Nat /\ from <= T[i].date /\ from <= date
  BY <1>3 DEF Rows!Earlier
<1>5. result.txs = A.txs /\ result.periods = A.periods /\ result.affectedFrom = Rows!Min(dates)
  BY DEF Rows!AfterEdit
<1> HIDE DEF E, from, result, N
<1>6. /\ R.boundary \in Nat
      /\ SamePeriods(P, R.periods, R.boundary) /\ SameDates(E, R.txs)
      /\ Proved!IsTable(R.txs) /\ Proved!IsSequence(R.periods)
  <2>1. CASE Rows!IsSalary(T[i])
    <3>1. R = Rebuild(E, P, from, {})
      BY <2>1, SameRebuild
    <3> HIDE DEF R
    <3>2. QED
      BY <1>1, <1>4, <3>1, RebuildChanges
  <2>2. CASE ~ Rows!IsSalary(T[i])
    BY <1>1, <1>4, <2>2 DEF SamePeriods, SameDates
  <2>3. QED
    BY <2>1, <2>2
<1> HIDE DEF R
<1>7. i \in DOMAIN R.txs
  BY <1>1, <1>6 DEF SameDates
<1>8. /\ A.affectedFrom \in Nat
      /\ SamePeriods(R.periods, A.periods, A.affectedFrom) /\ SameDates(R.txs, A.txs)
      /\ Proved!IsSequence(A.periods)
  BY <1>6, <1>7, SameAssign, AssignChanges
<1> HIDE DEF A
<1>9. /\ result.affectedFrom \in Nat /\ result.affectedFrom <= from
      /\ result.affectedFrom <= R.boundary /\ result.affectedFrom <= A.affectedFrom
  <2>1. dates \in SUBSET Nat /\ dates # {}
    BY <1>4, <1>6, <1>8
  <2>2. from \in dates /\ R.boundary \in dates /\ A.affectedFrom \in dates
    OBVIOUS
  <2> HIDE DEF dates
  <2>3. Min(dates) \in dates /\ \A n \in dates : Min(dates) <= n
    BY <2>1, LeastDate
  <2>4. QED
    BY <1>5, <2>1, <2>2, <2>3, SameMin
<1>10. SamePeriods(P, result.periods, result.affectedFrom)
  <2>1. /\ \A k \in DOMAIN P : P[k].start \in Nat
        /\ \A k \in DOMAIN R.periods : R.periods[k].start \in Nat
        /\ \A k \in DOMAIN A.periods : A.periods[k].start \in Nat
    BY <1>6, <1>8 DEF Proved!IsSequence, Proved!Period
  <2>2. SamePeriods(P, R.periods, result.affectedFrom)
    BY <1>6, <1>9, <2>1, SamePeriodsBefore
  <2>3. SamePeriods(R.periods, A.periods, result.affectedFrom)
    BY <1>8, <1>9, <2>1, SamePeriodsBefore
  <2>4. QED
    BY <1>5, <2>2, <2>3, SamePeriodsTwice
<1>11. SameMovements(T, M, result.txs, N, result.affectedFrom)
  <2>1. /\ DOMAIN A.txs = DOMAIN T /\ A.txs[i].date = date
        /\ \A j \in DOMAIN T \ {i} : A.txs[j].date = T[j].date
    BY <1>1, <1>6, <1>8 DEF SameDates
  <2>2. ~ (T[i].date < result.affectedFrom) /\ ~ (date < result.affectedFrom)
    BY <1>3, <1>4, <1>9
  <2>3. QED
    BY <1>2, <1>5, <2>1, <2>2 DEF SameMovements
<1>12. QED
  BY <1>9, <1>10, <1>11 DEF Unaffected, result, N

LEMMA DeleteUnaffected ==
  ASSUME NEW T, Proved!IsTable(T), NEW P, Proved!IsSequence(P), NEW M, Tied(T, M),
         NEW i \in TxIds, i \in DOMAIN T
  PROVE  Unaffected(T, P, M, Rows!AfterDelete(T, P, i), Restrict(M, DOMAIN M \ {i}))
<1> DEFINE D == Rows!Deleted(T, i)
           R == IF Rows!IsSalary(T[i]) THEN Rows!Rebuild(D, P, T[i].date, {})
                ELSE [txs |-> D, periods |-> P, boundary |-> T[i].date]
           result == Rows!AfterDelete(T, P, i)
           N == Restrict(M, DOMAIN M \ {i})
<1>1. Proved!IsTable(D) /\ DOMAIN D = DOMAIN T \ {i} /\ \A j \in DOMAIN D : D[j] = T[j]
  BY DeletedRows
<1>2. \A j \in DOMAIN T \ {i} : N[j] = M[j]
  BY DEF Restrict, Tied
<1>3. T[i].date \in Nat
  BY InstantsAssumption DEF Proved!IsTable, Proved!Transaction
<1>4. /\ result.txs = R.txs /\ result.periods = R.periods
      /\ result.affectedFrom = Rows!Earlier(T[i].date, R.boundary)
  BY DEF Rows!AfterDelete
<1> HIDE DEF D, result, N
<1>5. /\ R.boundary \in Nat
      /\ SamePeriods(P, R.periods, R.boundary) /\ SameDates(D, R.txs)
      /\ Proved!IsSequence(R.periods)
  <2>1. CASE Rows!IsSalary(T[i])
    <3>1. R = Rebuild(D, P, T[i].date, {})
      BY <2>1, SameRebuild
    <3> HIDE DEF R
    <3>2. QED
      BY <1>1, <1>3, <3>1, RebuildChanges
  <2>2. CASE ~ Rows!IsSalary(T[i])
    BY <1>1, <1>3, <2>2 DEF SamePeriods, SameDates
  <2>3. QED
    BY <2>1, <2>2
<1> HIDE DEF R
<1>6. /\ result.affectedFrom \in Nat /\ result.affectedFrom <= T[i].date
      /\ result.affectedFrom <= R.boundary
  BY <1>3, <1>4, <1>5 DEF Rows!Earlier
<1>7. SamePeriods(P, result.periods, result.affectedFrom)
  <2>1. /\ \A k \in DOMAIN P : P[k].start \in Nat
        /\ \A k \in DOMAIN R.periods : R.periods[k].start \in Nat
    BY <1>5 DEF Proved!IsSequence, Proved!Period
  <2>2. QED
    BY <1>4, <1>5, <1>6, <2>1, SamePeriodsBefore
<1>8. SameMovements(T, M, result.txs, N, result.affectedFrom)
  <2>1. /\ DOMAIN R.txs = DOMAIN T \ {i}
        /\ \A j \in DOMAIN T \ {i} : R.txs[j].date = T[j].date
    BY <1>1, <1>5 DEF SameDates
  <2>2. ~ (T[i].date < result.affectedFrom)
    BY <1>3, <1>6
  <2>3. QED
    BY <1>2, <1>4, <2>1, <2>2 DEF SameMovements
<1>9. QED
  BY <1>6, <1>7, <1>8 DEF Unaffected, result, N
-----------------------------------------------------------------------------
(* Every request leaves ledgers that are up to date *)

\* A loan dated at midnight is assigned its period without the cascade.
NoLoanAtMidnight == \A s \in Scopes : \A date \in s.loanInstants : StartOfFinancialDay(date) # date

\* The inductive invariant
LedgerInv ==
    /\ Coupled
    /\ Tables(txs, periods, money, contributions)
    /\ UpToDate(txs, periods, money, contributions, ledgers)

LEMMA InitLedger == Init => LedgerInv
<1> SUFFICES ASSUME Init PROVE LedgerInv
  OBVIOUS
<1>1. Coupled
  BY InitRows
<1>2. Proved!Consistent(txs, periods)
  <2>1. Proved!Init
    BY SameSystem DEF Init
  <2>2. QED
    BY <2>1, RowsAssumptions, Proved!InitInv DEF Proved!Inv
<1>3. \A i \in DOMAIN txs : money[i].amount \in Amounts
  BY DEF Init
<1>4. DOMAIN contributions = {} /\ DOMAIN ledgers = {}
  BY DEF Init
<1>5. QED
  BY <1>1, <1>2, <1>3, <1>4 DEF LedgerInv, Tables, UpToDate, Coupled

\* What a request does to the money and to the contributions.
MoneyStep ==
    \/ UNCHANGED money
    \/ \E i \in TxIds, type \in Types, amount \in Amounts : money' = WithMoney(i, type, amount)
    \/ \E i \in TxIds : money' = WithoutMoney(i)

ContributionsStep ==
    \/ UNCHANGED contributions
    \/ \E c \in ContributionIds, goal \in Goals, date \in Instants, amount \in Amounts :
          contributions' = [d \in DOMAIN contributions \union {c} |->
                              IF d = c THEN [goal |-> goal, date |-> date, amount |-> amount]
                              ELSE contributions[d]]
    \/ \E own \in SUBSET DOMAIN contributions :
          contributions' = Restrict(contributions, DOMAIN contributions \ own)

LEMMA NextMoney == Coupled /\ [Next]_vars => MoneyStep /\ ContributionsStep
<1> SUFFICES ASSUME Coupled, [Next]_vars PROVE MoneyStep /\ ContributionsStep
  OBVIOUS
<1>1. /\ scope.types \subseteq Types /\ scope.instants \subseteq Instants
      /\ scope.loanInstants \subseteq Instants /\ scope.contributions \subseteq ContributionIds
  BY ScopesAssumption DEF Coupled
<1>2. CASE UNCHANGED vars
  BY <1>2 DEF vars, MoneyStep, ContributionsStep
<1> SUFFICES ASSUME Next PROVE MoneyStep /\ ContributionsStep
  BY <1>2
<1>3. ASSUME NEW i \in TxIds, NEW date \in scope.instants, NEW type \in scope.types,
             NEW amount \in Amounts,
             \/ CreateTransaction(i, date, type, amount)
             \/ UpdateTransaction(i, date, type, amount)
             \/ RecordPlanMovement(i, date, type, amount)
      PROVE  MoneyStep /\ ContributionsStep
  <2>1. money' = WithMoney(i, type, amount) /\ contributions' = contributions
    BY <1>3 DEF CreateTransaction, UpdateTransaction, RecordPlanMovement, Insert, Edit,
                RecalculateAffected, Recalculate
  <2>2. QED
    BY <1>1, <2>1 DEF MoneyStep, ContributionsStep
<1>4. ASSUME NEW i \in TxIds, NEW date \in scope.loanInstants, NEW amount \in Amounts,
             RecordLoanMovement(i, date, amount)
      PROVE  MoneyStep /\ ContributionsStep
  <2>1. money' = WithMoney(i, "loan", amount) /\ contributions' = contributions
    BY <1>4 DEF RecordLoanMovement, AssignLoanPeriod, RecalculateIfBefore, RecalculateAffected,
                Recalculate, NoRecalculation
  <2>2. "loan" \in Types
    BY <1>1, <1>4 DEF RecordLoanMovement
  <2>3. QED
    BY <2>1, <2>2 DEF MoneyStep, ContributionsStep
<1>5. ASSUME NEW i \in TxIds, NEW date \in scope.loanInstants, MoveLoan(i, date)
      PROVE  MoneyStep /\ ContributionsStep
  <2>1. money' = money /\ contributions' = contributions
    BY <1>5 DEF MoveLoan, AssignLoanPeriod, RecalculateIfBefore, RecalculateAffected,
                Recalculate, NoRecalculation
  <2>2. QED
    BY <2>1 DEF MoneyStep, ContributionsStep
<1>6. ASSUME NEW i \in TxIds, NEW date \in scope.instants, NEW amount \in Amounts,
             MovePurchase(i, date, amount)
      PROVE  MoneyStep /\ ContributionsStep
  <2>1. money' = WithMoney(i, "purchase", amount) /\ contributions' = contributions
    BY <1>6 DEF MovePurchase, Edit, RecalculateAffected, Recalculate
  <2>2. "purchase" \in Types
    BY <1>6 DEF MovePurchase, Coupled, Tied
  <2>3. QED
    BY <2>1, <2>2 DEF MoneyStep, ContributionsStep
<1>7. ASSUME NEW i \in TxIds, RemoveTransaction(i) \/ DropLoanMovement(i) \/ DropPlanMovement(i)
      PROVE  MoneyStep /\ ContributionsStep
  <2>1. money' = WithoutMoney(i) /\ contributions' = contributions
    BY <1>7 DEF RemoveTransaction, DropLoanMovement, DropPlanMovement, Delete,
                RecalculateAffected, Recalculate, NoRecalculation
  <2>2. QED
    BY <2>1 DEF MoneyStep, ContributionsStep
<1>8. ASSUME NEW c \in scope.contributions, NEW goal \in Goals, NEW date \in scope.instants,
             NEW amount \in Amounts, AddContribution(c, goal, date, amount)
      PROVE  MoneyStep /\ ContributionsStep
  BY <1>1, <1>8 DEF AddContribution, Recalculate, MoneyStep, ContributionsStep
<1>9. ASSUME NEW goal \in Goals, RemoveGoal(goal)
      PROVE  MoneyStep /\ ContributionsStep
  <2> DEFINE own == {c \in DOMAIN contributions : contributions[c].goal = goal}
  <2>1. /\ money' = money
        /\ contributions' = Restrict(contributions, DOMAIN contributions \ own)
    BY <1>9 DEF RemoveGoal, Recalculate
  <2>2. own \in SUBSET DOMAIN contributions
    OBVIOUS
  <2> HIDE DEF own
  <2>3. QED
    BY <2>1, <2>2 DEF MoneyStep, ContributionsStep
<1>10. ASSUME NEW now, GetCurrentPeriod(now) \/ ReadCurrentLedger(now)
       PROVE  MoneyStep /\ ContributionsStep
  BY <1>10 DEF GetCurrentPeriod, ReadCurrentLedger, MoneyStep, ContributionsStep
<1>11. ASSUME NEW k, ReadLedger(k) \/ RecalculateFrom(k)
       PROVE  MoneyStep /\ ContributionsStep
  BY <1>11 DEF ReadLedger, RecalculateFrom, Recalculate, MoneyStep, ContributionsStep
<1>12. CASE MigratePeriods
  BY <1>12 DEF MigratePeriods, Recalculate, MoneyStep, ContributionsStep
<1>13. QED
  BY <1>3, <1>4, <1>5, <1>6, <1>7, <1>8, <1>9, <1>10, <1>11, <1>12 DEF Next

\* The tables stay what they are.
LEMMA TablesStep ==
  ASSUME LedgerInv, [Next]_vars
  PROVE  Coupled' /\ Tables(txs', periods', money', contributions')
<1>1. RowsStep /\ MoneyStep /\ ContributionsStep
  BY NextRows, NextMoney DEF LedgerInv
<1>2. Proved!Consistent(txs', periods')
  <2>1. Proved!Inv /\ [Proved!Next]_(Proved!vars)
    BY <1>1, SameSystem DEF RowsStep, Proved!vars, Proved!Inv, LedgerInv, Tables
  <2>2. Proved!Inv'
    BY <2>1, RowsAssumptions, Proved!NextInv
  <2>3. QED
    BY <2>2 DEF Proved!Inv
<1>3. Tied(txs', money') /\ Coupled'
  BY <1>1 DEF RowsStep, Coupled
<1>4. \A i \in DOMAIN txs' : money'[i].amount \in Amounts
  <2>1. DOMAIN money' = DOMAIN txs' /\ \A i \in DOMAIN money : money[i].amount \in Amounts
    BY <1>3 DEF Tied, LedgerInv, Tables
  <2>2. CASE UNCHANGED money
    BY <2>1, <2>2
  <2>3. ASSUME NEW i, NEW type, NEW amount \in Amounts, money' = WithMoney(i, type, amount)
        PROVE  \A j \in DOMAIN money' : money'[j].amount \in Amounts
    BY <2>1, <2>3 DEF WithMoney
  <2>4. ASSUME NEW i, money' = WithoutMoney(i)
        PROVE  \A j \in DOMAIN money' : money'[j].amount \in Amounts
    BY <2>1, <2>4 DEF WithoutMoney, Restrict
  <2>5. QED
    BY <1>1, <2>1, <2>2, <2>3, <2>4 DEF MoneyStep
<1>5. /\ DOMAIN contributions' \subseteq ContributionIds
      /\ \A c \in DOMAIN contributions' :
            contributions'[c].date \in Instants /\ contributions'[c].amount \in Amounts
  <2> DEFINE Good(C) == /\ DOMAIN C \subseteq ContributionIds
                        /\ \A c \in DOMAIN C : C[c].date \in Instants /\ C[c].amount \in Amounts
             Added == \E c \in ContributionIds, goal \in Goals, date \in Instants,
                          amount \in Amounts :
                         contributions' =
                            [d \in DOMAIN contributions \union {c} |->
                               IF d = c THEN [goal |-> goal, date |-> date, amount |-> amount]
                               ELSE contributions[d]]
             Dropped == \E own \in SUBSET DOMAIN contributions :
                           contributions' = Restrict(contributions, DOMAIN contributions \ own)
  <2>1. Good(contributions)
    BY DEF LedgerInv, Tables
  <2>2. contributions' = contributions \/ Added \/ Dropped
    BY <1>1 DEF ContributionsStep
  <2>3. CASE contributions' = contributions
    BY <2>1, <2>3
  <2>4. CASE Added
    <3>1. PICK c \in ContributionIds, goal \in Goals, date \in Instants, amount \in Amounts :
             contributions' = [d \in DOMAIN contributions \union {c} |->
                                 IF d = c THEN [goal |-> goal, date |-> date, amount |-> amount]
                                 ELSE contributions[d]]
      BY <2>4
    <3>2. QED
      BY <2>1, <3>1
  <2>5. CASE Dropped
    BY <2>1, <2>5 DEF Restrict
  <2>6. QED
    <3> HIDE DEF Added, Dropped
    <3>1. QED
      BY <2>2, <2>3, <2>4, <2>5
<1>6. QED
  BY <1>2, <1>3, <1>4, <1>5 DEF Tables
\* The tables after the step, and the ledgers if they are up to date.
LedgersFollow == UpToDate(txs', periods', money', contributions', ledgers')
TablesFollow == Tables(txs', periods', money', contributions')

\* What is equal before and after.
LEMMA NothingChanges ==
  ASSUME NEW T, NEW P, NEW M, NEW C, NEW from
  PROVE  SamePeriods(P, P, from) /\ SameMovements(T, M, T, M, from) /\ SameContributions(C, C, from)
BY DEF SamePeriods, SameMovements, SameContributions

LEMMA Recalculated ==
  ASSUME LedgerInv, TablesFollow, NEW result, NEW M, NEW C, NEW from \in Nat,
         Recalculate(result, M, C, from),
         \/ DOMAIN ledgers = {}
         \/ /\ SamePeriods(periods, result.periods, from)
            /\ SameMovements(txs, money, result.txs, M, from)
            /\ SameContributions(contributions, C, from)
  PROVE  LedgersFollow
<1> DEFINE S == Surviving(ledgers, result.periods)
<1>1. /\ txs' = result.txs /\ periods' = result.periods /\ money' = M /\ contributions' = C
      /\ ledgers' = Cascade(result.txs, result.periods, M, C, S, from)
  BY DEF Recalculate, Rows!Becomes
<1>2. /\ DOMAIN S \subseteq DOMAIN ledgers \intersect DOMAIN result.periods
      /\ \A k \in DOMAIN S : S[k] = ledgers[k]
  BY DEF Surviving, Restrict
<1>3. Tables(result.txs, result.periods, M, C)
  BY <1>1 DEF TablesFollow
<1>4. /\ Tables(txs, periods, money, contributions)
      /\ UpToDate(txs, periods, money, contributions, ledgers)
  BY DEF LedgerInv
<1> HIDE DEF S
<1>5. UpToDate(result.txs, result.periods, M, C,
               Cascade(result.txs, result.periods, M, C, S, from))
  BY <1>2, <1>3, <1>4, CascadeIsUpToDate
<1>6. QED
  BY <1>1, <1>5 DEF LedgersFollow

LEMMA RecalculatedAffected ==
  ASSUME LedgerInv, TablesFollow, NEW result, NEW M, RecalculateAffected(result, M),
         Unaffected(txs, periods, money, result, M)
  PROVE  LedgersFollow
<1>1. /\ result.affectedFrom \in Nat
      /\ SamePeriods(periods, result.periods, result.affectedFrom)
      /\ SameMovements(txs, money, result.txs, M, result.affectedFrom)
  BY DEF Unaffected
<1>2. SameContributions(contributions, contributions, result.affectedFrom)
  BY NothingChanges
<1>3. QED
  BY <1>1, <1>2, Recalculated DEF RecalculateAffected

\* A row that no ledger sums comes, moves or goes, and no period does.
LEMMA SumsOfSameRows ==
  ASSUME NEW T, NEW P, NEW M, NEW C, NEW U, NEW N,
         \A i : (i \in DOMAIN T /\ Summed(M[i])) \/ (i \in DOMAIN U /\ Summed(N[i]))
                  => i \in DOMAIN T /\ i \in DOMAIN U /\ U[i].period = T[i].period /\ N[i] = M[i]
  PROVE  /\ \A k : Income(U, N, k) = Income(T, M, k) /\ Expenses(U, N, k) = Expenses(T, M, k)
         /\ \A k : Balance(U, P, N, C, k) = Balance(T, P, M, C, k)
<1>1. ASSUME NEW k
      PROVE  Income(U, N, k) = Income(T, M, k)
  <2> DEFINE ids == {i \in DOMAIN T : T[i].period = k /\ M[i].type \in IncomeTypes}
  <2>1. /\ {i \in DOMAIN U : U[i].period = k /\ N[i].type \in IncomeTypes} = ids
        /\ \A i \in ids : N[i].amount = M[i].amount
    BY DEF Summed
  <2> HIDE DEF ids
  <2>2. Total(N, ids) = Total(M, ids)
    BY <2>1, SameTotal
  <2>3. QED
    BY <2>1, <2>2 DEF Income, ids
<1>2. ASSUME NEW k
      PROVE  Expenses(U, N, k) = Expenses(T, M, k)
  <2> DEFINE ids == {i \in DOMAIN T : T[i].period = k /\ M[i].type \in EXPENSE_TYPES}
  <2>1. /\ {i \in DOMAIN U : U[i].period = k /\ N[i].type \in EXPENSE_TYPES} = ids
        /\ \A i \in ids : N[i].amount = M[i].amount
    BY DEF Summed
  <2> HIDE DEF ids
  <2>2. Total(N, ids) = Total(M, ids)
    BY <2>1, SameTotal
  <2>3. QED
    BY <2>1, <2>2 DEF Expenses, ids
<1>3. Nets(U, P, N, C) = Nets(T, P, M, C)
  BY <1>1, <1>2 DEF Nets, Net
<1>4. QED
  BY <1>1, <1>2, <1>3 DEF Balance

LEMMA NotRecalculated ==
  ASSUME LedgerInv, NEW result, NEW M, NoRecalculation(result, M), result.periods = periods,
         NEW i, NEW U, result.txs = U,
         DOMAIN U \ {i} = DOMAIN txs \ {i}, \A j \in DOMAIN txs \ {i} : U[j] = txs[j] /\ M[j] = money[j],
         i \in DOMAIN txs => ~ Summed(money[i]),
         i \in DOMAIN U => ~ Summed(M[i])
  PROVE  LedgersFollow
<1>1. /\ txs' = U /\ periods' = periods /\ money' = M /\ contributions' = contributions
      /\ ledgers' = Surviving(ledgers, periods)
  BY DEF NoRecalculation, Rows!Becomes
<1>2. \A j : (j \in DOMAIN txs /\ Summed(money[j])) \/ (j \in DOMAIN U /\ Summed(M[j]))
               => j \in DOMAIN txs /\ j \in DOMAIN U /\ U[j].period = txs[j].period /\ M[j] = money[j]
  <2> SUFFICES ASSUME NEW j,
                      (j \in DOMAIN txs /\ Summed(money[j])) \/ (j \in DOMAIN U /\ Summed(M[j]))
               PROVE  j \in DOMAIN txs /\ j \in DOMAIN U /\ U[j].period = txs[j].period /\ M[j] = money[j]
    OBVIOUS
  <2>1. j # i
    OBVIOUS
  <2>2. QED
    BY <2>1
<1>3. /\ \A k : Income(U, M, k) = Income(txs, money, k) /\ Expenses(U, M, k) = Expenses(txs, money, k)
      /\ \A k : Balance(U, periods, M, contributions, k) = Balance(txs, periods, money, contributions, k)
  BY <1>2, SumsOfSameRows
<1>4. DOMAIN ledgers \subseteq DOMAIN periods
  BY DEF LedgerInv, UpToDate
<1>5. DOMAIN ledgers' = DOMAIN ledgers /\ \A k \in DOMAIN ledgers : ledgers'[k] = ledgers[k]
  BY <1>1, <1>4 DEF Surviving, Restrict
<1>6. QED
  BY <1>1, <1>3, <1>4, <1>5 DEF LedgersFollow, LedgerInv, UpToDate

\* Some period is open, once there is one.
LEMMA LastIsOpen ==
  ASSUME LedgerInv, DOMAIN periods # {}
  PROVE  \E k \in DOMAIN periods : periods[k].end = Null
<1>1. /\ IsFiniteSet(DOMAIN periods) /\ \A k \in DOMAIN periods : periods[k].start \in Nat
      /\ \A k \in DOMAIN periods : periods[k].end \in Nat \union {Null}
  BY RowsOfTables DEF LedgerInv
<1>2. PICK m \in DOMAIN periods : \A k \in DOMAIN periods : periods[k].start <= periods[m].start
  BY <1>1, LatestExists
<1> DEFINE starts == {periods[j].start : j \in DOMAIN periods}
<1>3. periods[m].end = Proved!NextStart(starts, periods[m].start)
  BY DEF LedgerInv, Tables, Proved!Consistent, Proved!Partition
<1>4. /\ starts \in SUBSET Nat /\ periods[m].start \in Nat
      /\ \A n \in starts : n <= periods[m].start
  BY <1>1, <1>2
<1> HIDE DEF starts
<1>5. periods[m].end # Null => periods[m].end \in starts /\ periods[m].start < periods[m].end
  BY <1>3, <1>4, RowsAssumptions, Proved!NextStartIsNext
<1>6. periods[m].end = Null
  BY <1>1, <1>4, <1>5
<1>7. QED
  BY <1>6
\* The rows the services write are tables of rows.
LEMMA LedgerTables ==
  ASSUME LedgerInv
  PROVE  /\ Proved!IsTable(txs) /\ Proved!IsSequence(periods) /\ Tied(txs, money)
         /\ \A i, type, amount : WithMoney(i, type, amount) = With(money, i, type, amount)
BY DEF LedgerInv, Tables, Proved!Consistent, WithMoney, With

LEMMA InsertFollowed ==
  ASSUME LedgerInv, TablesFollow, NEW i \in TxIds, NEW date \in Instants, NEW type \in Types,
         NEW amount, Insert(i, date, type, amount)
  PROVE  LedgersFollow
<1> DEFINE result == Rows!AfterInsert(txs, periods, i, date, Kind(type))
           M == WithMoney(i, type, amount)
<1>1. i \notin DOMAIN txs /\ RecalculateAffected(result, M)
  BY DEF Insert
<1>2. result = Assign(Rows!Inserted(txs, i, date, Kind(type)), periods, i, Null)
  BY SameAssign DEF Rows!AfterInsert
<1>3. M = With(money, i, type, amount)
  BY LedgerTables
<1> HIDE DEF result, M
<1>4. Unaffected(txs, periods, money, result, M)
  BY <1>1, <1>2, <1>3, LedgerTables, InsertUnaffected
<1>5. QED
  BY <1>1, <1>4, RecalculatedAffected

LEMMA EditFollowed ==
  ASSUME LedgerInv, TablesFollow, NEW i \in TxIds, i \in DOMAIN txs, NEW date \in Instants,
         NEW type \in Types, NEW amount, Edit(i, date, type, amount)
  PROVE  LedgersFollow
<1> DEFINE result == Rows!AfterEdit(txs, periods, i, date, Kind(type))
           M == WithMoney(i, type, amount)
<1>1. RecalculateAffected(result, M)
  BY DEF Edit
<1>2. M = With(money, i, type, amount)
  BY LedgerTables
<1>3. Unaffected(txs, periods, money, result, M)
  BY <1>2, LedgerTables, EditUnaffected
<1> HIDE DEF result, M
<1>4. QED
  BY <1>1, <1>3, RecalculatedAffected

LEMMA DeleteFollowed ==
  ASSUME LedgerInv, TablesFollow, NEW i \in TxIds, i \in DOMAIN txs, Delete(i)
  PROVE  LedgersFollow
<1> DEFINE result == Rows!AfterDelete(txs, periods, i)
           M == WithoutMoney(i)
<1>1. RecalculateAffected(result, M)
  BY DEF Delete
<1>2. Unaffected(txs, periods, money, result, M)
  BY LedgerTables, DeleteUnaffected DEF WithoutMoney
<1> HIDE DEF result, M
<1>3. QED
  BY <1>1, <1>2, RecalculatedAffected

\* A loan is in no sum, and is no salary.
LEMMA LoanIsNotSummed ==
  /\ Kind("loan") = "managed"
  /\ \A row : row.type = "loan" => ~ Summed(row)
BY DEF Kind, Summed, IncomeTypes, EXPENSE_TYPES

\* Before midnight, that is: then the loan has moved nothing else.
LEMMA LoanMovesNothing ==
  ASSUME NEW date \in Nat, StartOfFinancialDay(date) # date, NEW from \in Nat, ~ (from < date)
  PROVE  ~ (from <= StartOfFinancialDay(date))
<1>1. StartOfFinancialDay(date) \in Nat /\ StartOfFinancialDay(date) <= date
  BY RowsAssumptions, SameStartOfDay, Proved!StartOfDayBounds
<1>2. QED
  BY <1>1

LEMMA RecordLoanFollowed ==
  ASSUME LedgerInv, TablesFollow, NEW i \in TxIds, NEW date \in Instants,
         StartOfFinancialDay(date) # date, "loan" \in Types, NEW amount,
         RecordLoanMovement(i, date, amount)
  PROVE  LedgersFollow
<1> DEFINE T == Rows!Inserted(txs, i, date, "managed")
           A == Assign(T, periods, i, Null)
           M == WithMoney(i, "loan", amount)
<1>1. i \notin DOMAIN txs /\ RecalculateIfBefore(A, T[i].date, M)
  BY DEF RecordLoanMovement, AssignLoanPeriod
<1>2. /\ Proved!IsTable(T) /\ DOMAIN T = DOMAIN txs \union {i}
      /\ T[i].date = date /\ \A j \in DOMAIN txs : T[j] = txs[j]
  BY <1>1, LedgerTables, LoanIsNotSummed, InsertedRows
<1>3. M = With(money, i, "loan", amount)
  BY LedgerTables
<1>4. M[i].type = "loan" /\ \A j \in DOMAIN txs : M[j] = money[j]
  BY <1>1, <1>3, LedgerTables DEF With, Tied
<1>5. Unaffected(txs, periods, money, A, M)
  BY <1>1, <1>3, LedgerTables, LoanIsNotSummed, InsertUnaffected
<1> HIDE DEF T, M
<1>6. /\ A.affectedFrom \in Nat /\ SameDates(T, A.txs)
      /\ \/ A.affectedFrom <= StartOfFinancialDay(date)
         \/ A.periods = periods /\ \A j \in DOMAIN T \ {i} : A.txs[j] = T[j]
  BY <1>2, LedgerTables, AssignChanges
<1> HIDE DEF A
<1>7. CASE A.affectedFrom < date
  BY <1>1, <1>2, <1>5, <1>7, RecalculatedAffected DEF RecalculateIfBefore
<1>8. CASE ~ (A.affectedFrom < date)
  <2>1. NoRecalculation(A, M)
    BY <1>1, <1>2, <1>8 DEF RecalculateIfBefore
  <2>2. A.periods = periods /\ \A j \in DOMAIN T \ {i} : A.txs[j] = T[j]
    BY <1>6, <1>8, InstantsAssumption, LoanMovesNothing
  <2>3. /\ DOMAIN A.txs \ {i} = DOMAIN txs \ {i}
        /\ \A j \in DOMAIN txs \ {i} : A.txs[j] = txs[j] /\ M[j] = money[j]
    BY <1>2, <1>4, <1>6, <2>2 DEF SameDates
  <2>4. ~ Summed(M[i]) /\ i \notin DOMAIN txs
    BY <1>1, <1>4, LoanIsNotSummed
  <2>5. QED
    BY <2>1, <2>2, <2>3, <2>4, NotRecalculated
<1>9. QED
  BY <1>7, <1>8

LEMMA MoveLoanFollowed ==
  ASSUME LedgerInv, TablesFollow, NEW i \in TxIds, NEW date \in Instants,
         StartOfFinancialDay(date) # date, MoveLoan(i, date)
  PROVE  LedgersFollow
<1> DEFINE T == Rows!Edited(txs, i, date, "managed")
           A == Assign(T, periods, i, txs[i].period)
<1>1. i \in DOMAIN txs /\ money[i].type = "loan" /\ RecalculateIfBefore(A, T[i].date, money)
  BY DEF MoveLoan, AssignLoanPeriod
<1>2. /\ Proved!IsTable(T) /\ DOMAIN T = DOMAIN txs
      /\ T[i].date = date /\ \A j \in DOMAIN txs \ {i} : T[j] = txs[j]
  <2>1. "loan" \in Types
    BY <1>1, LedgerTables DEF Tied
  <2>2. QED
    BY <1>1, <2>1, LedgerTables, LoanIsNotSummed, EditedRows
<1>3. ~ Summed(money[i])
  BY <1>1, LoanIsNotSummed
<1> HIDE DEF T
<1>4. /\ A.affectedFrom \in Nat /\ SameDates(T, A.txs)
      /\ SamePeriods(periods, A.periods, A.affectedFrom)
      /\ \/ A.affectedFrom <= StartOfFinancialDay(date)
         \/ A.periods = periods /\ \A j \in DOMAIN T \ {i} : A.txs[j] = T[j]
  BY <1>1, <1>2, LedgerTables, AssignChanges
<1> HIDE DEF A
<1>5. CASE A.affectedFrom < date
  <2>1. SameMovements(txs, money, A.txs, money, A.affectedFrom)
    BY <1>2, <1>3, <1>4 DEF SameMovements, SameDates
  <2>2. Unaffected(txs, periods, money, A, money)
    BY <1>4, <2>1 DEF Unaffected
  <2>3. QED
    BY <1>1, <1>2, <1>5, <2>2, RecalculatedAffected DEF RecalculateIfBefore
<1>6. CASE ~ (A.affectedFrom < date)
  <2>1. NoRecalculation(A, money)
    BY <1>1, <1>2, <1>6 DEF RecalculateIfBefore
  <2>2. A.periods = periods /\ \A j \in DOMAIN T \ {i} : A.txs[j] = T[j]
    BY <1>4, <1>6, InstantsAssumption, LoanMovesNothing
  <2>3. /\ DOMAIN A.txs \ {i} = DOMAIN txs \ {i}
        /\ \A j \in DOMAIN txs \ {i} : A.txs[j] = txs[j] /\ money[j] = money[j]
    BY <1>2, <1>4, <2>2 DEF SameDates
  <2>4. QED
    BY <1>3, <2>1, <2>2, <2>3, NotRecalculated
<1>7. QED
  BY <1>5, <1>6

LEMMA DropLoanFollowed ==
  ASSUME LedgerInv, TablesFollow, NEW i \in TxIds, DropLoanMovement(i)
  PROVE  LedgersFollow
<1> DEFINE result == Rows!AfterDelete(txs, periods, i)
           M == WithoutMoney(i)
           U == Rows!Deleted(txs, i)
<1>1. i \in DOMAIN txs /\ money[i].type = "loan" /\ NoRecalculation(result, M)
  BY DEF DropLoanMovement
<1>2. ~ Rows!IsSalary(txs[i])
  BY <1>1, LedgerTables, LoanIsNotSummed DEF Tied, Rows!IsSalary
<1>3. result.txs = U /\ result.periods = periods
  BY <1>2 DEF Rows!AfterDelete
<1>5. \A j \in DOMAIN txs \ {i} : M[j] = money[j]
  BY LedgerTables DEF WithoutMoney, Restrict, Tied
<1> HIDE DEF result, M
<1>4. /\ DOMAIN result.txs = DOMAIN txs \ {i}
      /\ \A j \in DOMAIN txs \ {i} : result.txs[j] = txs[j]
  <2>1. Proved!IsTable(txs)
    BY LedgerTables
  <2>2. DOMAIN U = DOMAIN txs \ {i} /\ \A j \in DOMAIN U : U[j] = txs[j]
    BY <1>1, <2>1, DeletedRows
  <2>3. QED
    BY <1>3, <2>2
<1>6. ~ Summed(money[i])
  BY <1>1, LoanIsNotSummed
<1>7. QED
  BY <1>1, <1>3, <1>4, <1>5, <1>6, NotRecalculated

LEMMA AddContributionFollowed ==
  ASSUME LedgerInv, TablesFollow, NEW c, NEW goal, NEW date \in Instants, NEW amount,
         AddContribution(c, goal, date, amount)
  PROVE  LedgersFollow
<1> DEFINE C == [d \in DOMAIN contributions \union {c} |->
                    IF d = c THEN [goal |-> goal, date |-> date, amount |-> amount]
                    ELSE contributions[d]]
<1>1. c \notin DOMAIN contributions /\ Recalculate(SameRows, money, C, date)
  BY DEF AddContribution
<1>2. date \in Nat
  BY InstantsAssumption
<1>3. SameContributions(contributions, C, date)
  BY <1>1, <1>2 DEF SameContributions
<1> HIDE DEF C
<1>4. SamePeriods(periods, periods, date) /\ SameMovements(txs, money, txs, money, date)
  BY NothingChanges
<1>5. SameRows.txs = txs /\ SameRows.periods = periods
  BY DEF SameRows
<1>6. QED
  BY <1>1, <1>2, <1>3, <1>4, <1>5, Recalculated

LEMMA RemoveGoalFollowed ==
  ASSUME LedgerInv, TablesFollow, NEW goal, RemoveGoal(goal)
  PROVE  LedgersFollow
<1> DEFINE own == {c \in DOMAIN contributions : contributions[c].goal = goal}
           dates == {contributions[c].date : c \in own}
           C == Restrict(contributions, DOMAIN contributions \ own)
<1>1. own # {} /\ Recalculate(SameRows, money, C, Min(dates))
  BY DEF RemoveGoal
<1>2. \A c \in DOMAIN contributions : contributions[c].date \in Nat
  BY RowsOfTables DEF LedgerInv
<1>3. dates \in SUBSET Nat /\ dates # {} /\ \A c \in own : contributions[c].date \in dates
  BY <1>1, <1>2
<1>4. DOMAIN C = DOMAIN contributions \ own /\ \A c \in DOMAIN C : C[c] = contributions[c]
  BY DEF Restrict
<1>5. own \subseteq DOMAIN contributions
  OBVIOUS
<1> HIDE DEF own, dates, C
<1>6. Min(dates) \in Nat /\ \A n \in dates : Min(dates) <= n
  BY <1>3, LeastDate
<1>7. SameContributions(contributions, C, Min(dates))
  <2>1. \A c \in own : ~ (contributions[c].date < Min(dates))
    BY <1>2, <1>3, <1>5, <1>6
  <2>2. QED
    BY <1>4, <2>1 DEF SameContributions
<1>8. SamePeriods(periods, periods, Min(dates)) /\ SameMovements(txs, money, txs, money, Min(dates))
  BY NothingChanges
<1>9. SameRows.txs = txs /\ SameRows.periods = periods
  BY DEF SameRows
<1>10. QED
  BY <1>1, <1>6, <1>7, <1>8, <1>9, Recalculated
\* getOrBuildLedger
LEMMA LedgerReadFollowed ==
  ASSUME LedgerInv, TablesFollow, NEW S, NEW k \in DOMAIN periods',
         UNCHANGED <<money, contributions>>,
         DOMAIN S \subseteq DOMAIN ledgers \intersect DOMAIN periods',
         \A j \in DOMAIN S : S[j] = ledgers[j],
         ledgers' = WithLedgerOf(txs', periods', money, contributions, S, k),
         DOMAIN ledgers = {} \/ (S = ledgers /\ UNCHANGED <<txs, periods>>)
  PROVE  LedgersFollow
<1> DEFINE from == periods'[k].start
           L == Cascade(txs', periods', money, contributions, S, from)
<1>1. from \in Nat
  BY RowsOfTables DEF TablesFollow
<1>2. /\ Tables(txs, periods, money, contributions)
      /\ UpToDate(txs, periods, money, contributions, ledgers)
  BY DEF LedgerInv
<1>3. Tables(txs', periods', money, contributions)
  BY DEF TablesFollow
<1>4. SameContributions(contributions, contributions, from)
  BY NothingChanges
<1>5. DOMAIN ledgers = {} \/ /\ SamePeriods(periods, periods', from)
                             /\ SameMovements(txs, money, txs', money, from)
  BY NothingChanges
<1>6. UpToDate(txs', periods', money, contributions, L)
  <2> HIDE DEF from
  <2>1. QED
    BY <1>1, <1>2, <1>3, <1>4, <1>5, CascadeIsUpToDate
<1>7. CASE k \in DOMAIN S
  <2>1. ledgers' = S /\ S = ledgers /\ UNCHANGED <<txs, periods>>
    BY <1>7 DEF WithLedgerOf
  <2>2. QED
    BY <1>2, <2>1 DEF LedgersFollow
<1>8. CASE k \notin DOMAIN S
  <2>1. ledgers' = L
    BY <1>8 DEF WithLedgerOf
  <2>2. QED
    BY <1>6, <2>1 DEF LedgersFollow
<1>9. QED
  BY <1>7, <1>8

\* With no period there is no ledger.
LEMMA NoLedgerWithoutOpen ==
  ASSUME LedgerInv, \A k \in DOMAIN periods : periods[k].end # Null
  PROVE  DOMAIN periods = {} /\ DOMAIN ledgers = {}
<1>1. DOMAIN periods = {}
  BY LastIsOpen
<1>2. QED
  BY <1>1 DEF LedgerInv, UpToDate

LEMMA CurrentFollowed ==
  ASSUME LedgerInv, TablesFollow, NEW now \in Instants,
         GetCurrentPeriod(now) \/ ReadCurrentLedger(now)
  PROVE  LedgersFollow
<1>1. CASE GetCurrentPeriod(now)
  <2>1. /\ \A k \in DOMAIN periods : periods[k].end # Null
        /\ ledgers' = ledgers
    BY <1>1 DEF GetCurrentPeriod, Rows!GetCurrentPeriod
  <2>2. DOMAIN ledgers' = {}
    BY <2>1, NoLedgerWithoutOpen
  <2>3. QED
    BY <2>2 DEF LedgersFollow, UpToDate
<1>2. CASE ReadCurrentLedger(now)
  <2> DEFINE open == {k \in DOMAIN periods : periods[k].end = Null}
             L == IF open # {} THEN [txs |-> txs, periods |-> periods,
                                     period |-> CHOOSE k \in open : TRUE]
                  ELSE Locate(txs, periods, now, FALSE)
             S == Surviving(ledgers, L.periods)
  <2>1. /\ txs' = L.txs /\ periods' = L.periods /\ UNCHANGED <<money, contributions>>
        /\ ledgers' = WithLedgerOf(L.txs, L.periods, money, contributions, S, L.period)
    BY <1>2 DEF ReadCurrentLedger, Rows!Becomes
  <2>2. /\ DOMAIN S \subseteq DOMAIN ledgers \intersect DOMAIN L.periods
        /\ \A j \in DOMAIN S : S[j] = ledgers[j]
    BY DEF Surviving, Restrict
  <2>3. CASE open # {}
    <3>1. L.txs = txs /\ L.periods = periods /\ L.period \in DOMAIN periods
      BY <2>3
    <3>2. PICK k \in DOMAIN periods : k = L.period
      BY <3>1
    <3> HIDE DEF L
    <3>3. DOMAIN S = DOMAIN ledgers /\ \A j \in DOMAIN S : S[j] = ledgers[j]
      BY <2>2, <3>1 DEF LedgerInv, UpToDate, Surviving, Restrict
    <3> HIDE DEF S
    <3>4. CASE k \in DOMAIN S
      <4>1. ledgers' = S
        BY <2>1, <3>2, <3>4 DEF WithLedgerOf
      <4>2. QED
        BY <2>1, <3>1, <3>3, <4>1 DEF LedgersFollow, LedgerInv, UpToDate
    <3>5. CASE k \notin DOMAIN S
      <4> DEFINE from == periods[k].start
      <4>1. ledgers' = Cascade(txs, periods, money, contributions, S, from)
        BY <2>1, <3>1, <3>2, <3>5 DEF WithLedgerOf
      <4>2. from \in Nat
        BY RowsOfTables DEF LedgerInv
      <4>3. /\ SamePeriods(periods, periods, from)
            /\ SameMovements(txs, money, txs, money, from)
            /\ SameContributions(contributions, contributions, from)
        BY NothingChanges
      <4> HIDE DEF from
      <4>4. DOMAIN S \subseteq DOMAIN ledgers \intersect DOMAIN periods
        BY <2>2, <3>1
      <4>5. UpToDate(txs, periods, money, contributions,
                     Cascade(txs, periods, money, contributions, S, from))
        BY <3>3, <4>2, <4>3, <4>4, CascadeIsUpToDate DEF LedgerInv
      <4>6. QED
        BY <2>1, <3>1, <4>1, <4>5 DEF LedgersFollow
    <3>6. QED
      BY <3>4, <3>5
  <2>4. CASE open = {}
    <3>1. L = Locate(txs, periods, now, FALSE)
      BY <2>4
    <3>2. DOMAIN ledgers = {}
      BY <2>4, NoLedgerWithoutOpen
    <3>3. L.period \in DOMAIN L.periods
      <4>1. now \in Nat
        BY InstantsAssumption
      <4>2. L.period \in Proved!CoveringKeys(L.periods, now)
        BY <3>1, <4>1, LedgerTables, RowsAssumptions, SameLocate, Proved!LocateFinds
      <4> HIDE DEF L
      <4>3. QED
        BY <4>2 DEF Proved!CoveringKeys
    <3>4. PICK k \in DOMAIN periods' : k = L.period
      BY <2>1, <3>3
    <3> HIDE DEF L, S
    <3>5. PICK Z : Z = S
      OBVIOUS
    <3>6. /\ ledgers' = WithLedgerOf(txs', periods', money, contributions, Z, k)
          /\ DOMAIN Z \subseteq DOMAIN ledgers \intersect DOMAIN periods'
          /\ \A j \in DOMAIN Z : Z[j] = ledgers[j]
          /\ UNCHANGED <<money, contributions>>
      BY <2>1, <2>2, <3>4, <3>5
    <3>7. DOMAIN ledgers = {} \/ (Z = ledgers /\ UNCHANGED <<txs, periods>>)
      BY <3>2
    <3>8. QED
      BY <3>6, <3>7, LedgerReadFollowed
  <2>5. QED
    BY <2>3, <2>4
<1>3. QED
  BY <1>1, <1>2

LEMMA ReadFollowed ==
  ASSUME LedgerInv, TablesFollow, NEW k \in DOMAIN periods, ReadLedger(k) \/ RecalculateFrom(k)
  PROVE  LedgersFollow
<1>1. CASE ReadLedger(k)
  <2>1. /\ ledgers' = WithLedgerOf(txs, periods, money, contributions, ledgers, k)
        /\ UNCHANGED <<txs, periods, money, contributions>>
    BY <1>1 DEF ReadLedger
  <2>2. DOMAIN ledgers \subseteq DOMAIN periods
    BY DEF LedgerInv, UpToDate
  <2>3. QED
    BY <2>1, <2>2, LedgerReadFollowed
<1>2. CASE RecalculateFrom(k)
  <2> DEFINE from == periods[k].start
  <2>1. Recalculate(SameRows, money, contributions, from)
    BY <1>2 DEF RecalculateFrom
  <2>2. from \in Nat
    BY RowsOfTables DEF LedgerInv
  <2>3. SameRows.txs = txs /\ SameRows.periods = periods
    BY DEF SameRows
  <2> HIDE DEF from
  <2>4. QED
    BY <2>1, <2>2, <2>3, NothingChanges, Recalculated
<1>3. QED
  BY <1>1, <1>2

LEMMA MigrationFollowed ==
  ASSUME LedgerInv, TablesFollow, MigratePeriods
  PROVE  LedgersFollow
<1> DEFINE R == Rebuild(txs, periods, 0, {})
<1>1. Recalculate(R, money, contributions, 0)
  BY DEF MigratePeriods
<1>2. /\ SameDates(txs, R.txs) /\ Proved!IsSequence(R.periods)
  BY LedgerTables, RebuildChanges
<1> HIDE DEF R
<1>3. SamePeriods(periods, R.periods, 0)
  BY <1>2, LedgerTables DEF SamePeriods, Proved!IsSequence, Proved!Period
<1>4. SameMovements(txs, money, R.txs, money, 0)
  <2>1. \A i \in DOMAIN txs : txs[i].date \in Nat
    BY RowsOfTables DEF LedgerInv
  <2>2. QED
    BY <1>2, <2>1 DEF SameMovements, SameDates
<1>5. SameContributions(contributions, contributions, 0)
  BY NothingChanges
<1>6. QED
  BY <1>1, <1>3, <1>4, <1>5, Recalculated

LEMMA NextLedger ==
  ASSUME NoLoanAtMidnight, LedgerInv, [Next]_vars
  PROVE  LedgerInv'
<1>1. Coupled' /\ TablesFollow
  BY TablesStep DEF TablesFollow
<1>2. LedgersFollow
  <2>1. CASE UNCHANGED vars
    BY <2>1 DEF vars, LedgerInv, LedgersFollow
  <2> SUFFICES ASSUME Next PROVE LedgersFollow
    BY <2>1
  <2>2. /\ scope \in Scopes /\ scope.types \subseteq Types /\ scope.instants \subseteq Instants
        /\ scope.loanInstants \subseteq Instants
    BY ScopesAssumption DEF LedgerInv, Coupled
  <2>3. ASSUME NEW i \in TxIds, NEW date \in scope.instants, NEW type \in scope.types,
               NEW amount \in Amounts,
               \/ CreateTransaction(i, date, type, amount)
               \/ UpdateTransaction(i, date, type, amount)
               \/ RecordPlanMovement(i, date, type, amount)
        PROVE  LedgersFollow
    <3>1. date \in Instants /\ type \in Types
      BY <2>2
    <3>2. CASE CreateTransaction(i, date, type, amount) \/ RecordPlanMovement(i, date, type, amount)
      BY <1>1, <3>1, <3>2, InsertFollowed DEF CreateTransaction, RecordPlanMovement
    <3>3. CASE UpdateTransaction(i, date, type, amount)
      BY <1>1, <3>1, <3>3, EditFollowed DEF UpdateTransaction
    <3>4. QED
      BY <2>3, <3>2, <3>3
  <2>4. ASSUME NEW i \in TxIds, NEW date \in scope.loanInstants,
               (\E amount \in Amounts : RecordLoanMovement(i, date, amount)) \/ MoveLoan(i, date)
        PROVE  LedgersFollow
    <3>1. date \in Instants /\ StartOfFinancialDay(date) # date
      BY <2>2 DEF NoLoanAtMidnight
    <3>2. ASSUME NEW amount \in Amounts, RecordLoanMovement(i, date, amount)
          PROVE  LedgersFollow
      <4>1. "loan" \in Types
        BY <2>2, <3>2 DEF RecordLoanMovement
      <4>2. QED
        BY <1>1, <3>1, <3>2, <4>1, RecordLoanFollowed
    <3>3. CASE MoveLoan(i, date)
      BY <1>1, <3>1, <3>3, MoveLoanFollowed
    <3>4. QED
      BY <2>4, <3>2, <3>3
  <2>5. ASSUME NEW i \in TxIds, NEW date \in scope.instants, NEW amount \in Amounts,
               MovePurchase(i, date, amount)
        PROVE  LedgersFollow
    <3>1. i \in DOMAIN txs /\ Edit(i, date, "purchase", amount) /\ "purchase" \in Types
      BY <2>5 DEF MovePurchase, LedgerInv, Coupled, Tied
    <3>2. QED
      BY <1>1, <2>2, <3>1, EditFollowed
  <2>6. ASSUME NEW i \in TxIds, RemoveTransaction(i) \/ DropLoanMovement(i) \/ DropPlanMovement(i)
        PROVE  LedgersFollow
    BY <1>1, <2>6, DeleteFollowed, DropLoanFollowed DEF RemoveTransaction, DropPlanMovement
  <2>7. ASSUME NEW c \in scope.contributions, NEW goal \in Goals, NEW date \in scope.instants,
               NEW amount \in Amounts, AddContribution(c, goal, date, amount)
        PROVE  LedgersFollow
    BY <1>1, <2>2, <2>7, AddContributionFollowed
  <2>8. ASSUME NEW goal \in Goals, RemoveGoal(goal)
        PROVE  LedgersFollow
    BY <1>1, <2>8, RemoveGoalFollowed
  <2>9. ASSUME NEW now \in scope.instants, GetCurrentPeriod(now) \/ ReadCurrentLedger(now)
        PROVE  LedgersFollow
    BY <1>1, <2>2, <2>9, CurrentFollowed
  <2>10. ASSUME NEW k \in DOMAIN periods, ReadLedger(k) \/ RecalculateFrom(k)
         PROVE  LedgersFollow
    BY <1>1, <2>10, ReadFollowed
  <2>11. CASE MigratePeriods
    BY <1>1, <2>11, MigrationFollowed
  <2>12. QED
    BY <2>3, <2>4, <2>5, <2>6, <2>7, <2>8, <2>9, <2>10, <2>11 DEF Next
<1>3. QED
  BY <1>1, <1>2 DEF LedgerInv, TablesFollow, LedgersFollow
-----------------------------------------------------------------------------
(* What an up to date ledger says *)

\* What a period sums by periodId is what a reader would sum by date.
LEMMA SumsByDate ==
  ASSUME Tables(txs, periods, money, contributions), NEW k \in DOMAIN periods
  PROVE  /\ Income(txs, money, k) = DatedIn(periods[k], IncomeTypes)
         /\ Expenses(txs, money, k) = DatedIn(periods[k], EXPENSE_TYPES)
         /\ Savings(periods, contributions, k) = SavedIn(periods[k])
<1>1. \A i \in DOMAIN txs : txs[i].period = k <=> Covers(periods[k], txs[i].date)
  BY PeriodByDate
<1>2. {i \in DOMAIN txs : txs[i].period = k /\ money[i].type \in IncomeTypes} =
      {i \in DOMAIN txs : Covers(periods[k], txs[i].date) /\ money[i].type \in IncomeTypes}
  BY <1>1
<1>3. {i \in DOMAIN txs : txs[i].period = k /\ money[i].type \in EXPENSE_TYPES} =
      {i \in DOMAIN txs : Covers(periods[k], txs[i].date) /\ money[i].type \in EXPENSE_TYPES}
  BY <1>1
<1>4. QED
  BY <1>2, <1>3 DEF Income, Expenses, Savings, DatedIn, SavedIn

\* The ledger of a period, whatever was created, edited, moved or deleted since,
\* holds the income, the expenses and the contributions dated in that period:
\* every request recalculates from a date before which it has changed nothing.
THEOREM LedgersAlwaysMatchMovements ==
  ASSUME NoLoanAtMidnight
  PROVE  Spec => []LedgersMatchMovements
<1>1. LedgerInv => LedgersMatchMovements
  <2> SUFFICES ASSUME LedgerInv, NEW k \in DOMAIN ledgers
               PROVE  /\ ledgers[k].income = DatedIn(periods[k], IncomeTypes)
                      /\ ledgers[k].expenses = DatedIn(periods[k], EXPENSE_TYPES)
                      /\ ledgers[k].savings = SavedIn(periods[k])
    BY DEF LedgersMatchMovements
  <2>1. /\ k \in DOMAIN periods
        /\ ledgers[k].income = Income(txs, money, k)
        /\ ledgers[k].expenses = Expenses(txs, money, k)
        /\ ledgers[k].savings = Savings(periods, contributions, k)
    BY DEF LedgerInv, UpToDate
  <2>2. QED
    BY <2>1, SumsByDate DEF LedgerInv
<1>2. LedgerInv /\ [Next]_vars => LedgerInv'
  BY NextLedger
<1>3. QED
  BY <1>1, <1>2, InitLedger, PTL DEF Spec

\* The time of the periods up to one of them.
Since(P, k) == [start |-> Min(StartsOf(P, DOMAIN P)), end |-> P[k].end]

\* A date is in it when it is in one of those periods.
LEMMA DatesUpTo ==
  ASSUME NEW T, NEW P, NEW M, NEW C, Tables(T, P, M, C), NEW k \in DOMAIN P, NEW date \in Nat
  PROVE  Covers(Since(P, k), date) <=> \E j \in UpTo(P, k) : Covers(P[j], date)
<1> DEFINE starts == StartsOf(P, DOMAIN P)
           p == Since(P, k)
<1>1. \A j \in DOMAIN P : P[j].start \in Nat /\ P[j].end \in Nat \union {Null}
  BY RowsOfTables
<1>2. /\ starts \in SUBSET Nat /\ starts # {}
      /\ \A j \in DOMAIN P : P[j].start \in starts
      /\ \A n \in starts : \E j \in DOMAIN P : P[j].start = n
  BY <1>1 DEF StartsOf
<1>3. p.start = Min(starts) /\ p.end = P[k].end
  BY DEF Since
<1> HIDE DEF starts, p
<1>4. Min(starts) \in starts /\ \A n \in starts : Min(starts) <= n
  BY <1>2, LeastDate
<1>5. Null \notin Nat
  BY KeysAssumption
<1>6. ASSUME Covers(p, date)
      PROVE  \E j \in UpTo(P, k) : Covers(P[j], date)
  <2>1. PICK m \in DOMAIN P : P[m].start <= date
    BY <1>2, <1>3, <1>4, <1>6 DEF Covers
  <2>2. Proved!CoveringKeys(P, date) # {}
    BY <2>1, RowsAssumptions, Proved!PartitionCovers DEF Tables, Proved!Consistent
  <2>3. PICK j \in DOMAIN P : Covers(P[j], date)
    BY <2>2 DEF Proved!CoveringKeys, Proved!Covers, Covers
  <2>4. ASSUME P[k].start < P[j].start
        PROVE  FALSE
    <3>1. P[k].end # Null /\ P[k].end <= P[j].start
      BY <2>4, PeriodsOfTables
    <3>2. date < P[k].end /\ P[j].start <= date
      BY <1>3, <1>6, <2>3, <3>1 DEF Covers
    <3>3. QED
      BY <1>1, <3>1, <3>2
  <2>5. j \in UpTo(P, k)
    BY <1>1, <2>4 DEF UpTo
  <2>6. QED
    BY <2>3, <2>5
<1>7. ASSUME NEW j \in UpTo(P, k), Covers(P[j], date)
      PROVE  Covers(p, date)
  <2>1. j \in DOMAIN P /\ P[j].start <= P[k].start
    BY DEF UpTo
  <2>2. Min(starts) <= P[j].start /\ Min(starts) \in Nat
    BY <1>2, <1>4, <2>1
  <2>3. Min(starts) <= date
    BY <1>1, <1>7, <2>1, <2>2 DEF Covers
  <2>4. P[k].end = Null \/ date < P[k].end
    <3>1. CASE P[j].start = P[k].start
      <4>1. j = k
        BY <2>1, <3>1, PeriodsOfTables
      <4>2. QED
        BY <1>7, <4>1 DEF Covers
    <3>2. CASE P[j].start < P[k].start
      <4>1. P[j].end # Null /\ P[j].end <= P[k].start
        BY <2>1, <3>2, PeriodsOfTables
      <4>2. P[k].end # Null => P[k].start < P[k].end
        BY PeriodsOfTables
      <4>3. date < P[j].end
        BY <1>7, <4>1 DEF Covers
      <4>4. QED
        BY <1>1, <2>1, <4>1, <4>2, <4>3
    <3>3. QED
      BY <1>1, <2>1, <3>1, <3>2
  <2>5. QED
    BY <1>3, <2>3, <2>4 DEF Covers
<1>8. QED
  BY <1>6, <1>7 DEF p

\* What the periods up to one sum of some rows is what is dated in their time:
\* Part(j) are the rows of period j.
LEMMA TotalsUpTo ==
  ASSUME NEW K, IsFiniteSet(K), NEW table, NEW part, NEW ids, IsFiniteSet(ids),
         \A i \in ids : table[i].amount \in Nat,
         part \in [K -> SUBSET ids],
         \A j, k \in K : j # k => part[j] \intersect part[k] = {},
         \A i \in ids : \E j \in K : i \in part[j],
         NEW sums, \A j \in K : sums[j] = Total(table, part[j])
  PROVE  Total(table, ids) = SumFunctionOnSet(sums, K)
<1> DEFINE h == [i \in ids |-> table[i].amount]
<1>1. Total(table, ids) = SumFunctionOnSet(h, ids)
  BY TotalIsSum
<1>2. \A i \in ids : h[i] \in Int /\ h[i] = table[i].amount
  OBVIOUS
<1>3. UNION {part[j] : j \in K} = ids
  OBVIOUS
<1> HIDE DEF h
<1>4. ASSUME NEW j \in K
      PROVE  sums[j] = SumFunctionOnSet(h, part[j])
  <2> DEFINE own == part[j]
             g == [i \in own |-> table[i].amount]
  <2>1. own \in SUBSET ids /\ IsFiniteSet(own)
    BY FS_Subset
  <2>2. sums[j] = Total(table, own)
    OBVIOUS
  <2> HIDE DEF own
  <2>3. Total(table, own) = SumFunctionOnSet(g, own)
    BY <2>1, TotalIsSum
  <2>4. \A i \in own : g[i] = h[i]
    BY <1>2, <2>1
  <2> HIDE DEF g
  <2>5. SumFunctionOnSet(g, own) = SumFunctionOnSet(h, own)
    BY <2>1, <2>4, SameSum
  <2>6. QED
    BY <2>2, <2>3, <2>5 DEF own
<1>5. QED
  BY <1>1, <1>2, <1>3, <1>4, SumOfParts

\* The running balance, in the words of the property.
LEMMA BalanceByDate ==
  ASSUME Tables(txs, periods, money, contributions), NEW k \in DOMAIN periods
  PROVE  Balance(txs, periods, money, contributions, k) =
            DatedIn(Since(periods, k), IncomeTypes) - DatedIn(Since(periods, k), EXPENSE_TYPES)
               - SavedIn(Since(periods, k))
<1> DEFINE K == UpTo(periods, k)
           p == Since(periods, k)
           earned == [j \in DOMAIN periods |-> Income(txs, money, j)]
           spent == [j \in DOMAIN periods |-> Expenses(txs, money, j)]
           saved == [j \in DOMAIN periods |-> Savings(periods, contributions, j)]
           out == [j \in DOMAIN periods |-> spent[j] + saved[j]]
           nets == Nets(txs, periods, money, contributions)
<1>1. /\ IsFiniteSet(DOMAIN txs) /\ IsFiniteSet(DOMAIN periods) /\ IsFiniteSet(DOMAIN contributions)
      /\ \A i \in DOMAIN txs : txs[i].date \in Nat /\ money[i].amount \in Nat
      /\ \A c \in DOMAIN contributions : contributions[c].date \in Nat /\ contributions[c].amount \in Nat
  BY RowsOfTables
<1>2. K \subseteq DOMAIN periods /\ IsFiniteSet(K)
  BY <1>1, FS_Subset DEF UpTo
<1>3. \A date \in Nat : Covers(p, date) <=> \E j \in K : Covers(periods[j], date)
  BY DatesUpTo
<1>4. \A date \in Nat, i, j \in DOMAIN periods :
         Covers(periods[i], date) /\ Covers(periods[j], date) => i = j
  BY PeriodsOfTables
<1>5. \A j \in DOMAIN periods :
        /\ Income(txs, money, j) = DatedIn(periods[j], IncomeTypes)
        /\ Expenses(txs, money, j) = DatedIn(periods[j], EXPENSE_TYPES)
        /\ Savings(periods, contributions, j) = SavedIn(periods[j])
  BY SumsByDate
<1>6. \A j \in DOMAIN periods : earned[j] \in Int /\ spent[j] \in Int /\ saved[j] \in Int
  BY SumsOfPeriods
<1> HIDE DEF K, p
<1>7. ASSUME NEW types, NEW sums, \A j \in K : sums[j] = DatedIn(periods[j], types)
      PROVE  DatedIn(p, types) = SumFunctionOnSet(sums, K)
  <2> DEFINE ids == {i \in DOMAIN txs : Covers(p, txs[i].date) /\ money[i].type \in types}
             part == [j \in K |-> {i \in DOMAIN txs : /\ Covers(periods[j], txs[i].date)
                                                      /\ money[i].type \in types}]
  <2>1. IsFiniteSet(ids) /\ \A i \in ids : money[i].amount \in Nat
    BY <1>1, FS_Subset
  <2>2. part \in [K -> SUBSET ids]
    BY <1>1, <1>3
  <2>3. \A i \in ids : \E j \in K : i \in part[j]
    BY <1>1, <1>3
  <2>4. \A i, j \in K : i # j => part[i] \intersect part[j] = {}
    BY <1>1, <1>2, <1>4
  <2>5. \A j \in K : sums[j] = Total(money, part[j])
    BY <1>7 DEF DatedIn
  <2>6. DatedIn(p, types) = Total(money, ids)
    BY DEF DatedIn
  <2> HIDE DEF ids, part
  <2>7. QED
    BY <1>2, <2>1, <2>2, <2>3, <2>4, <2>5, <2>6, TotalsUpTo
<1>8. SavedIn(p) = SumFunctionOnSet(saved, K)
  <2> DEFINE ids == {c \in DOMAIN contributions : Covers(p, contributions[c].date)}
             part == [j \in K |-> {c \in DOMAIN contributions :
                                     Covers(periods[j], contributions[c].date)}]
  <2>1. IsFiniteSet(ids) /\ \A c \in ids : contributions[c].amount \in Nat
    BY <1>1, FS_Subset
  <2>2. part \in [K -> SUBSET ids]
    BY <1>1, <1>3
  <2>3. \A c \in ids : \E j \in K : c \in part[j]
    BY <1>1, <1>3
  <2>4. \A i, j \in K : i # j => part[i] \intersect part[j] = {}
    BY <1>1, <1>2, <1>4
  <2>5. \A j \in K : saved[j] = Total(contributions, part[j])
    BY <1>2, <1>5 DEF SavedIn
  <2>6. SavedIn(p) = Total(contributions, ids)
    BY DEF SavedIn
  <2> HIDE DEF ids, part, saved
  <2>7. QED
    BY <1>2, <2>1, <2>2, <2>3, <2>4, <2>5, <2>6, TotalsUpTo
<1>9. \A j \in K : earned[j] = DatedIn(periods[j], IncomeTypes)
                   /\ spent[j] = DatedIn(periods[j], EXPENSE_TYPES)
  BY <1>2, <1>5
<1>10. \A j \in K : /\ earned[j] \in Int /\ spent[j] \in Int /\ saved[j] \in Int
                    /\ out[j] = spent[j] + saved[j] /\ out[j] \in Int
                    /\ nets[j] \in Int /\ earned[j] = nets[j] + out[j]
  <2>1. \A j \in K : nets[j] = earned[j] - spent[j] - saved[j]
    BY <1>2 DEF Nets, Net
  <2>2. \A j \in K : earned[j] \in Int /\ spent[j] \in Int /\ saved[j] \in Int
    BY <1>2, <1>6
  <2>3. \A j \in K : out[j] = spent[j] + saved[j]
    BY <1>2
  <2> HIDE DEF earned, spent, saved, out, nets
  <2>4. QED
    BY <2>1, <2>2, <2>3
<1>11. Balance(txs, periods, money, contributions, k) = SumFunctionOnSet(nets, K)
  BY DEF Balance, K
<1> HIDE DEF earned, spent, saved, out, nets
<1>12. DatedIn(p, IncomeTypes) = SumFunctionOnSet(earned, K)
  BY <1>7, <1>9
<1>13. DatedIn(p, EXPENSE_TYPES) = SumFunctionOnSet(spent, K)
  BY <1>7, <1>9
<1>14. SumFunctionOnSet(earned, K) = SumFunctionOnSet(nets, K) + SumFunctionOnSet(out, K)
  BY <1>2, <1>10, SumOfTables
<1>15. SumFunctionOnSet(out, K) = SumFunctionOnSet(spent, K) + SumFunctionOnSet(saved, K)
  BY <1>2, <1>10, SumOfTables
<1>16. /\ SumFunctionOnSet(nets, K) \in Int /\ SumFunctionOnSet(spent, K) \in Int
       /\ SumFunctionOnSet(saved, K) \in Int
  BY <1>2, <1>10, SumIsInt
<1>17. QED
  BY <1>8, <1>11, <1>12, <1>13, <1>14, <1>15, <1>16 DEF p

\* A period closes with the running balance of all that is dated since the first
\* period began: the cascade starts from a ledger that was right, and adds up
\* every period behind it.
THEOREM ClosingIsAlwaysRunningBalance ==
  ASSUME NoLoanAtMidnight
  PROVE  Spec => []ClosingIsRunningBalance
<1>1. LedgerInv => ClosingIsRunningBalance
  <2> SUFFICES ASSUME LedgerInv, NEW k \in DOMAIN ledgers
               PROVE  ledgers[k].closing =
                         DatedIn(Since(periods, k), IncomeTypes)
                            - DatedIn(Since(periods, k), EXPENSE_TYPES)
                            - SavedIn(Since(periods, k))
    BY DEF ClosingIsRunningBalance, Since
  <2>1. /\ k \in DOMAIN periods
        /\ ledgers[k].closing = Balance(txs, periods, money, contributions, k)
    BY DEF LedgerInv, UpToDate
  <2>2. QED
    BY <2>1, BalanceByDate DEF LedgerInv
<1>2. LedgerInv /\ [Next]_vars => LedgerInv'
  BY NextLedger
<1>3. QED
  BY <1>1, <1>2, InitLedger, PTL DEF Spec

-----------------------------------------------------------------------------
(* The invariant of PeriodRebuild *)

Fields == {"at", "then", "id", "row", "date", "from", "cover", "got", "mine", "atomic",
           "rebuilt", "alone"}

\* Some rows, and all of them.
RowOf(key) == IF key \in PeriodRows THEN PeriodRow \union {Absent}
              ELSE TransactionRow \union {Absent}
AreRows(M) == DOMAIN M \subseteq Keys /\ \A key \in DOMAIN M : M[key] \in RowOf(key)
AreTables(V) == AreRows(V) /\ V = [key \in Keys |-> V[key]]

\* The rows of transactions, or some of them.
IsRowTable(T) == DOMAIN T \subseteq TxIds /\ \A i \in DOMAIN T : T[i] \in TransactionRow

\* A request locates a period, or will.
Locating(q) ==
    \/ q.at \in {"locate", "find", "assign"}
    \/ q.then \in {<<"rebuild", "locate", "commit">>, <<"locate", "commit">>,
                   <<"find", "commit">>}

\* The steps a request goes through.
InStep(q) ==
    \/ /\ q.at = "write"
       /\ q.then \in {<<"rebuild", "locate", "commit">>, <<"locate", "commit">>,
                      <<"rebuild", "commit">>, <<"commit">>}
    \/ /\ q.at \in {"rebuild", "oldest", "existing", "writes", "reassign"}
       /\ q.then \in {<<"commit">>, <<"find", "commit">>, <<"locate", "commit">>}
    \/ q.at \in {"current", "locate", "find", "assign"} /\ q.then = <<"commit">>
    \/ q.at = "commit" /\ q.then = <<>>

\* The transaction a request is about, and whether it will still be there.
HasRow(q) ==
    q.id # 0 =>
        /\ q.id \in TxIds
        /\ q.atomic
        /\ q.at # "current"
        /\ q.at = "write" =>
              /\ Locating(q) <=> q.row # Absent
              /\ q.row # Absent => /\ q.date \in Instants
                                  /\ q.row.date = q.date
                                  /\ q.row.kind \in {"salary", "other"}

\* The rows a request has written, in particular that of its transaction.
HasWritten(q, mine) ==
    /\ ~ q.atomic => DOMAIN mine = {}
    /\ (q.id # 0 /\ q.at # "write") =>
          /\ Row(q.id) \in DOMAIN mine
          /\ Locating(q) => mine[Row(q.id)] # Absent
          /\ mine[Row(q.id)] # Absent => mine[Row(q.id)].date = q.date

Statements ==
    [op : {"delete"}, rows : SUBSET PeriodRows]
    \union [op : {"park"}, row : PeriodRows, start : Int]
    \union [op : {"update", "create"}, row : PeriodRows, values : PeriodRow]

\* What a request has read, by the step it is at.
HasRead(q) ==
    /\ q.at = "oldest" => IsRowTable(q.got)
    /\ q.at = "existing" => Proved!IsSequence(q.got) /\ Proved!Partition(q.got)
    /\ q.at = "writes" => q.got \in Seq(Statements)
    /\ q.at = "reassign" => DOMAIN q.got \subseteq PeriodRows
    /\ q.at = "assign" => q.got \in PeriodRows

IsRequest(q) ==
    /\ DOMAIN q = Fields
    /\ q.atomic \in BOOLEAN
    /\ q.date \in Nat
    /\ q.cover \in SUBSET Nat
    /\ q.at = "write" => q.id # 0
    /\ InStep(q)
    /\ HasRow(q)
    /\ HasRead(q)

\* The rows of periods P are D, each under its key.
IsRowwise(P, D) ==
    /\ DOMAIN P \subseteq PeriodRows
    /\ \A r \in DOMAIN P : r[2] \in DOMAIN D /\ P[r] = D[r[2]]
    /\ \A k \in DOMAIN D : \E r \in DOMAIN P : r[2] = k
    /\ \A r, s \in DOMAIN P : r[2] = s[2] => r = s

\* The periods the transactions of V ask for, back to cover.
Asked(V, cover) == DesiredPeriods(Transactions(V), cover)

\* The writes still to do make Q of the periods of V.
Leads(W, V, Q) ==
    /\ \A n \in 1..Len(W) :
          \/ W[n].op = "delete" /\ W[n].rows \intersect DOMAIN Q = {}
          \/ /\ W[n].op = "park" /\ W[n].row \in DOMAIN Q
             /\ \E m \in 1..Len(W) : /\ n < m /\ W[m].op = "update" /\ W[m].row = W[n].row
          \/ W[n].op \in {"update", "create"} /\ W[n].row \in DOMAIN Q
             /\ W[n].values = Q[W[n].row]
    /\ \A r \in DOMAIN Q :
          \/ V[r] = Q[r]
          \/ \E n \in 1..Len(W) : W[n].op \in {"update", "create"} /\ W[n].row = r
    /\ \A r \in PeriodRows \ DOMAIN Q :
          \/ V[r] = Absent
          \/ \E n \in 1..Len(W) : W[n].op = "delete" /\ r \in W[n].rows

\* A transaction is stored with the period that holds its date.
IsFiled(V) ==
    \A i \in DOMAIN Transactions(V), r \in DOMAIN Periods(V) :
        Covers(V[r], V[Row(i)].date) => V[Row(i)].period = r

\* What a request that no other overlaps with has left right so far, in the rows
\* V as it sees them.
RightSoFar(q, V) ==
    /\ q.at \in {"write", "current"} => ~ q.rebuilt
    /\ q.at = "oldest" => q.got = Restrict(Transactions(V), Salaries(Transactions(V)))
    /\ q.at = "existing" => q.got = Asked(V, q.cover)
    /\ q.at = "writes" => \E Q : IsRowwise(Q, Asked(V, q.cover)) /\ Leads(q.got, V, Q)
    /\ (q.rebuilt /\ q.at \in {"reassign", "locate", "find", "assign", "commit"}) =>
          IsRowwise(Periods(V), Asked(V, q.cover))
    /\ (q.rebuilt /\ q.at \in {"locate", "find", "assign", "commit"} /\ q.from = 0) => IsFiled(V)
    /\ q.at = "reassign" =>
          /\ q.rebuilt
          /\ \A r \in DOMAIN q.got : r \in DOMAIN Periods(V) /\ q.got[r] = V[r]
          /\ q.from = 0 =>
                \A i \in DOMAIN Transactions(V), r \in DOMAIN Periods(V) :
                    Covers(V[r], V[Row(i)].date) =>
                        V[Row(i)].period = r \/ r \in DOMAIN q.got
    /\ (q.at = "assign" /\ q.rebuilt) => q.got \in CoveringKeys(Periods(V), q.date)

RebuildInv ==
    /\ AreTables(db)
    /\ DOMAIN tx = Clients
    /\ \A c \in Clients : tx[c] # Idle =>
          /\ IsRequest(tx[c])
          /\ AreRows(tx[c].mine)
          /\ HasWritten(tx[c], tx[c].mine)
          /\ tx[c].alone => Others(c) = {} /\ RightSoFar(tx[c], Seen(c))

-----------------------------------------------------------------------------
(* Rows *)

LEMMA KeysApart ==
  /\ \A i : Row(i) \notin PeriodRows
  /\ \A i, j : Row(i) = Row(j) => i = j
  /\ \A i \in TxIds : Row(i) \in Keys
  /\ PeriodRows \subseteq Keys
  /\ \A key \in Keys \ PeriodRows : \E i \in TxIds : key = Row(i)
<1>1. \A i : Row(i) \notin PeriodRows
  BY DEF Row, PeriodRows
<1>2. \A i, j : Row(i) = Row(j) => i = j
  BY DEF Row
<1>3. QED
  BY <1>1, <1>2 DEF Keys

LEMMA PeriodRowParts ==
  /\ \A r \in PeriodRows : r[2] \in TxIds \union {Bootstrap}
  /\ \A k \in TxIds \union {Bootstrap}, c \in Clients \union {Before} :
        <<"period", k, c>> \in PeriodRows /\ <<"period", k, c>>[2] = k
BY DEF PeriodRows

LEMMA OverRows ==
  ASSUME NEW M, AreRows(M), NEW N, AreRows(N)
  PROVE  /\ AreRows(Over(M, N))
         /\ DOMAIN Over(M, N) = DOMAIN M \union DOMAIN N
         /\ AreTables(N) => AreTables(Over(M, N))
BY DEF AreRows, AreTables, Over

LEMMA OverTwice ==
  ASSUME NEW M, NEW N, NEW V
  PROVE  Over(Over(M, N), V) = Over(M, Over(N, V))
BY DEF Over

LEMMA OverNothing ==
  ASSUME NEW M, DOMAIN M = {}, NEW V, V = [key \in Keys |-> V[key]]
  PROVE  Over(M, V) = V
BY DEF Over

\* What the rows say.
LEMMA TableRows ==
  ASSUME NEW V, AreTables(V)
  PROVE  /\ IsRowTable(Transactions(V))
         /\ \A i \in TxIds : i \in DOMAIN Transactions(V) <=> V[Row(i)] # Absent
         /\ \A i \in DOMAIN Transactions(V) :
               Transactions(V)[i] = V[Row(i)] /\ V[Row(i)] \in TransactionRow
         /\ DOMAIN Periods(V) \subseteq PeriodRows
         /\ \A r \in PeriodRows : r \in DOMAIN Periods(V) <=> V[r] # Absent
         /\ \A r \in DOMAIN Periods(V) : Periods(V)[r] = V[r] /\ V[r] \in PeriodRow
<1>1. \A i \in TxIds : V[Row(i)] \in TransactionRow \union {Absent}
  BY KeysApart DEF AreTables, AreRows, RowOf
<1>2. \A r \in PeriodRows : V[r] \in PeriodRow \union {Absent}
  BY KeysApart DEF AreTables, AreRows, RowOf
<1>3. QED
  BY <1>1, <1>2 DEF Transactions, Periods, IsRowTable

-----------------------------------------------------------------------------
(* What the transactions of some rows ask for *)

LEMMA NamedRows ==
  ASSUME NEW T, IsRowTable(T)
  PROVE  LET U == [i \in DOMAIN T |->
                     [T[i] EXCEPT !.period = IF @ = Null THEN Null ELSE @[2]]]
         IN  /\ Proved!IsTable(U)
             /\ DOMAIN U = DOMAIN T
             /\ \A i \in DOMAIN T : U[i].date = T[i].date /\ U[i].kind = T[i].kind
<1> DEFINE U == [i \in DOMAIN T |->
                     [T[i] EXCEPT !.period = IF @ = Null THEN Null ELSE @[2]]]
<1>1. ASSUME NEW i \in DOMAIN T
      PROVE  /\ U[i] \in Proved!Transaction
             /\ U[i].date = T[i].date /\ U[i].kind = T[i].kind
  <2>1. T[i] \in TransactionRow
    BY DEF IsRowTable
  <2>2. (IF T[i].period = Null THEN Null ELSE T[i].period[2]) \in TxIds \union {Bootstrap, Null}
    BY <2>1, PeriodRowParts DEF TransactionRow
  <2>3. U[i] = [T[i] EXCEPT !.period = IF T[i].period = Null THEN Null ELSE T[i].period[2]]
    OBVIOUS
  <2> HIDE DEF U
  <2>4. QED
    BY <2>1, <2>2, <2>3 DEF TransactionRow, Proved!Transaction, Proved!Kinds, Proved!Keys
<1>2. QED
  BY <1>1 DEF IsRowTable, Proved!IsTable

\* The periods are those of the dates and of the kinds.
LEMMA DesiredByDates ==
  ASSUME NEW T, NEW U, DOMAIN T = DOMAIN U,
         \A i \in DOMAIN T : T[i].date = U[i].date /\ T[i].kind = U[i].kind,
         NEW cover
  PROVE  /\ DesiredPeriods(T, cover) = DesiredPeriods(U, cover)
         /\ Anchors(T) = Anchors(U)
<1>1. Salaries(T) = Salaries(U) /\ Salaries(T) \subseteq DOMAIN T
  BY DEF Salaries, IsSalary
<1>2. Anchors(T) = Anchors(U) /\ Anchors(T) \subseteq DOMAIN T
  <2>1. \A i, j \in Salaries(T) : /\ SameDay(T, i, j) <=> SameDay(U, i, j)
                                  /\ Precedes(T, i, j) <=> Precedes(U, i, j)
    BY <1>1 DEF SameDay, Precedes
  <2>2. QED
    BY <1>1, <2>1 DEF Anchors
<1>3. DatesToReach(T, cover) = DatesToReach(U, cover)
  BY DEF DatesToReach
<1>4. NeedsBootstrap(T, cover) = NeedsBootstrap(U, cover)
  BY <1>2, <1>3 DEF NeedsBootstrap
<1>5. DesiredKeys(T, cover) = DesiredKeys(U, cover)
  BY <1>2, <1>4 DEF DesiredKeys
<1>6. \A k \in DesiredKeys(T, cover) : DesiredStart(T, cover, k) = DesiredStart(U, cover, k)
  <2>1. \A k \in DesiredKeys(T, cover) : k = Bootstrap \/ k \in DOMAIN T
    BY <1>2 DEF DesiredKeys
  <2>2. QED
    BY <1>3, <2>1 DEF DesiredStart
<1>7. [k \in DesiredKeys(T, cover) |-> DesiredStart(T, cover, k)]
        = [k \in DesiredKeys(U, cover) |-> DesiredStart(U, cover, k)]
  BY <1>5, <1>6
<1>8. QED
  BY <1>2, <1>5, <1>7 DEF DesiredPeriods

\* What rebuild() makes of some rows.
LEMMA DesiredOfRows ==
  ASSUME NEW T, IsRowTable(T), NEW cover \in SUBSET Nat
  PROVE  LET D == DesiredPeriods(T, cover)
         IN  /\ Proved!IsSequence(D)
             /\ Proved!Partition(D)
             /\ DOMAIN D \ {Bootstrap} = Anchors(T)
             /\ \A i \in Anchors(T) : D[i].start = StartOfFinancialDay(T[i].date)
             /\ \A date \in DatesToReach(T, cover) : CoveringKeys(D, date) # {}
<1> DEFINE U == [i \in DOMAIN T |->
                     [T[i] EXCEPT !.period = IF @ = Null THEN Null ELSE @[2]]]
           D == DesiredPeriods(T, cover)
<1>1. /\ Proved!IsTable(U)
      /\ DOMAIN U = DOMAIN T
      /\ \A i \in DOMAIN T : U[i].date = T[i].date /\ U[i].kind = T[i].kind
  BY NamedRows
<1> HIDE DEF U
<1>2. D = Proved!DesiredPeriods(U, cover) /\ Proved!Anchors(U) = Anchors(T)
  BY <1>1, DesiredByDates, SameDesired, SameAnchors
<1>3. Anchors(T) \subseteq DOMAIN T
  BY DEF Anchors, Salaries
<1>4. Proved!DatesToReach(U, cover) = DatesToReach(T, cover)
  BY <1>1 DEF Proved!DatesToReach, DatesToReach
<1>5. Proved!IsSequence(D) /\ Proved!Partition(D) /\ Proved!FollowsSalaries(U, D)
  BY <1>1, <1>2, Proved!DesiredIsPartition, RowsAssumptions
<1>6. \A date \in DatesToReach(T, cover) : CoveringKeys(D, date) # {}
  BY <1>1, <1>2, <1>4, Proved!DesiredReaches, RowsAssumptions, SameCovering
<1>7. QED
  BY <1>1, <1>2, <1>3, <1>5, <1>6, SameStartOfDay DEF Proved!FollowsSalaries

-----------------------------------------------------------------------------
(* The rows in the order of their starts *)

LEMMA StartsSorted ==
  ASSUME NEW Q, NEW rows, IsFiniteSet(rows),
         \A r \in rows : Q[r].start \in Int,
         \A r, s \in rows : Q[r].start = Q[s].start => r = s
  PROVE  /\ ByStart(Q, rows) \in Seq(rows)
         /\ Len(ByStart(Q, rows)) = Cardinality(rows)
         /\ \A r \in rows : \E n \in 1..Len(ByStart(Q, rows)) : ByStart(Q, rows)[n] = r
<1> DEFINE rank == [r \in rows |-> Cardinality({s \in rows : Q[s].start <= Q[r].start})]
           size == Cardinality(rows)
           sorted == ByStart(Q, rows)
<1>1. /\ rank \in Injection(rows, 1..size)
      /\ rank \in Surjection(rows, 1..size)
  BY StartsRanked
<1>2. size \in Nat
  BY FS_CardinalityType
<1>3. ASSUME NEW n \in 1..size
      PROVE  sorted[n] \in rows /\ rank[sorted[n]] = n
  <2>1. \E r \in rows : rank[r] = n
    BY <1>1 DEF Surjection
  <2>2. \E r \in rows : Cardinality({s \in rows : Q[s].start <= Q[r].start}) = n
    BY <2>1
  <2>3. sorted[n] = StartsAt(Q, rows, n)
    BY DEF ByStart
  <2>4. /\ StartsAt(Q, rows, n) \in rows
        /\ Cardinality({s \in rows : Q[s].start <= Q[StartsAt(Q, rows, n)].start}) = n
    BY <2>2 DEF StartsAt
  <2>5. rank[StartsAt(Q, rows, n)] = n
    BY <2>4
  <2>6. QED
    BY <2>3, <2>4, <2>5
<1>4. sorted = [n \in 1..size |-> sorted[n]]
  BY DEF ByStart
<1> HIDE DEF rank, sorted
<1>5. \A n \in 1..size : sorted[n] \in rows /\ rank[sorted[n]] = n
  BY <1>3
<1>6. \A r \in rows : rank[r] \in 1..size /\ sorted[rank[r]] = r
  BY <1>1, <1>5 DEF Injection, IsInjective
<1>7. sorted \in [1..size -> rows]
  BY <1>4, <1>5
<1>8. sorted \in Seq(rows) /\ Len(sorted) = size
  BY <1>2, <1>7
<1>9. QED
  BY <1>6, <1>8 DEF sorted

-----------------------------------------------------------------------------
(* The period of a date among stored rows *)

\* Of the periods that hold a date one starts last, whatever the rows are.
LEMMA LatestCovers ==
  ASSUME NEW P, \A r \in DOMAIN P : P[r].start \in Int,
         NEW date \in Nat, CoveringKeys(P, date) # {}
  PROVE  PeriodForDate(P, date) \in CoveringKeys(P, date)
<1> DEFINE covering == CoveringKeys(P, date)
           age == {date - P[r].start : r \in covering}
<1>1. \A r \in covering : r \in DOMAIN P /\ P[r].start \in Int /\ P[r].start <= date
  BY DEF CoveringKeys, Covers
<1>2. age \in SUBSET Nat /\ age # {}
  BY <1>1
<1>3. PICK m \in age : \A n \in age : m <= n
  BY <1>2, Proved!LeastElement, RowsAssumptions
<1>4. PICK r \in covering : m = date - P[r].start
  OBVIOUS
<1>5. \A s \in covering : date - P[s].start \in age
  OBVIOUS
<1>6. \A s \in covering : P[s].start <= P[r].start
  <2> HIDE DEF age, covering
  <2>1. QED
    BY <1>1, <1>3, <1>4, <1>5
<1>7. QED
  BY <1>6 DEF PeriodForDate

-----------------------------------------------------------------------------
(* The writes that make one sequence of the other *)

\* The four lists of statements that make Q of P.
AreWrites(P, Q, A, B, C, D) ==
    /\ A \in Seq(Statements) /\ B \in Seq(Statements)
    /\ C \in Seq(Statements) /\ D \in Seq(Statements)
    /\ \A n \in 1..Len(A) : A[n].op = "delete" /\ A[n].rows = Superfluous(P, Q)
    /\ \A r \in Superfluous(P, Q) : \E n \in 1..Len(A) : A[n].op = "delete" /\ r \in A[n].rows
    /\ \A n \in 1..Len(B) : B[n].op = "park" /\ B[n].row \in Moving(P, Q)
    /\ \A n \in 1..Len(C) : /\ C[n].op = "update" /\ C[n].row \in Changed(P, Q)
                            /\ C[n].values = Q[C[n].row]
    /\ \A r \in Changed(P, Q) : \E n \in 1..Len(C) : C[n].row = r
    /\ \A n \in 1..Len(D) : /\ D[n].op = "create" /\ D[n].row \in DOMAIN Q \ DOMAIN P
                            /\ D[n].values = Q[D[n].row]
    /\ \A r \in DOMAIN Q \ DOMAIN P : \E n \in 1..Len(D) : D[n].row = r

LEMMA WritesParts ==
  ASSUME NEW P, DOMAIN P \subseteq PeriodRows,
         NEW Q, DOMAIN Q \subseteq PeriodRows, IsFiniteSet(DOMAIN Q),
         \A r \in DOMAIN Q : Q[r] \in PeriodRow,
         \A r, s \in DOMAIN Q : Q[r].start = Q[s].start => r = s
  PROVE  AreWrites(P, Q, Deletion(Superfluous(P, Q)), Parked(ByStart(Q, Moving(P, Q))),
                   OneByOneTo(Q, ByStart(Q, Changed(P, Q)), "update"),
                   OneByOneTo(Q, ByStart(Q, DOMAIN Q \ DOMAIN P), "create"))
<1> DEFINE A == Deletion(Superfluous(P, Q))
           B == Parked(ByStart(Q, Moving(P, Q)))
           C == OneByOneTo(Q, ByStart(Q, Changed(P, Q)), "update")
           D == OneByOneTo(Q, ByStart(Q, DOMAIN Q \ DOMAIN P), "create")
<1>1. \A r \in DOMAIN Q : Q[r].start \in Int
  BY DEF PeriodRow
<1>2. ASSUME NEW rows \in SUBSET DOMAIN Q
      PROVE  /\ ByStart(Q, rows) \in Seq(rows)
             /\ Len(ByStart(Q, rows)) \in Nat
             /\ \A n \in 1..Len(ByStart(Q, rows)) : ByStart(Q, rows)[n] \in rows
             /\ \A r \in rows : \E n \in 1..Len(ByStart(Q, rows)) : ByStart(Q, rows)[n] = r
  <2>1. IsFiniteSet(rows)
    BY FS_Subset
  <2>2. /\ ByStart(Q, rows) \in Seq(rows)
        /\ \A r \in rows : \E n \in 1..Len(ByStart(Q, rows)) : ByStart(Q, rows)[n] = r
    BY <1>1, <2>1, StartsSorted
  <2>3. QED
    BY <2>2, ElementOfSeq, LenProperties
<1>3. Moving(P, Q) \in SUBSET DOMAIN Q /\ Changed(P, Q) \in SUBSET DOMAIN Q
  BY DEF Moving, Changed
<1>4. /\ A \in Seq(Statements)
      /\ \A n \in 1..Len(A) : A[n].op = "delete" /\ A[n].rows = Superfluous(P, Q)
      /\ \A r \in Superfluous(P, Q) : \E n \in 1..Len(A) :
            A[n].op = "delete" /\ r \in A[n].rows
  <2>1. CASE Superfluous(P, Q) = {}
    BY <2>1 DEF Deletion
  <2>2. CASE Superfluous(P, Q) # {}
    <3>1. A = <<[op |-> "delete", rows |-> Superfluous(P, Q)]>>
      BY <2>2 DEF Deletion
    <3>2. [op |-> "delete", rows |-> Superfluous(P, Q)] \in Statements
      BY DEF Statements, Superfluous
    <3> HIDE DEF A
    <3>3. A \in Seq(Statements) /\ Len(A) = 1
      BY <3>1, <3>2
    <3>4. A[1] = [op |-> "delete", rows |-> Superfluous(P, Q)]
      BY <3>1
    <3>5. QED
      BY <3>3, <3>4
  <2>3. QED
    BY <2>1, <2>2
<1>5. B \in Seq(Statements) /\ \A n \in 1..Len(B) : B[n].op = "park" /\ B[n].row \in Moving(P, Q)
  <2> DEFINE M == ByStart(Q, Moving(P, Q))
  <2>1. Len(M) \in Nat /\ \A n \in 1..Len(M) : M[n] \in Moving(P, Q)
    BY <1>2, <1>3
  <2> HIDE DEF M
  <2>2. B = [n \in 1..Len(M) |-> [op |-> "park", row |-> M[n], start |-> -n]]
    BY DEF M, Parked
  <2>3. \A n \in 1..Len(M) : [op |-> "park", row |-> M[n], start |-> -n] \in Statements
    BY <1>3, <2>1 DEF Statements
  <2> HIDE DEF B
  <2>4. B \in [1..Len(M) -> Statements]
    BY <2>2, <2>3
  <2>5. B \in Seq(Statements) /\ Len(B) = Len(M)
    BY <2>1, <2>4, ListIsSeq
  <2>6. QED
    BY <2>1, <2>2, <2>5
<1>6. ASSUME NEW rows \in SUBSET DOMAIN Q, NEW op \in {"update", "create"}
      PROVE  LET W == OneByOneTo(Q, ByStart(Q, rows), op)
             IN  /\ W \in Seq(Statements)
                 /\ \A n \in 1..Len(W) : /\ W[n].op = op /\ W[n].row \in rows
                                         /\ W[n].values = Q[W[n].row]
                 /\ \A r \in rows : \E n \in 1..Len(W) : W[n].row = r
  <2> DEFINE M == ByStart(Q, rows)
             W == OneByOneTo(Q, ByStart(Q, rows), op)
  <2>1. /\ Len(M) \in Nat /\ \A n \in 1..Len(M) : M[n] \in rows
        /\ \A r \in rows : \E n \in 1..Len(M) : M[n] = r
    BY <1>2
  <2>2. W = [n \in 1..Len(M) |-> [op |-> op, row |-> M[n], values |-> Q[M[n]]]]
    BY DEF OneByOneTo
  <2> HIDE DEF M, W
  <2>3. \A n \in 1..Len(M) : [op |-> op, row |-> M[n], values |-> Q[M[n]]] \in Statements
    <3> TAKE n \in 1..Len(M)
    <3>1. M[n] \in PeriodRows /\ Q[M[n]] \in PeriodRow
      BY <2>1
    <3>2. QED
      BY <3>1 DEF Statements
  <2>4. W \in [1..Len(M) -> Statements]
    BY <2>2, <2>3
  <2>5. W \in Seq(Statements) /\ Len(W) = Len(M)
    BY <2>1, <2>4, ListIsSeq
  <2>6. \A n \in 1..Len(W) : W[n].op = op /\ W[n].row = M[n] /\ W[n].values = Q[M[n]]
    BY <2>2, <2>5
  <2>7. QED
    BY <2>1, <2>5, <2>6 DEF W
<1>7. /\ C \in Seq(Statements)
      /\ \A n \in 1..Len(C) : /\ C[n].op = "update" /\ C[n].row \in Changed(P, Q)
                              /\ C[n].values = Q[C[n].row]
      /\ \A r \in Changed(P, Q) : \E n \in 1..Len(C) : C[n].row = r
  BY <1>3, <1>6
<1>8. /\ D \in Seq(Statements)
      /\ \A n \in 1..Len(D) : /\ D[n].op = "create" /\ D[n].row \in DOMAIN Q \ DOMAIN P
                              /\ D[n].values = Q[D[n].row]
      /\ \A r \in DOMAIN Q \ DOMAIN P : \E n \in 1..Len(D) : D[n].row = r
  <2>1. DOMAIN Q \ DOMAIN P \in SUBSET DOMAIN Q
    OBVIOUS
  <2>2. QED
    BY <1>6, <2>1
<1> HIDE DEF A, B, C, D
<1>9. AreWrites(P, Q, A, B, C, D)
  BY <1>4, <1>5, <1>7, <1>8 DEF AreWrites
<1>10. QED
  BY <1>9 DEF A, B, C, D

\* The writes are statements, and lead from the periods that are there to Q.
LEMMA WritesLead ==
  ASSUME NEW V, AreTables(V),
         NEW Q, DOMAIN Q \subseteq PeriodRows, IsFiniteSet(DOMAIN Q),
         \A r \in DOMAIN Q : Q[r] \in PeriodRow,
         \A r, s \in DOMAIN Q : Q[r].start = Q[s].start => r = s
  PROVE  /\ Writes(Periods(V), Q) \in Seq(Statements)
         /\ Leads(Writes(Periods(V), Q), V, Q)
<1> DEFINE P == Periods(V)
           A == Deletion(Superfluous(P, Q))
           B == Parked(ByStart(Q, Moving(P, Q)))
           C == OneByOneTo(Q, ByStart(Q, Changed(P, Q)), "update")
           D == OneByOneTo(Q, ByStart(Q, DOMAIN Q \ DOMAIN P), "create")
           W == Writes(P, Q)
<1>1. /\ DOMAIN P \subseteq PeriodRows
      /\ \A r \in PeriodRows : r \in DOMAIN P <=> V[r] # Absent
      /\ \A r \in DOMAIN P : P[r] = V[r]
  BY TableRows
<1> HIDE DEF P
<1>2. AreWrites(P, Q, A, B, C, D)
  BY <1>1, WritesParts
<1> DEFINE a == Len(A)
           b == Len(B)
           c == Len(C)
           d == Len(D)
<1>3. W = A \o B \o C \o D
  BY DEF Writes
<1> HIDE DEF A, B, C, D, W
<1> USE DEF AreWrites
<1>4. /\ W \in Seq(Statements)
      /\ Len(W) = a + b + c + d
      /\ \A n \in 1..a : W[n] = A[n]
      /\ \A n \in 1..b : W[a + n] = B[n]
      /\ \A n \in 1..c : W[a + b + n] = C[n]
      /\ \A n \in 1..d : W[a + b + c + n] = D[n]
  <2>1. /\ A \in Seq(Statements) /\ B \in Seq(Statements)
        /\ C \in Seq(Statements) /\ D \in Seq(Statements)
    BY <1>2
  <2>2. /\ W \in Seq(Statements)
        /\ Len(W) = Len(A) + Len(B) + Len(C) + Len(D)
        /\ \A n \in 1..Len(A) : W[n] = A[n]
        /\ \A n \in 1..Len(B) : W[Len(A) + n] = B[n]
        /\ \A n \in 1..Len(C) : W[Len(A) + Len(B) + n] = C[n]
        /\ \A n \in 1..Len(D) : W[Len(A) + Len(B) + Len(C) + n] = D[n]
    <3> HIDE DEF a, b, c, d
    <3>1. QED
      BY <1>3, <2>1, FourJoined, SMTT(30)
  <2>3. QED
    BY <2>2
<1>5. a \in Nat /\ b \in Nat /\ c \in Nat /\ d \in Nat
  BY <1>2, LenProperties
<1>d. \A n \in 1..a : A[n].op = "delete" /\ A[n].rows = Superfluous(P, Q)
  BY <1>2
<1>p. \A n \in 1..b : B[n].op = "park" /\ B[n].row \in Moving(P, Q)
  BY <1>2
<1>u. /\ \A n \in 1..c : /\ C[n].op = "update" /\ C[n].row \in Changed(P, Q)
                         /\ C[n].values = Q[C[n].row]
      /\ \A r \in Changed(P, Q) : \E n \in 1..c : C[n].row = r
  BY <1>2
<1>c. /\ \A n \in 1..d : /\ D[n].op = "create" /\ D[n].row \in DOMAIN Q \ DOMAIN P
                         /\ D[n].values = Q[D[n].row]
      /\ \A r \in DOMAIN Q \ DOMAIN P : \E n \in 1..d : D[n].row = r
  BY <1>2
<1> HIDE DEF a, b, c, d
<1>6. /\ \A n \in 1..a : n \in 1..Len(W)
      /\ \A n \in 1..b : a + n \in 1..Len(W)
      /\ \A n \in 1..c : a + b + n \in 1..Len(W)
      /\ \A n \in 1..d : a + b + c + n \in 1..Len(W)
      /\ \A n \in 1..b, m \in 1..c : a + n < a + b + m
  BY <1>4, <1>5
<1>7. Moving(P, Q) \subseteq Changed(P, Q) /\ Changed(P, Q) \subseteq DOMAIN Q
  BY DEF Moving, Changed
<1>8. ASSUME NEW n \in 1..Len(W)
      PROVE  \/ W[n].op = "delete" /\ W[n].rows \intersect DOMAIN Q = {}
             \/ /\ W[n].op = "park" /\ W[n].row \in DOMAIN Q
                /\ \E m \in 1..Len(W) : /\ n < m /\ W[m].op = "update" /\ W[m].row = W[n].row
             \/ W[n].op \in {"update", "create"} /\ W[n].row \in DOMAIN Q
                /\ W[n].values = Q[W[n].row]
  <2>1. CASE n \in 1..a
    <3>1. W[n].op = "delete" /\ W[n].rows = Superfluous(P, Q)
      BY <1>d, <1>4, <2>1
    <3>2. QED
      BY <3>1 DEF Superfluous
  <2>2. CASE \E m \in 1..b : n = a + m
    <3>1. PICK m \in 1..b : n = a + m
      BY <2>2
    <3>2. W[n].op = "park" /\ W[n].row \in Moving(P, Q)
      BY <1>p, <1>4, <3>1
    <3>3. PICK u \in 1..c : C[u].row = W[n].row
      BY <1>u, <1>7, <3>2
    <3>4. C[u].op = "update"
      BY <1>u
    <3>5. W[a + b + u].op = "update" /\ W[a + b + u].row = W[n].row
      BY <1>4, <3>3, <3>4
    <3>6. a + b + u \in 1..Len(W) /\ n < a + b + u
      BY <1>6, <3>1
    <3>7. QED
      BY <1>7, <3>2, <3>5, <3>6
  <2>3. CASE \E m \in 1..c : n = a + b + m
    BY <1>u, <1>4, <1>7, <2>3
  <2>4. CASE \E m \in 1..d : n = a + b + c + m
    BY <1>c, <1>4, <2>4
  <2>5. n \in 1..(a + b + c + d)
    BY <1>4
  <2>6. \/ n \in 1..a
        \/ \E m \in 1..b : n = a + m
        \/ \E m \in 1..c : n = a + b + m
        \/ \E m \in 1..d : n = a + b + c + m
    BY <1>5, <2>5, FourSplit
  <2>7. QED
    BY <2>1, <2>2, <2>3, <2>4, <2>6
<1>9. ASSUME NEW r \in DOMAIN Q
      PROVE  \/ V[r] = Q[r]
             \/ \E n \in 1..Len(W) : W[n].op \in {"update", "create"} /\ W[n].row = r
  <2>1. CASE r \in DOMAIN P /\ P[r] = Q[r]
    BY <1>1, <2>1
  <2>2. CASE r \in Changed(P, Q)
    <3>1. PICK n \in 1..c : C[n].row = r
      BY <1>u, <2>2
    <3>2. C[n].op = "update"
      BY <1>u
    <3>3. QED
      BY <1>4, <1>6, <3>1, <3>2
  <2>3. CASE r \notin DOMAIN P
    <3>1. PICK n \in 1..d : D[n].row = r
      BY <1>c, <2>3
    <3>2. D[n].op = "create"
      BY <1>c
    <3>3. QED
      BY <1>4, <1>6, <3>1, <3>2
  <2>4. QED
    BY <2>1, <2>2, <2>3 DEF Changed
<1>10. ASSUME NEW r \in PeriodRows \ DOMAIN Q
       PROVE  \/ V[r] = Absent
              \/ \E n \in 1..Len(W) : W[n].op = "delete" /\ r \in W[n].rows
  <2>1. CASE r \in DOMAIN P
    <3>1. PICK n \in 1..a : A[n].op = "delete" /\ r \in A[n].rows
      BY <1>2, <2>1 DEF a, Superfluous
    <3>2. QED
      BY <1>4, <1>6, <3>1
  <2>2. QED
    BY <1>1, <2>1
<1>11. Leads(W, V, Q)
  BY <1>8, <1>9, <1>10 DEF Leads
<1>12. QED
  BY <1>4, <1>11 DEF W, P

\* One statement done, the others lead on from there.
LEMMA LeadsOn ==
  ASSUME NEW V, NEW Q, NEW U, NEW W \in Seq(Statements), W # <<>>, Leads(W, V, Q),
         \A r \in PeriodRows :
            \/ U[r] = V[r]
            \/ Head(W).op = "delete" /\ r \in Head(W).rows
            \/ Head(W).op \in {"park", "update", "create"} /\ r = Head(W).row,
         Head(W).op = "delete" => \A r \in Head(W).rows : U[r] = Absent,
         Head(W).op \in {"update", "create"} => U[Head(W).row] = Head(W).values,
         DOMAIN Q \subseteq PeriodRows
  PROVE  Leads(Tail(W), U, Q)
<1> DEFINE R == Tail(W)
<1>1. /\ Len(W) \in Nat \ {0} /\ Len(R) = Len(W) - 1
      /\ \A n \in 1..Len(R) : R[n] = W[n + 1]
  BY HeadTailProperties, EmptySeq
<1>2. Head(W) = W[1]
  BY <1>1
<1> HIDE DEF R
<1>3. /\ \A n \in 1..Len(R) : n + 1 \in 1..Len(W)
      /\ \A m \in 2..Len(W) : m - 1 \in 1..Len(R) /\ R[m - 1] = W[m]
      /\ 1 \in 1..Len(W)
  BY <1>1
<1>4. ASSUME NEW n \in 1..Len(R)
      PROVE  \/ R[n].op = "delete" /\ R[n].rows \intersect DOMAIN Q = {}
             \/ /\ R[n].op = "park" /\ R[n].row \in DOMAIN Q
                /\ \E m \in 1..Len(R) : /\ n < m /\ R[m].op = "update" /\ R[m].row = R[n].row
             \/ R[n].op \in {"update", "create"} /\ R[n].row \in DOMAIN Q
                /\ R[n].values = Q[R[n].row]
  <2>1. R[n] = W[n + 1] /\ n + 1 \in 1..Len(W)
    BY <1>1, <1>3
  <2>2. CASE /\ W[n + 1].op = "park" /\ W[n + 1].row \in DOMAIN Q
             /\ \E m \in 1..Len(W) : /\ n + 1 < m /\ W[m].op = "update"
                                     /\ W[m].row = W[n + 1].row
    <3>1. PICK m \in 1..Len(W) : n + 1 < m /\ W[m].op = "update" /\ W[m].row = W[n + 1].row
      BY <2>2
    <3>2. m \in 2..Len(W) /\ n < m - 1
      BY <3>1
    <3>3. m - 1 \in 1..Len(R) /\ R[m - 1] = W[m]
      BY <1>3, <3>2
    <3>4. QED
      BY <2>1, <2>2, <3>1, <3>2, <3>3
  <2>3. QED
    BY <2>1, <2>2 DEF Leads
<1>5. ASSUME NEW r \in DOMAIN Q
      PROVE  \/ U[r] = Q[r]
             \/ \E n \in 1..Len(R) : R[n].op \in {"update", "create"} /\ R[n].row = r
  <2>1. CASE \E n \in 2..Len(W) : W[n].op \in {"update", "create"} /\ W[n].row = r
    <3>1. PICK n \in 2..Len(W) : W[n].op \in {"update", "create"} /\ W[n].row = r
      BY <2>1
    <3>2. n - 1 \in 1..Len(R) /\ R[n - 1] = W[n]
      BY <1>3
    <3>3. QED
      BY <3>1, <3>2
  <2>2. CASE ~ \E n \in 2..Len(W) : W[n].op \in {"update", "create"} /\ W[n].row = r
    <3>1. V[r] = Q[r] \/ (W[1].op \in {"update", "create"} /\ W[1].row = r)
      <4>1. \/ V[r] = Q[r]
            \/ \E n \in 1..Len(W) : W[n].op \in {"update", "create"} /\ W[n].row = r
        BY DEF Leads
      <4>2. \A n \in 1..Len(W) : n = 1 \/ n \in 2..Len(W)
        OBVIOUS
      <4>3. QED
        BY <2>2, <4>1, <4>2
    <3>2. \/ W[1].op = "delete" /\ W[1].rows \intersect DOMAIN Q = {}
          \/ /\ W[1].op = "park"
             /\ \E m \in 1..Len(W) : /\ 1 < m /\ W[m].op = "update" /\ W[m].row = W[1].row
          \/ W[1].op \in {"update", "create"} /\ W[1].values = Q[W[1].row]
      BY <1>3 DEF Leads
    <3>3. CASE W[1].op = "delete" /\ W[1].rows \intersect DOMAIN Q = {}
      BY <1>2, <3>1, <3>3
    <3>4. CASE /\ W[1].op = "park"
               /\ \E m \in 1..Len(W) : /\ 1 < m /\ W[m].op = "update" /\ W[m].row = W[1].row
      <4>1. PICK m \in 1..Len(W) : 1 < m /\ W[m].op = "update" /\ W[m].row = W[1].row
        BY <3>4
      <4>2. m \in 2..Len(W)
        BY <4>1
      <4>3. W[1].row # r
        BY <2>2, <4>1, <4>2
      <4>4. U[r] = V[r]
        BY <1>2, <3>4, <4>3
      <4>5. QED
        BY <3>1, <3>4, <4>4
    <3>5. CASE W[1].op \in {"update", "create"} /\ W[1].values = Q[W[1].row]
      <4>1. CASE W[1].row = r
        BY <1>2, <3>5, <4>1
      <4>2. CASE W[1].row # r
        BY <1>2, <3>1, <3>5, <4>2
      <4>3. QED
        BY <4>1, <4>2
    <3>6. QED
      BY <3>2, <3>3, <3>4, <3>5
  <2>3. QED
    BY <2>1, <2>2
<1>6. ASSUME NEW r \in PeriodRows \ DOMAIN Q
      PROVE  \/ U[r] = Absent
             \/ \E n \in 1..Len(R) : R[n].op = "delete" /\ r \in R[n].rows
  <2>1. CASE \E n \in 2..Len(W) : W[n].op = "delete" /\ r \in W[n].rows
    <3>1. PICK n \in 2..Len(W) : W[n].op = "delete" /\ r \in W[n].rows
      BY <2>1
    <3>2. n - 1 \in 1..Len(R) /\ R[n - 1] = W[n]
      BY <1>3
    <3>3. QED
      BY <3>1, <3>2
  <2>2. CASE ~ \E n \in 2..Len(W) : W[n].op = "delete" /\ r \in W[n].rows
    <3>1. V[r] = Absent \/ (W[1].op = "delete" /\ r \in W[1].rows)
      <4>1. V[r] = Absent \/ \E n \in 1..Len(W) : W[n].op = "delete" /\ r \in W[n].rows
        BY DEF Leads
      <4>2. \A n \in 1..Len(W) : n = 1 \/ n \in 2..Len(W)
        OBVIOUS
      <4>3. QED
        BY <2>2, <4>1, <4>2
    <3>2. W[1].op = "delete" \/ W[1].row \in DOMAIN Q
      BY <1>3 DEF Leads
    <3>3. U[r] = V[r] \/ (W[1].op = "delete" /\ r \in W[1].rows)
      BY <1>2, <3>2
    <3>4. QED
      BY <1>2, <3>1, <3>3
  <2>3. QED
    BY <2>1, <2>2
<1>7. QED
  BY <1>4, <1>5, <1>6 DEF Leads, R

\* When all are done, Q is there.
LEMMA LeadsThere ==
  ASSUME NEW V, AreTables(V), NEW D, Proved!IsSequence(D), NEW Q, IsRowwise(Q, D),
         Leads(<<>>, V, Q)
  PROVE  IsRowwise(Periods(V), D)
<1>1. \A r \in DOMAIN Q : V[r] = Q[r]
  BY DEF Leads
<1>2. \A r \in PeriodRows \ DOMAIN Q : V[r] = Absent
  BY DEF Leads
<1>3. \A r \in DOMAIN Q : r \in PeriodRows /\ V[r] # Absent
  <2>1. \A r \in DOMAIN Q : Q[r] \in PeriodRow /\ r \in PeriodRows
    BY DEF IsRowwise, Proved!IsSequence, Proved!Period, PeriodRow
  <2>2. QED
    BY <1>1, <2>1, RebuildRowsAssumption
<1>4. DOMAIN Periods(V) = DOMAIN Q /\ \A r \in DOMAIN Q : Periods(V)[r] = Q[r]
  BY <1>1, <1>2, <1>3, TableRows
<1>5. QED
  BY <1>4 DEF IsRowwise

-----------------------------------------------------------------------------
(* A sequence and its rows *)

LEMMA RowwiseCovers ==
  ASSUME NEW P, NEW D, IsRowwise(P, D), NEW date
  PROVE  /\ \A r : r \in CoveringKeys(P, date) <=>
                      r \in DOMAIN P /\ r[2] \in CoveringKeys(D, date)
         /\ CoveringKeys(P, date) = {} <=> CoveringKeys(D, date) = {}
<1>1. \A r : r \in CoveringKeys(P, date) <=> r \in DOMAIN P /\ r[2] \in CoveringKeys(D, date)
  BY DEF CoveringKeys, IsRowwise, Covers
<1>2. \A k \in CoveringKeys(D, date) : \E r \in DOMAIN P : r[2] = k
  BY DEF CoveringKeys, IsRowwise
<1>3. QED
  BY <1>1, <1>2

LEMMA RowwiseOnce ==
  ASSUME NEW P, NEW D, IsRowwise(P, D), Proved!IsSequence(D), Proved!Partition(D),
         NEW date \in Nat,
         NEW r \in CoveringKeys(P, date), NEW s \in CoveringKeys(P, date)
  PROVE  r = s
<1>1. /\ r \in DOMAIN P /\ r[2] \in CoveringKeys(D, date)
      /\ s \in DOMAIN P /\ s[2] \in CoveringKeys(D, date)
  BY RowwiseCovers
<1>2. r[2] = s[2]
  BY <1>1, Proved!CoveredOnce, RowsAssumptions, SameCovering
<1>3. QED
  BY <1>1, <1>2 DEF IsRowwise

LEMMA RowwisePeriods ==
  ASSUME NEW V, AreTables(V), NEW D, D = [k \in DOMAIN D |-> D[k]],
         IsRowwise(Periods(V), D)
  PROVE  PeriodsOf(V) = D
<1>1. DOMAIN PeriodsOf(V) = DOMAIN D
  <2>1. DOMAIN PeriodsOf(V) = {r[2] : r \in DOMAIN Periods(V)}
    BY DEF PeriodsOf
  <2>2. \A k : k \in {r[2] : r \in DOMAIN Periods(V)} <=> k \in DOMAIN D
    BY DEF IsRowwise
  <2>3. QED
    BY <2>1, <2>2
<1>2. ASSUME NEW k \in DOMAIN D
      PROVE  PeriodsOf(V)[k] = D[k]
  <2> DEFINE row == CHOOSE r \in DOMAIN Periods(V) : r[2] = k
  <2>1. row \in DOMAIN Periods(V) /\ row[2] = k
    BY DEF IsRowwise
  <2>2. PeriodsOf(V)[k] = V[row]
    BY <1>1 DEF PeriodsOf
  <2> HIDE DEF row
  <2>3. V[row] = D[k]
    BY <2>1, TableRows DEF IsRowwise
  <2>4. QED
    BY <2>2, <2>3
<1>3. PeriodsOf(V) = [k \in DOMAIN PeriodsOf(V) |-> PeriodsOf(V)[k]]
  BY DEF PeriodsOf
<1>4. QED
  BY <1>1, <1>2, <1>3

-----------------------------------------------------------------------------
(* What a rebuild reads *)

LEMMA LeastRowDate ==
  ASSUME NEW T, IsRowTable(T), NEW cover \in SUBSET Nat
  PROVE  /\ \A i \in DOMAIN T : T[i].date \in Nat
         /\ DatesToReach(T, cover) \in SUBSET Nat
         /\ DatesToReach(T, cover) # {} =>
               /\ Min(DatesToReach(T, cover)) \in DatesToReach(T, cover)
               /\ \A date \in DatesToReach(T, cover) : Min(DatesToReach(T, cover)) <= date
<1>1. \A i \in DOMAIN T : T[i].date \in Nat
  BY InstantsAssumption DEF IsRowTable, TransactionRow
<1>2. DatesToReach(T, cover) \in SUBSET Nat
  BY <1>1 DEF DatesToReach
<1>3. QED
  BY <1>1, <1>2, Proved!MinIsLeast, RowsAssumptions, SameMin

\* The oldest date of all.
Oldest(T) ==
    IF DatesToReach(T, {}) = {} THEN {} ELSE {Min(DatesToReach(T, {}))}

\* The salaries and the oldest date are all that the periods need to know of the
\* transactions.
LEMMA SalariesSuffice ==
  ASSUME NEW T, IsRowTable(T), NEW cover \in SUBSET Nat
  PROVE  /\ IsRowTable(Restrict(T, Salaries(T)))
         /\ Oldest(T) \in SUBSET Nat
         /\ DesiredPeriods(Restrict(T, Salaries(T)), cover \union Oldest(T))
              = DesiredPeriods(T, cover)
<1> DEFINE S == Restrict(T, Salaries(T))
           all == DatesToReach(T, cover)
           some == DatesToReach(S, cover \union Oldest(T))
<1>1. /\ DOMAIN S = Salaries(T) /\ Salaries(T) \subseteq DOMAIN T
      /\ \A i \in Salaries(T) : S[i] = T[i]
  BY DEF Restrict, Salaries
<1>2. IsRowTable(S)
  BY <1>1 DEF IsRowTable
<1>3. Oldest(T) \in SUBSET Nat
  BY LeastRowDate DEF Oldest
<1> HIDE DEF S
<1>4. Salaries(S) = Salaries(T)
  BY <1>1 DEF Salaries
<1>5. Anchors(S) = Anchors(T) /\ Anchors(T) \subseteq Salaries(T)
  <2>1. \A i, j \in Salaries(T) : /\ SameDay(T, i, j) <=> SameDay(S, i, j)
                                  /\ Precedes(T, i, j) <=> Precedes(S, i, j)
    BY <1>1 DEF SameDay, Precedes
  <2>2. QED
    BY <1>4, <2>1 DEF Anchors
<1>6. some \in SUBSET all
  <2>1. \A i \in Salaries(T) : S[i].date \in all
    BY <1>1 DEF DatesToReach
  <2>2. Oldest(T) \in SUBSET all
    <3>1. DatesToReach(T, {}) # {} => Min(DatesToReach(T, {})) \in DatesToReach(T, {})
      BY LeastRowDate
    <3>2. DatesToReach(T, {}) \in SUBSET all
      BY DEF DatesToReach
    <3>3. QED
      BY <3>1, <3>2 DEF Oldest
  <2>3. some = {S[i].date : i \in Salaries(T)} \union (cover \union Oldest(T))
    BY <1>1 DEF DatesToReach
  <2>4. cover \in SUBSET all
    BY DEF DatesToReach
  <2>5. QED
    BY <2>1, <2>2, <2>3, <2>4
<1>7. all # {} => Min(all) \in some
  <2> SUFFICES ASSUME all # {} PROVE Min(all) \in some
    OBVIOUS
  <2>1. /\ all \in SUBSET Nat /\ Min(all) \in all
        /\ \A date \in all : Min(all) <= date
    BY LeastRowDate
  <2>2. cover \in SUBSET some /\ Oldest(T) \in SUBSET some
    BY DEF DatesToReach
  <2>3. CASE Min(all) \notin cover
    <3>1. Min(all) \in DatesToReach(T, {})
      BY <2>1, <2>3 DEF DatesToReach
    <3>0. DatesToReach(T, {}) \in SUBSET all
      BY DEF DatesToReach
    <3> HIDE DEF all
    <3>2. /\ DatesToReach(T, {}) \in SUBSET all
          /\ Min(DatesToReach(T, {})) \in DatesToReach(T, {})
          /\ Min(DatesToReach(T, {})) <= Min(all)
      <4>1. {} \in SUBSET Nat
        OBVIOUS
      <4>2. QED
        BY <3>0, <3>1, <4>1, LeastRowDate
    <3>3. Min(all) <= Min(DatesToReach(T, {}))
      BY <2>1, <3>2
    <3>4. Min(DatesToReach(T, {})) \in Nat /\ Min(all) \in Nat
      BY <2>1, <3>2
    <3>5. Min(DatesToReach(T, {})) = Min(all)
      BY <3>2, <3>3, <3>4
    <3>6. QED
      BY <2>2, <3>1, <3>5 DEF Oldest
  <2>4. QED
    BY <2>2, <2>3
<1>8. (some = {} <=> all = {}) /\ (all # {} => Min(some) = Min(all))
  <2>1. some = {} <=> all = {}
    BY <1>6, <1>7
  <2>2. ASSUME all # {} PROVE Min(some) = Min(all)
    <3>1. /\ all \in SUBSET Nat /\ Min(all) \in all
          /\ \A date \in all : Min(all) <= date
      BY <2>2, LeastRowDate
    <3>2. /\ Min(some) \in some
          /\ \A date \in some : Min(some) <= date
      <4>1. cover \union Oldest(T) \in SUBSET Nat /\ some # {}
        BY <1>3, <1>7, <2>2
      <4>2. QED
        BY <1>2, <4>1, LeastRowDate
    <3> HIDE DEF some, all
    <3>3. Min(some) <= Min(all) /\ Min(all) <= Min(some)
      BY <1>6, <1>7, <2>2, <3>1, <3>2
    <3>4. Min(some) \in Nat /\ Min(all) \in Nat
      BY <1>6, <3>1, <3>2
    <3>5. QED
      BY <3>3, <3>4
  <2>3. QED
    BY <2>1, <2>2
<1> HIDE DEF some, all
<1>9. NeedsBootstrap(S, cover \union Oldest(T)) <=> NeedsBootstrap(T, cover)
  BY <1>1, <1>5, <1>8 DEF NeedsBootstrap, some, all
<1>10. DesiredKeys(S, cover \union Oldest(T)) = DesiredKeys(T, cover)
  BY <1>5, <1>9 DEF DesiredKeys
<1>11. ASSUME NEW k \in DesiredKeys(T, cover)
       PROVE  DesiredStart(S, cover \union Oldest(T), k) = DesiredStart(T, cover, k)
  <2>1. CASE k = Bootstrap
    <3>1. Anchors(T) \subseteq Nat
      BY <1>1, <1>5, TxIdsAssumption DEF IsRowTable
    <3>2. NeedsBootstrap(T, cover)
      BY <2>1, <3>1, KeysAssumption DEF DesiredKeys
    <3>3. all # {}
      BY <3>2 DEF NeedsBootstrap, all
    <3>4. Min(DatesToReach(S, cover \union Oldest(T))) = Min(DatesToReach(T, cover))
      BY <1>8, <3>3 DEF some, all
    <3>5. QED
      BY <2>1, <3>4 DEF DesiredStart
  <2>2. CASE k # Bootstrap
    BY <1>1, <1>5, <2>2 DEF DesiredStart, DesiredKeys
  <2>3. QED
    BY <2>1, <2>2
<1>12. [k \in DesiredKeys(S, cover \union Oldest(T)) |->
          DesiredStart(S, cover \union Oldest(T), k)]
        = [k \in DesiredKeys(T, cover) |-> DesiredStart(T, cover, k)]
  BY <1>10, <1>11
<1>13. DesiredPeriods(S, cover \union Oldest(T)) = DesiredPeriods(T, cover)
  BY <1>10, <1>12 DEF DesiredPeriods
<1>14. QED
  BY <1>2, <1>3, <1>13 DEF S

\* Every desired period has a row of its own to be written to, whatever the rows
\* that are there.
LEMMA RowForKey ==
  ASSUME NEW c \in Clients, NEW P, DOMAIN P \subseteq PeriodRows,
         NEW k \in TxIds \union {Bootstrap}
  PROVE  RowFor(c, P, k) \in PeriodRows /\ RowFor(c, P, k)[2] = k
<1>1. CASE \E r \in Paired(P) : r[2] = k
  <2>1. RowFor(c, P, k) = CHOOSE r \in Paired(P) : r[2] = k
    BY <1>1 DEF RowFor
  <2>2. RowFor(c, P, k) \in Paired(P) /\ RowFor(c, P, k)[2] = k
    BY <1>1, <2>1
  <2>3. QED
    BY <2>2 DEF Paired
<1>2. CASE ~ \E r \in Paired(P) : r[2] = k
  <2>1. RowFor(c, P, k) = <<"period", k, c>>
    BY <1>2 DEF RowFor
  <2>2. QED
    BY <2>1, PeriodRowParts
<1>3. QED
  BY <1>1, <1>2

LEMMA KeysFinite == IsFiniteSet(TxIds \union {Bootstrap})
<1>1. IsFiniteSet({Bootstrap})
  BY FS_Singleton
<1>2. QED
  BY <1>1, RequestIdsAssumption, FS_Union

LEMMA RowsWanted ==
  ASSUME NEW c \in Clients, NEW P, DOMAIN P \subseteq PeriodRows,
         NEW D, Proved!IsSequence(D), Proved!Partition(D),
         NEW Q, Q = [r \in {RowFor(c, P, k) : k \in DOMAIN D} |-> D[r[2]]]
  PROVE  /\ IsRowwise(Q, D)
         /\ IsFiniteSet(DOMAIN Q)
         /\ \A r \in DOMAIN Q : Q[r] \in PeriodRow
         /\ \A r, s \in DOMAIN Q : Q[r].start = Q[s].start => r = s
<1>1. DOMAIN D \subseteq TxIds \union {Bootstrap} /\ \A k \in DOMAIN D : D[k] \in PeriodRow
  BY DEF Proved!IsSequence, Proved!Keys, Proved!Period, PeriodRow
<1>2. \A k \in DOMAIN D : RowFor(c, P, k) \in PeriodRows /\ RowFor(c, P, k)[2] = k
  BY <1>1, RowForKey
<1>3. \A r : r \in DOMAIN Q <=> \E k \in DOMAIN D : r = RowFor(c, P, k)
  OBVIOUS
<1>4. \A r \in DOMAIN Q : /\ r \in PeriodRows /\ r[2] \in DOMAIN D
                          /\ r = RowFor(c, P, r[2]) /\ Q[r] = D[r[2]]
  BY <1>2, <1>3
<1>5. IsRowwise(Q, D)
  BY <1>2, <1>3, <1>4 DEF IsRowwise
<1>6. IsFiniteSet(DOMAIN Q)
  <2> DEFINE key == [r \in DOMAIN Q |-> r[2]]
  <2>1. key \in [DOMAIN Q -> TxIds \union {Bootstrap}]
    BY <1>1, <1>4
  <2>5. \A r \in DOMAIN Q : key[r] = r[2]
    OBVIOUS
  <2> HIDE DEF key
  <2>2. ASSUME NEW r \in DOMAIN Q, NEW s \in DOMAIN Q, key[r] = key[s]
        PROVE  r = s
    <3>1. r[2] = s[2]
      BY <2>2, <2>5
    <3>2. r = RowFor(c, P, r[2]) /\ s = RowFor(c, P, s[2])
      BY <1>4
    <3>3. QED
      BY <3>1, <3>2
  <2>3. key \in Injection(DOMAIN Q, TxIds \union {Bootstrap})
    BY <2>1, <2>2 DEF Injection, IsInjective
  <2>4. QED
    BY <2>3, KeysFinite, FS_Injection
<1>7. ASSUME NEW r \in DOMAIN Q, NEW s \in DOMAIN Q, Q[r].start = Q[s].start
      PROVE  r = s
  <2>1. /\ r[2] \in DOMAIN D /\ Q[r] = D[r[2]] /\ r = RowFor(c, P, r[2])
        /\ s[2] \in DOMAIN D /\ Q[s] = D[s[2]] /\ s = RowFor(c, P, s[2])
    BY <1>4
  <2>2. D[r[2]].start = D[s[2]].start
    BY <1>7, <2>1
  <2>3. r[2] = s[2]
    BY <2>1, <2>2 DEF Proved!Partition
  <2>4. QED
    BY <2>1, <2>3
<1>8. QED
  BY <1>1, <1>4, <1>5, <1>6, <1>7

-----------------------------------------------------------------------------
(* One statement *)

LEMMA SeenTables ==
  ASSUME RebuildInv, NEW c \in Clients, tx[c] # Idle
  PROVE  /\ AreTables(Seen(c))
         /\ DOMAIN tx[c].mine = {} => Seen(c) = db
<1>1. AreTables(db) /\ AreRows(tx[c].mine)
  BY DEF RebuildInv
<1>2. AreRows(db) /\ db = [key \in Keys |-> db[key]]
  BY <1>1 DEF AreTables
<1>3. AreTables(Over(tx[c].mine, db))
  BY <1>1, <1>2, OverRows
<1>4. DOMAIN tx[c].mine = {} => Over(tx[c].mine, db) = db
  BY <1>2, OverNothing
<1>5. QED
  BY <1>3, <1>4 DEF Seen

\* A request says nothing of the rows it has written but in HasWritten.
LEMMA MineAside ==
  ASSUME NEW q, NEW m, NEW p, p = [q EXCEPT !.mine = m], DOMAIN q = Fields, NEW V
  PROVE  /\ p.mine = m /\ p.alone = q.alone
         /\ IsRequest(q) => IsRequest(p)
         /\ RightSoFar(q, V) => RightSoFar(p, V)
         /\ HasWritten(q, m) => HasWritten(p, m)
<1>1. /\ DOMAIN p = Fields /\ p.mine = m /\ p.at = q.at /\ p.then = q.then /\ p.id = q.id
      /\ p.row = q.row /\ p.date = q.date /\ p.from = q.from /\ p.cover = q.cover
      /\ p.got = q.got /\ p.atomic = q.atomic /\ p.rebuilt = q.rebuilt /\ p.alone = q.alone
  BY DEF Fields
<1>2. Locating(p) <=> Locating(q)
  BY <1>1 DEF Locating
<1>3. IsRequest(q) => IsRequest(p)
  <2>1. (InStep(q) => InStep(p)) /\ (HasRead(q) => HasRead(p))
    BY <1>1 DEF InStep, HasRead
  <2>2. HasRow(q) => HasRow(p)
    BY <1>1, <1>2 DEF HasRow
  <2>3. QED
    BY <1>1, <2>1, <2>2 DEF IsRequest
<1>4. RightSoFar(q, V) => RightSoFar(p, V)
  BY <1>1 DEF RightSoFar
<1>5. HasWritten(q, m) => HasWritten(p, m)
  BY <1>1, <1>2 DEF HasWritten
<1>6. QED
  BY <1>1, <1>3, <1>4, <1>5

\* A request that no other overlaps with is the only one.
LEMMA StatementKeeps ==
  ASSUME RebuildInv, NEW c \in Clients, tx[c] # Idle, NEW q,
         tx' = [tx EXCEPT ![c] = q], AreTables(db'),
         q # Idle => /\ IsRequest(q) /\ AreRows(q.mine) /\ HasWritten(q, q.mine)
                     /\ q.alone = tx[c].alone
                     /\ q.alone => RightSoFar(q, Over(q.mine, db'))
  PROVE  RebuildInv'
<1>1. DOMAIN tx' = Clients /\ tx'[c] = q /\ \A d \in Clients \ {c} : tx'[d] = tx[d]
  BY DEF RebuildInv
<1>2. ASSUME q # Idle
      PROVE  /\ IsRequest(tx'[c]) /\ AreRows(tx'[c].mine) /\ HasWritten(tx'[c], tx'[c].mine)
             /\ tx'[c].alone => Others(c)' = {} /\ RightSoFar(tx'[c], Seen(c)')
  <2>1. Others(c)' = Others(c)
    BY <1>1 DEF Others
  <2>2. Seen(c)' = Over(q.mine, db')
    BY <1>1 DEF Seen
  <2>3. tx[c].alone => Others(c) = {}
    BY DEF RebuildInv
  <2>4. QED
    BY <1>1, <1>2, <2>1, <2>2, <2>3
<1>3. ASSUME NEW d \in Clients \ {c}, tx'[d] # Idle
      PROVE  /\ IsRequest(tx'[d]) /\ AreRows(tx'[d].mine) /\ HasWritten(tx'[d], tx'[d].mine)
             /\ ~ tx'[d].alone
  <2>1. tx'[d] = tx[d] /\ c \in Others(d)
    BY <1>1 DEF Others
  <2>2. /\ IsRequest(tx[d]) /\ AreRows(tx[d].mine) /\ HasWritten(tx[d], tx[d].mine)
        /\ tx[d].alone => Others(d) = {}
    BY <1>3, <2>1 DEF RebuildInv
  <2>3. QED
    BY <2>1, <2>2
<1>4. QED
  BY <1>1, <1>2, <1>3 DEF RebuildInv

LEMMA ReadKeeps ==
  ASSUME RebuildInv, NEW c \in Clients, tx[c] # Idle, NEW q, Read(c, q),
         IsRequest(q), q.mine = tx[c].mine, q.alone = tx[c].alone,
         q.atomic = tx[c].atomic, q.id = tx[c].id, q.date = tx[c].date,
         tx[c].at # "write", (q.id # 0 /\ Locating(q)) => Locating(tx[c]),
         q.alone => RightSoFar(q, Seen(c))
  PROVE  RebuildInv'
<1>1. tx' = [tx EXCEPT ![c] = q] /\ db' = db
  BY DEF Read
<1>2. AreTables(db) /\ AreRows(tx[c].mine) /\ HasWritten(tx[c], tx[c].mine)
  BY DEF RebuildInv
<1>3. AreRows(q.mine) /\ HasWritten(q, q.mine)
  BY <1>2 DEF HasWritten
<1>4. Over(q.mine, db') = Seen(c) /\ AreTables(db')
  BY <1>1, <1>2 DEF Seen
<1>5. QED
  BY <1>1, <1>3, <1>4, StatementKeeps

LEMMA WriteKeeps ==
  ASSUME RebuildInv, NEW c \in Clients, tx[c] # Idle, NEW rows, AreRows(rows),
         NEW q, Write(c, rows, q),
         IsRequest(q), q.mine = tx[c].mine, q.alone = tx[c].alone,
         q.atomic = tx[c].atomic,
         q.atomic => HasWritten(q, Over(rows, tx[c].mine)),
         q.alone => RightSoFar(q, Over(rows, Seen(c)))
  PROVE  RebuildInv'
<1>1. AreTables(db) /\ AreRows(tx[c].mine) /\ HasWritten(tx[c], tx[c].mine)
  BY DEF RebuildInv
<1>2. DOMAIN q = Fields
  BY DEF IsRequest
<1>3. CASE q.atomic
  <2> DEFINE m == Over(rows, tx[c].mine)
             p == [q EXCEPT !.mine = m]
  <2>1. tx' = [tx EXCEPT ![c] = p] /\ db' = db
    BY <1>3 DEF Write
  <2>8. AreRows(m)
    BY <1>1, OverRows
  <2>9. Over(m, db) = Over(rows, Seen(c))
    BY OverTwice DEF Seen
  <2>2. AreRows(m) /\ Over(m, db) = Over(rows, Seen(c))
    BY <2>8, <2>9
  <2> HIDE DEF m
  <2>3. /\ p.mine = m /\ p.alone = q.alone /\ IsRequest(p)
        /\ RightSoFar(q, Over(m, db)) => RightSoFar(p, Over(m, db))
        /\ HasWritten(q, m) => HasWritten(p, m)
    BY <1>2, MineAside
  <2> HIDE DEF p
  <2>4. HasWritten(p, m)
    BY <1>3, <2>3 DEF m
  <2>5. p.alone => RightSoFar(p, Over(p.mine, db'))
    BY <2>1, <2>2, <2>3
  <2>6. AreTables(db') /\ AreRows(p.mine) /\ HasWritten(p, p.mine) /\ p.alone = tx[c].alone
    BY <1>1, <2>1, <2>2, <2>3, <2>4
  <2>7. QED
    BY <2>1, <2>3, <2>5, <2>6, StatementKeeps
<1>4. CASE ~ q.atomic
  <2>1. tx' = [tx EXCEPT ![c] = q] /\ db' = Over(rows, db)
    BY <1>4 DEF Write
  <2>9. AreRows(db)
    BY <1>1 DEF AreTables
  <2>2. AreTables(db')
    BY <1>1, <2>1, <2>9, OverRows
  <2>3. DOMAIN q.mine = {} /\ Seen(c) = db
    BY <1>1, <1>4, SeenTables DEF HasWritten
  <2>4. Over(q.mine, db') = db'
    BY <2>2, <2>3, OverNothing DEF AreTables
  <2>5. q.id = 0
    BY <1>4 DEF IsRequest, HasRow
  <2>6. AreRows(q.mine) /\ HasWritten(q, q.mine)
    BY <1>1, <2>3, <2>5 DEF HasWritten
  <2>7. q.alone => RightSoFar(q, Over(q.mine, db'))
    BY <2>1, <2>3, <2>4
  <2>8. QED
    BY <2>1, <2>2, <2>6, <2>7, StatementKeeps
<1>5. QED
  BY <1>3, <1>4

\* A request that goes on with the next of its steps.
LEMMA ProceedFields ==
  ASSUME NEW q, DOMAIN q = Fields, NEW p, p = Proceed(q)
  PROVE  /\ DOMAIN p = Fields
         /\ p.at = Head(q.then) /\ p.then = Tail(q.then) /\ p.got = <<>>
         /\ p.id = q.id /\ p.row = q.row /\ p.date = q.date /\ p.from = q.from
         /\ p.cover = q.cover /\ p.mine = q.mine /\ p.atomic = q.atomic
         /\ p.rebuilt = q.rebuilt /\ p.alone = q.alone
BY DEF Proceed, Fields

LEMMA NextStep ==
  ASSUME NEW q, IsRequest(q), q.at \in {"write", "current", "assign", "reassign"},
         NEW p, DOMAIN p = Fields,
         p.at = Head(q.then), p.then = Tail(q.then), p.id = q.id, p.date = q.date,
         p.cover = q.cover, p.atomic = q.atomic
  PROVE  /\ IsRequest(p)
         /\ p.at \in {"rebuild", "locate", "find", "commit"}
         /\ Locating(p) => Locating(q)
<1>1. /\ InStep(p)
      /\ p.at \in {"rebuild", "locate", "find", "commit"}
      /\ Locating(p) => Locating(q)
  <2>1. \/ q.then = <<"rebuild", "locate", "commit">>
        \/ q.then = <<"locate", "commit">>
        \/ q.then = <<"rebuild", "commit">>
        \/ q.then = <<"find", "commit">>
        \/ q.then = <<"commit">>
    BY DEF IsRequest, InStep
  <2>2. CASE q.then = <<"rebuild", "locate", "commit">>
    <3>1. p.at = "rebuild" /\ p.then = <<"locate", "commit">>
      BY <2>2
    <3>2. QED
      BY <2>2, <3>1 DEF InStep, Locating
  <2>3. CASE q.then = <<"locate", "commit">>
    <3>1. p.at = "locate" /\ p.then = <<"commit">>
      BY <2>3
    <3>2. QED
      BY <2>3, <3>1 DEF InStep, Locating
  <2>4. CASE q.then = <<"rebuild", "commit">>
    <3>1. p.at = "rebuild" /\ p.then = <<"commit">>
      BY <2>4
    <3>2. ~ Locating(p)
      BY <3>1 DEF Locating
    <3>3. QED
      BY <3>1, <3>2 DEF InStep
  <2>5. CASE q.then = <<"find", "commit">>
    <3>1. p.at = "find" /\ p.then = <<"commit">>
      BY <2>5
    <3>2. QED
      BY <2>5, <3>1 DEF InStep, Locating
  <2>6. CASE q.then = <<"commit">>
    <3>1. p.at = "commit" /\ p.then = <<>>
      BY <2>6
    <3>4. /\ Len(<<"rebuild", "locate", "commit">>) # 0
          /\ Len(<<"locate", "commit">>) # 0
          /\ Len(<<"find", "commit">>) # 0
          /\ Len(<<>>) = 0
      OBVIOUS
    <3>2. ~ Locating(p)
      BY <3>1, <3>4 DEF Locating
    <3>3. QED
      BY <3>1, <3>2 DEF InStep
  <2>7. QED
    BY <2>1, <2>2, <2>3, <2>4, <2>5, <2>6
<1>2. HasRead(p)
  BY <1>1 DEF HasRead
<1>3. HasRow(p)
  BY <1>1 DEF HasRow, IsRequest
<1>4. IsRequest(p)
  BY <1>1, <1>2, <1>3 DEF IsRequest
<1>5. QED
  BY <1>1, <1>4

LEMMA RightWhenThere ==
  ASSUME NEW p, NEW V, p.at \in {"rebuild", "locate", "find", "commit"},
         p.rebuilt => /\ IsRowwise(Periods(V), Asked(V, p.cover))
                      /\ p.from = 0 => IsFiled(V)
  PROVE  RightSoFar(p, V)
BY DEF RightSoFar

\* Rows of transactions written anew, with the date and the kind they had.
Refiles(rows, V) ==
    \A i \in TxIds : Row(i) \in DOMAIN rows =>
        /\ rows[Row(i)] \in TransactionRow
        /\ V[Row(i)] # Absent
        /\ rows[Row(i)].date = V[Row(i)].date
        /\ rows[Row(i)].kind = V[Row(i)].kind

LEMMA RefilingAsks ==
  ASSUME NEW V, AreTables(V), NEW rows, AreRows(rows), Refiles(rows, V),
         NEW U, U = Over(rows, V)
  PROVE  /\ AreTables(U)
         /\ DOMAIN Transactions(U) = DOMAIN Transactions(V)
         /\ \A i \in DOMAIN Transactions(V) : U[Row(i)].date = V[Row(i)].date
         /\ \A cover : Asked(U, cover) = Asked(V, cover)
<1>1. AreTables(U)
  <2>1. AreRows(V)
    BY DEF AreTables
  <2>2. QED
    BY <2>1, OverRows
<1>2. \A i \in TxIds : /\ U[Row(i)] # Absent <=> V[Row(i)] # Absent
                       /\ V[Row(i)] # Absent => /\ U[Row(i)].date = V[Row(i)].date
                                                /\ U[Row(i)].kind = V[Row(i)].kind
  <2> TAKE i \in TxIds
  <2>1. U[Row(i)] = IF Row(i) \in DOMAIN rows THEN rows[Row(i)] ELSE V[Row(i)]
    <3>1. DOMAIN V = Keys /\ Row(i) \in Keys
      BY KeysApart DEF AreTables
    <3>2. QED
      BY <3>1 DEF Over
  <2>2. QED
    BY <2>1, RebuildRowsAssumption DEF Refiles
<1>3. DOMAIN Transactions(U) = DOMAIN Transactions(V)
  BY <1>2 DEF Transactions
<1>4. \A i \in DOMAIN Transactions(V) : /\ Transactions(U)[i].date = Transactions(V)[i].date
                                        /\ Transactions(U)[i].kind = Transactions(V)[i].kind
  BY <1>2 DEF Transactions
<1>5. \A cover : Asked(U, cover) = Asked(V, cover)
  BY <1>3, <1>4, DesiredByDates DEF Asked
<1>6. \A i \in DOMAIN Transactions(V) : U[Row(i)].date = V[Row(i)].date
  BY <1>2 DEF Transactions
<1>7. QED
  BY <1>1, <1>3, <1>5, <1>6

LEMMA RefilingWrites ==
  ASSUME NEW V, NEW W, NEW q, HasWritten(q, W), V = Over(W, db), AreRows(W),
         NEW rows, Refiles(rows, V),
         q.id # 0 => q.id \in TxIds, q.at # "write", q.atomic,
         NEW p, p.id = q.id, p.date = q.date, p.atomic = q.atomic, Locating(p) => Locating(q)
  PROVE  HasWritten(p, Over(rows, W))
<1> SUFFICES ASSUME p.id # 0
             PROVE  /\ Row(p.id) \in DOMAIN Over(rows, W)
                    /\ Locating(p) => Over(rows, W)[Row(p.id)] # Absent
                    /\ Over(rows, W)[Row(p.id)] # Absent =>
                          Over(rows, W)[Row(p.id)].date = p.date
  BY DEF HasWritten
<1> DEFINE key == Row(p.id)
<1>1. /\ key \in DOMAIN W
      /\ Locating(q) => W[key] # Absent
      /\ W[key] # Absent => W[key].date = q.date
  BY DEF HasWritten
<1>2. V[key] = W[key]
  BY <1>1 DEF Over
<1>3. key \in DOMAIN rows => /\ rows[key] \in TransactionRow /\ V[key] # Absent
                             /\ rows[key].date = V[key].date
  BY DEF Refiles
<1> HIDE DEF key
<1>4. Over(rows, W)[key] = (IF key \in DOMAIN rows THEN rows[key] ELSE W[key])
      /\ key \in DOMAIN Over(rows, W)
  BY <1>1 DEF Over
<1>5. QED
  BY <1>1, <1>2, <1>3, <1>4, RebuildRowsAssumption DEF key

LEMMA WriteTransactionKeeps ==
  ASSUME RebuildInv, NEW c \in Clients, WriteTransaction(c)
  PROVE  RebuildInv'
<1> DEFINE q == tx[c]
           V == Seen(c)
           old == V[Row(q.id)]
           row == IF q.row = Absent THEN Absent
                  ELSE [old EXCEPT !.date = q.row.date, !.kind = q.row.kind]
           rows == [key \in {Row(q.id)} |-> row]
           p == [Proceed(q) EXCEPT !.row = row]
<1>1. q # Idle /\ q.at = "write" /\ old # Absent /\ Write(c, rows, p)
  BY DEF WriteTransaction, At
<1>2. /\ IsRequest(q) /\ AreRows(q.mine) /\ HasWritten(q, q.mine)
      /\ q.alone => RightSoFar(q, V)
      /\ q.id \in TxIds /\ q.id # 0 /\ q.atomic
      /\ Locating(q) <=> q.row # Absent
      /\ q.row # Absent => /\ q.date \in Instants /\ q.row.date = q.date
                           /\ q.row.kind \in {"salary", "other"}
  <2>1. IsRequest(q) /\ AreRows(q.mine) /\ HasWritten(q, q.mine)
    BY <1>1 DEF RebuildInv
  <2>2. q.alone => RightSoFar(q, V)
    BY <1>1 DEF RebuildInv
  <2>3. QED
    BY <1>1, <2>1, <2>2 DEF IsRequest, HasRow
<1>3. old \in TransactionRow
  <2>1. AreTables(V)
    BY <1>1, SeenTables
  <2>2. QED
    BY <1>1, <1>2, <2>1, KeysApart DEF AreTables, AreRows, RowOf
<1> HIDE DEF V, old
<1>4. row \in TransactionRow \union {Absent}
  BY <1>2, <1>3 DEF TransactionRow
<1>5. row # Absent => q.row # Absent /\ row.date = q.date
  BY <1>2, <1>3 DEF TransactionRow
<1>6. q.row # Absent => row # Absent
  <2>1. ASSUME q.row # Absent PROVE row \in TransactionRow
    BY <1>2, <1>3, <2>1 DEF TransactionRow
  <2>2. QED
    BY <2>1, RebuildRowsAssumption
<1> HIDE DEF row
<1>7. AreRows(rows)
  BY <1>2, <1>4, KeysApart DEF AreRows, RowOf
<1>8. /\ DOMAIN p = Fields
      /\ p.at = Head(q.then) /\ p.then = Tail(q.then) /\ p.id = q.id /\ p.date = q.date
      /\ p.from = q.from /\ p.cover = q.cover /\ p.mine = q.mine /\ p.atomic = q.atomic
      /\ p.rebuilt = q.rebuilt /\ p.alone = q.alone
  <2>1. DOMAIN q = Fields
    BY <1>2 DEF IsRequest
  <2> DEFINE r == Proceed(q)
  <2>2. /\ DOMAIN r = Fields
        /\ r.at = Head(q.then) /\ r.then = Tail(q.then) /\ r.id = q.id /\ r.date = q.date
        /\ r.from = q.from /\ r.cover = q.cover /\ r.mine = q.mine /\ r.atomic = q.atomic
        /\ r.rebuilt = q.rebuilt /\ r.alone = q.alone
    BY <2>1, ProceedFields
  <2> HIDE DEF r
  <2>3. p = [r EXCEPT !.row = row]
    BY DEF r
  <2> HIDE DEF p
  <2>4. QED
    BY <2>2, <2>3 DEF Fields
<1> HIDE DEF p
<1>9. /\ IsRequest(p)
      /\ p.at \in {"rebuild", "locate", "find", "commit"}
      /\ Locating(p) => Locating(q)
  BY <1>1, <1>2, <1>8, NextStep
<1>10. HasWritten(p, Over(rows, q.mine))
  <2>1. Row(q.id) \in DOMAIN Over(rows, q.mine) /\ Over(rows, q.mine)[Row(q.id)] = row
    BY DEF Over
  <2>2. QED
    BY <1>2, <1>5, <1>6, <1>8, <1>9, <2>1 DEF HasWritten
<1>11. q.alone => RightSoFar(p, Over(rows, V))
  <2>1. q.alone => ~ q.rebuilt
    BY <1>1, <1>2 DEF RightSoFar
  <2>2. QED
    BY <1>8, <1>9, <2>1, RightWhenThere
<1>12. QED
  BY <1>1, <1>7, <1>8, <1>9, <1>10, <1>11, WriteKeeps DEF V

\* What the invariant says of a request.
LEMMA OfRequest ==
  ASSUME RebuildInv, NEW c \in Clients, tx[c] # Idle
  PROVE  /\ IsRequest(tx[c]) /\ AreRows(tx[c].mine) /\ HasWritten(tx[c], tx[c].mine)
         /\ tx[c].alone => RightSoFar(tx[c], Seen(c))
         /\ DOMAIN tx[c] = Fields
         /\ AreTables(Seen(c))
<1>1. IsRequest(tx[c]) /\ AreRows(tx[c].mine) /\ HasWritten(tx[c], tx[c].mine)
  BY DEF RebuildInv
<1>2. tx[c].alone => RightSoFar(tx[c], Seen(c))
  BY DEF RebuildInv
<1>3. QED
  BY <1>1, <1>2, SeenTables DEF IsRequest

LEMMA FindOpenKeeps ==
  ASSUME RebuildInv, NEW c \in Clients, FindOpen(c)
  PROVE  RebuildInv'
<1> DEFINE q == tx[c]
           p == [q EXCEPT !.at = "locate"]
<1>1. q # Idle /\ q.at = "current" /\ (Read(c, Proceed(q)) \/ Read(c, p))
  BY DEF FindOpen, At
<1>2. /\ IsRequest(q) /\ DOMAIN q = Fields /\ q.id = 0
      /\ q.then = <<"commit">>
      /\ q.alone => ~ q.rebuilt
  BY <1>1, OfRequest DEF IsRequest, HasRow, InStep, RightSoFar
<1>3. CASE Read(c, Proceed(q))
  <2> DEFINE r == Proceed(q)
  <2>5. DOMAIN q = Fields
    BY <1>2
  <2>1. /\ DOMAIN r = Fields
        /\ r.at = Head(q.then) /\ r.then = Tail(q.then) /\ r.id = q.id /\ r.date = q.date
        /\ r.from = q.from /\ r.cover = q.cover /\ r.mine = q.mine /\ r.atomic = q.atomic
        /\ r.rebuilt = q.rebuilt /\ r.alone = q.alone
    BY <2>5, ProceedFields
  <2> HIDE DEF r
  <2>2. IsRequest(r) /\ r.at \in {"rebuild", "locate", "find", "commit"}
    BY <1>1, <1>2, <2>1, NextStep
  <2>3. r.alone => RightSoFar(r, Seen(c))
    BY <1>2, <2>1, <2>2, RightWhenThere
  <2>4. Read(c, r)
    BY <1>3 DEF r
  <2>6. QED
    BY <1>1, <1>2, <2>1, <2>2, <2>3, <2>4, ReadKeeps
<1>4. CASE Read(c, p)
  <2>1. /\ DOMAIN p = Fields /\ p.at = "locate" /\ p.then = q.then /\ p.id = q.id
        /\ p.date = q.date /\ p.cover = q.cover /\ p.mine = q.mine /\ p.atomic = q.atomic
        /\ p.rebuilt = q.rebuilt /\ p.alone = q.alone
    BY <1>2 DEF Fields
  <2> HIDE DEF p
  <2>2. IsRequest(p)
    BY <1>2, <2>1 DEF IsRequest, InStep, HasRow, HasRead
  <2>3. p.alone => RightSoFar(p, Seen(c))
    BY <1>2, <2>1, RightWhenThere
  <2>4. QED
    BY <1>1, <1>2, <1>4, <2>1, <2>2, <2>3, ReadKeeps
<1>5. QED
  BY <1>1, <1>3, <1>4

LEMMA LocateDateKeeps ==
  ASSUME RebuildInv, NEW c \in Clients, LocateDate(c)
  PROVE  RebuildInv'
<1> DEFINE q == tx[c]
           P == Periods(Seen(c))
           p == [q EXCEPT !.at = "rebuild", !.then = <<"find">> \o @,
                          !.from = q.date, !.cover = {q.date}]
           r == [q EXCEPT !.at = "assign", !.got = PeriodForDate(P, q.date)]
<1>1. /\ q # Idle /\ q.at = "locate"
      /\ Read(c, p) \/ (Read(c, r) /\ CoveringKeys(P, q.date) # {})
  BY DEF LocateDate, At
<1>2. /\ IsRequest(q) /\ DOMAIN q = Fields /\ AreTables(Seen(c))
      /\ q.then = <<"commit">> /\ q.date \in Nat
      /\ q.alone => RightSoFar(q, Seen(c))
  BY <1>1, OfRequest DEF IsRequest, InStep
<1> HIDE DEF P
<1>3. CASE Read(c, p)
  <2>1. /\ DOMAIN p = Fields /\ p.at = "rebuild" /\ p.id = q.id
        /\ p.then = <<"find">> \o q.then
        /\ p.date = q.date /\ p.cover = {q.date} /\ p.mine = q.mine /\ p.atomic = q.atomic
        /\ p.rebuilt = q.rebuilt /\ p.alone = q.alone
    BY <1>2 DEF Fields
  <2> HIDE DEF p
  <2>5. p.then = <<"find", "commit">>
    <3>1. p.then = <<"find">> \o <<"commit">>
      BY <1>2, <2>1
    <3>2. QED
      BY <3>1, ListOfTwo
  <2>2. IsRequest(p)
    BY <1>2, <2>1, <2>5 DEF IsRequest, InStep, HasRow, HasRead
  <2>3. RightSoFar(p, Seen(c))
    BY <2>1 DEF RightSoFar
  <2>6. Locating(q)
    BY <1>1 DEF Locating
  <2>4. QED
    BY <1>1, <1>2, <1>3, <2>1, <2>2, <2>3, <2>6, ReadKeeps
<1>4. CASE Read(c, r) /\ CoveringKeys(P, q.date) # {}
  <2>1. /\ DOMAIN r = Fields /\ r.at = "assign" /\ r.then = q.then /\ r.id = q.id
        /\ r.date = q.date /\ r.cover = q.cover /\ r.mine = q.mine /\ r.atomic = q.atomic
        /\ r.rebuilt = q.rebuilt /\ r.alone = q.alone /\ r.from = q.from
        /\ r.got = PeriodForDate(P, q.date)
    BY <1>2 DEF Fields
  <2> HIDE DEF r
  <2>2. DOMAIN P \subseteq PeriodRows /\ \A s \in DOMAIN P : P[s].start \in Int
    BY <1>2, TableRows DEF P, PeriodRow
  <2>3. r.got \in CoveringKeys(P, q.date)
    BY <1>2, <1>4, <2>1, <2>2, LatestCovers
  <2>4. IsRequest(r)
    <3>1. r.got \in PeriodRows
      BY <2>2, <2>3 DEF CoveringKeys
    <3>2. QED
      BY <1>2, <2>1, <3>1 DEF IsRequest, InStep, HasRow, HasRead
  <2>5. q.alone => RightSoFar(r, Seen(c))
    BY <1>1, <1>2, <2>1, <2>3 DEF RightSoFar, P
  <2>6. Locating(q)
    BY <1>1 DEF Locating
  <2>7. QED
    BY <1>1, <1>2, <1>4, <2>1, <2>4, <2>5, <2>6, ReadKeeps
<1>5. QED
  BY <1>1, <1>3, <1>4

LEMMA FindPeriodKeeps ==
  ASSUME RebuildInv, NEW c \in Clients, FindPeriod(c)
  PROVE  RebuildInv'
<1> DEFINE q == tx[c]
           P == Periods(Seen(c))
           r == [q EXCEPT !.at = "assign", !.got = PeriodForDate(P, q.date)]
<1>1. /\ q # Idle /\ q.at = "find" /\ Read(c, r) /\ CoveringKeys(P, q.date) # {}
  BY DEF FindPeriod, At
<1>2. /\ IsRequest(q) /\ DOMAIN q = Fields /\ AreTables(Seen(c))
      /\ q.then = <<"commit">> /\ q.date \in Nat
      /\ q.alone => RightSoFar(q, Seen(c))
  BY <1>1, OfRequest DEF IsRequest, InStep
<1> HIDE DEF P
<1>3. /\ DOMAIN r = Fields /\ r.at = "assign" /\ r.then = q.then /\ r.id = q.id
      /\ r.date = q.date /\ r.cover = q.cover /\ r.mine = q.mine /\ r.atomic = q.atomic
      /\ r.rebuilt = q.rebuilt /\ r.alone = q.alone /\ r.from = q.from
      /\ r.got = PeriodForDate(P, q.date)
  BY <1>2 DEF Fields
<1> HIDE DEF r
<1>4. DOMAIN P \subseteq PeriodRows /\ \A s \in DOMAIN P : P[s].start \in Int
  BY <1>2, TableRows DEF P, PeriodRow
<1>5. r.got \in CoveringKeys(P, q.date)
  BY <1>1, <1>2, <1>3, <1>4, LatestCovers
<1>6. IsRequest(r)
  <2>1. r.got \in PeriodRows
    BY <1>4, <1>5 DEF CoveringKeys
  <2>2. QED
    BY <1>2, <1>3, <2>1 DEF IsRequest, InStep, HasRow, HasRead
<1>7. q.alone => RightSoFar(r, Seen(c))
  BY <1>1, <1>2, <1>3, <1>5 DEF RightSoFar, P
<1>8. Locating(q)
  BY <1>1 DEF Locating
<1>9. QED
  BY <1>1, <1>2, <1>3, <1>6, <1>7, <1>8, ReadKeeps

LEMMA AssignPeriodKeeps ==
  ASSUME RebuildInv, NEW c \in Clients, AssignPeriod(c)
  PROVE  RebuildInv'
<1> DEFINE q == tx[c]
           V == Seen(c)
           p == Proceed(q)
           rows == [key \in {Row(q.id)} |-> [V[key] EXCEPT !.period = q.got]]
           U == Over(rows, V)
<1>1. q # Idle /\ q.at = "assign" /\ (Read(c, p) \/ (q.id # 0 /\ Write(c, rows, p)))
  BY DEF AssignPeriod, At
<1>2. /\ IsRequest(q) /\ AreRows(q.mine) /\ HasWritten(q, q.mine)
      /\ q.alone => RightSoFar(q, V)
      /\ DOMAIN q = Fields /\ AreTables(V)
  BY <1>1, OfRequest
<1>3. /\ DOMAIN p = Fields
      /\ p.at = Head(q.then) /\ p.then = Tail(q.then) /\ p.id = q.id /\ p.date = q.date
      /\ p.from = q.from /\ p.cover = q.cover /\ p.mine = q.mine /\ p.atomic = q.atomic
      /\ p.rebuilt = q.rebuilt /\ p.alone = q.alone
  <2>1. DOMAIN q = Fields
    BY <1>2
  <2>2. QED
    BY <2>1, ProceedFields
<1> HIDE DEF p
<1>4. /\ IsRequest(p)
      /\ p.at \in {"rebuild", "locate", "find", "commit"}
      /\ Locating(p) => Locating(q)
  BY <1>1, <1>2, <1>3, NextStep
<1>5. q.alone /\ q.rebuilt =>
         /\ IsRowwise(Periods(V), Asked(V, q.cover))
         /\ q.from = 0 => IsFiled(V)
         /\ q.got \in CoveringKeys(Periods(V), q.date)
  BY <1>1, <1>2 DEF RightSoFar
<1>6. CASE Read(c, p)
  <2>1. p.alone => RightSoFar(p, V)
    BY <1>3, <1>4, <1>5, RightWhenThere
  <2>2. QED
    BY <1>1, <1>3, <1>4, <1>6, <2>1, ReadKeeps
<1>7. CASE q.id # 0 /\ Write(c, rows, p)
  <2>1. /\ q.id \in TxIds /\ q.atomic /\ q.got \in PeriodRows /\ q.date \in Nat
        /\ q.cover \in SUBSET Nat
    BY <1>1, <1>2, <1>7 DEF IsRequest, HasRow, HasRead
  <2>2. /\ Row(q.id) \in DOMAIN q.mine /\ q.mine[Row(q.id)] # Absent
        /\ q.mine[Row(q.id)].date = q.date
    BY <1>1, <1>2, <1>7 DEF HasWritten, Locating
  <2>3. V[Row(q.id)] = q.mine[Row(q.id)] /\ V = Over(q.mine, db)
    BY <2>2 DEF Seen, Over
  <2>4. V[Row(q.id)] \in TransactionRow /\ V[Row(q.id)].date = q.date
    BY <1>2, <2>1, <2>2, <2>3, KeysApart DEF AreTables, AreRows, RowOf
  <2> HIDE DEF V
  <2>5. /\ DOMAIN rows = {Row(q.id)}
        /\ rows[Row(q.id)] \in TransactionRow
        /\ rows[Row(q.id)].period = q.got
        /\ rows[Row(q.id)].date = q.date
        /\ rows[Row(q.id)].kind = V[Row(q.id)].kind
    BY <2>1, <2>4 DEF TransactionRow
  <2> HIDE DEF rows
  <2>6. Refiles(rows, V)
    BY <2>2, <2>3, <2>4, <2>5, KeysApart DEF Refiles
  <2>7. AreRows(rows)
    BY <2>1, <2>5, KeysApart DEF AreRows, RowOf
  <2>8. HasWritten(p, Over(rows, q.mine))
    BY <1>1, <1>2, <1>3, <1>4, <2>1, <2>3, <2>6, RefilingWrites
  <2> HIDE DEF U
  <2>9. /\ AreTables(U)
        /\ DOMAIN Transactions(U) = DOMAIN Transactions(V)
        /\ \A i \in DOMAIN Transactions(V) : U[Row(i)].date = V[Row(i)].date
        /\ \A cover : Asked(U, cover) = Asked(V, cover)
    BY <1>2, <2>6, <2>7, RefilingAsks DEF U
  <2>10. /\ \A i \in TxIds : U[Row(i)] = IF i = q.id THEN rows[Row(i)] ELSE V[Row(i)]
         /\ \A r \in PeriodRows : U[r] = V[r]
    <3>1. DOMAIN V = Keys
      BY <1>2 DEF AreTables
    <3>2. QED
      BY <2>5, <3>1, KeysApart DEF U, Over
  <2>11. Periods(U) = Periods(V)
    BY <2>10 DEF Periods
  <2>12. ASSUME q.alone, q.rebuilt, q.from = 0 PROVE IsFiled(U)
    <3>1. IsFiled(V) /\ IsRowwise(Periods(V), Asked(V, q.cover))
      BY <1>5, <2>12
    <3> SUFFICES ASSUME NEW i \in DOMAIN Transactions(U), NEW r \in DOMAIN Periods(U),
                        Covers(U[r], U[Row(i)].date)
                 PROVE  U[Row(i)].period = r
      BY DEF IsFiled
    <3>2. i \in DOMAIN Transactions(V) /\ i \in TxIds /\ r \in DOMAIN Periods(V)
          /\ r \in PeriodRows /\ Covers(V[r], V[Row(i)].date)
      BY <2>9, <2>10, <2>11 DEF Transactions, Periods
    <3>3. CASE i = q.id
      <4>1. r \in CoveringKeys(Periods(V), q.date)
        BY <1>2, <2>4, <3>2, <3>3, TableRows DEF CoveringKeys
      <4>2. Proved!IsSequence(Asked(V, q.cover)) /\ Proved!Partition(Asked(V, q.cover))
        BY <1>2, <2>1, TableRows, DesiredOfRows DEF Asked
      <4>3. r = q.got
        BY <1>5, <2>1, <2>12, <3>1, <4>1, <4>2, RowwiseOnce
      <4>4. QED
        BY <2>5, <2>10, <3>2, <3>3, <4>3
    <3>4. CASE i # q.id
      BY <2>10, <3>1, <3>2, <3>4 DEF IsFiled
    <3>5. QED
      BY <3>3, <3>4
  <2>13. p.alone => RightSoFar(p, U)
    BY <1>3, <1>4, <1>5, <2>9, <2>11, <2>12, RightWhenThere
  <2>14. QED
    BY <1>1, <1>3, <1>4, <1>7, <2>7, <2>8, <2>13, WriteKeeps DEF U, V
<1>8. QED
  BY <1>1, <1>6, <1>7

\* What the rebuild has read serves any request; one that no other overlaps with
\* has read what the transactions ask for.
LEMMA ReadSalariesKeeps ==
  ASSUME RebuildInv, NEW c \in Clients, ReadSalaries(c)
  PROVE  RebuildInv'
<1> DEFINE q == tx[c]
           T == Transactions(Seen(c))
           p == [q EXCEPT !.at = "oldest", !.got = Restrict(T, Salaries(T))]
<1>1. q # Idle /\ q.at = "rebuild" /\ Read(c, p)
  BY DEF ReadSalaries, At
<1>2. IsRequest(q) /\ DOMAIN q = Fields /\ AreTables(Seen(c))
  BY <1>1, OfRequest
<1>3. /\ DOMAIN p = Fields /\ p.at = "oldest" /\ p.then = q.then /\ p.id = q.id
      /\ p.got = Restrict(T, Salaries(T))
      /\ p.date = q.date /\ p.cover = q.cover /\ p.mine = q.mine /\ p.atomic = q.atomic
      /\ p.rebuilt = q.rebuilt /\ p.alone = q.alone
  BY <1>2 DEF Fields
<1> HIDE DEF p
<1>4. IsRowTable(p.got)
  BY <1>2, <1>3, TableRows, SalariesSuffice
<1>5. Locating(p) => Locating(q)
  BY <1>3 DEF Locating
<1>6. IsRequest(p)
  BY <1>1, <1>2, <1>3, <1>4, <1>5 DEF IsRequest, InStep, HasRow, HasRead
<1>7. RightSoFar(p, Seen(c))
  BY <1>3 DEF RightSoFar
<1>8. QED
  BY <1>1, <1>3, <1>5, <1>6, <1>7, ReadKeeps

LEMMA ReadOldestKeeps ==
  ASSUME RebuildInv, NEW c \in Clients, ReadOldest(c)
  PROVE  RebuildInv'
<1> DEFINE q == tx[c]
           T == Transactions(Seen(c))
           D == DesiredPeriods(q.got, q.cover \union Oldest(T))
           p == [q EXCEPT !.at = "existing", !.got = D]
<1>1. q # Idle /\ q.at = "oldest" /\ Read(c, p)
  BY DEF ReadOldest, At, Oldest
<1>2. /\ IsRequest(q) /\ DOMAIN q = Fields /\ AreTables(Seen(c))
      /\ q.alone => RightSoFar(q, Seen(c))
  BY <1>1, OfRequest
<1>3. /\ DOMAIN p = Fields /\ p.at = "existing" /\ p.then = q.then /\ p.id = q.id /\ p.got = D
      /\ p.date = q.date /\ p.cover = q.cover /\ p.mine = q.mine /\ p.atomic = q.atomic
      /\ p.rebuilt = q.rebuilt /\ p.alone = q.alone
  BY <1>2 DEF Fields
<1> HIDE DEF p
<1>4. Proved!IsSequence(D) /\ Proved!Partition(D)
  <2>1. IsRowTable(q.got) /\ q.cover \in SUBSET Nat
    BY <1>1, <1>2 DEF IsRequest, HasRead
  <2>2. q.cover \union Oldest(T) \in SUBSET Nat
    BY <1>2, <2>1, TableRows, SalariesSuffice
  <2>3. QED
    BY <2>1, <2>2, DesiredOfRows
<1>5. q.alone => D = Asked(Seen(c), q.cover)
  <2>1. q.alone => q.got = Restrict(T, Salaries(T))
    BY <1>1, <1>2 DEF RightSoFar
  <2>2. q.cover \in SUBSET Nat /\ IsRowTable(T)
    BY <1>2, TableRows DEF IsRequest
  <2>3. QED
    BY <2>1, <2>2, SalariesSuffice DEF Asked
<1> HIDE DEF D
<1>6. Locating(p) => Locating(q)
  BY <1>3 DEF Locating
<1>7. IsRequest(p)
  BY <1>1, <1>2, <1>3, <1>4, <1>6 DEF IsRequest, InStep, HasRow, HasRead
<1>8. p.alone => RightSoFar(p, Seen(c))
  BY <1>3, <1>5 DEF RightSoFar
<1>9. QED
  BY <1>1, <1>3, <1>6, <1>7, <1>8, ReadKeeps

LEMMA ReadExistingKeeps ==
  ASSUME RebuildInv, NEW c \in Clients, ReadExisting(c)
  PROVE  RebuildInv'
<1> DEFINE q == tx[c]
           V == Seen(c)
           P == Periods(V)
           Q == [r \in {RowFor(c, P, k) : k \in DOMAIN q.got} |-> q.got[r[2]]]
           p == [q EXCEPT !.at = "writes", !.from = Boundary(P, Q, q.from),
                          !.got = Writes(P, Q)]
<1>1. q # Idle /\ q.at = "existing" /\ Read(c, p)
  BY DEF ReadExisting, At
<1>2. /\ IsRequest(q) /\ DOMAIN q = Fields /\ AreTables(V)
      /\ q.alone => RightSoFar(q, V)
  BY <1>1, OfRequest
<1> HIDE DEF V, Q
<1>3. /\ DOMAIN p = Fields /\ p.at = "writes" /\ p.then = q.then /\ p.id = q.id
      /\ p.got = Writes(P, Q)
      /\ p.date = q.date /\ p.cover = q.cover /\ p.mine = q.mine /\ p.atomic = q.atomic
      /\ p.rebuilt = q.rebuilt /\ p.alone = q.alone
  BY <1>2 DEF Fields
<1> HIDE DEF p
<1>4. /\ IsRowwise(Q, q.got)
      /\ IsFiniteSet(DOMAIN Q)
      /\ \A r \in DOMAIN Q : Q[r] \in PeriodRow
      /\ \A r, s \in DOMAIN Q : Q[r].start = Q[s].start => r = s
  <2>1. Proved!IsSequence(q.got) /\ Proved!Partition(q.got)
    BY <1>1, <1>2 DEF IsRequest, HasRead
  <2>2. DOMAIN P \subseteq PeriodRows
    BY <1>2, TableRows
  <2>3. QED
    BY <2>1, <2>2, RowsWanted DEF Q
<1>5. Writes(P, Q) \in Seq(Statements) /\ Leads(Writes(P, Q), V, Q)
  BY <1>2, <1>4, WritesLead DEF IsRowwise
<1>6. Locating(p) => Locating(q)
  BY <1>3 DEF Locating
<1>7. IsRequest(p)
  BY <1>1, <1>2, <1>3, <1>5, <1>6 DEF IsRequest, InStep, HasRow, HasRead
<1>8. p.alone => RightSoFar(p, V)
  <2>1. p.alone => q.got = Asked(V, q.cover)
    BY <1>1, <1>2, <1>3 DEF RightSoFar
  <2>2. p.alone => IsRowwise(Q, Asked(V, p.cover)) /\ Leads(p.got, V, Q)
    BY <1>3, <1>4, <1>5, <2>1
  <2>3. QED
    BY <1>3, <2>2 DEF RightSoFar
<1>9. QED
  BY <1>1, <1>3, <1>6, <1>7, <1>8, ReadKeeps DEF V

\* A write of a period done, the others lead on from there.
LEMMA PeriodWritten ==
  ASSUME RebuildInv, NEW c \in Clients, At(c, "writes"), tx[c].got # <<>>,
         NEW s, s = Head(tx[c].got),
         NEW rows, AreRows(rows), Refiles(rows, Seen(c)),
         NEW p, p = [tx[c] EXCEPT !.got = Tail(@)], Write(c, rows, p),
         \A r \in DOMAIN rows \intersect PeriodRows :
            \/ s.op = "delete" /\ r \in s.rows
            \/ s.op \in {"park", "update", "create"} /\ r = s.row,
         s.op = "delete" => \A r \in s.rows : Over(rows, Seen(c))[r] = Absent,
         s.op \in {"update", "create"} => Over(rows, Seen(c))[s.row] = s.values
  PROVE  RebuildInv'
<1> DEFINE q == tx[c]
           V == Seen(c)
           U == Over(rows, V)
<1>1. q # Idle /\ q.at = "writes"
  BY DEF At
<1>2. /\ IsRequest(q) /\ AreRows(q.mine) /\ HasWritten(q, q.mine)
      /\ q.alone => RightSoFar(q, V)
      /\ DOMAIN q = Fields /\ AreTables(V)
  BY <1>1, OfRequest
<1>3. /\ DOMAIN p = Fields /\ p.at = "writes" /\ p.then = q.then /\ p.id = q.id
      /\ p.got = Tail(q.got)
      /\ p.date = q.date /\ p.cover = q.cover /\ p.mine = q.mine /\ p.atomic = q.atomic
      /\ p.rebuilt = q.rebuilt /\ p.alone = q.alone
  BY <1>1, <1>2 DEF Fields
<1>4. q.got \in Seq(Statements) /\ Tail(q.got) \in Seq(Statements)
  <2>1. q.got \in Seq(Statements)
    BY <1>1, <1>2 DEF IsRequest, HasRead
  <2>2. QED
    BY <2>1, HeadTailProperties
<1>5. Locating(p) => Locating(q)
  BY <1>3 DEF Locating
<1>6. IsRequest(p)
  BY <1>1, <1>2, <1>3, <1>4, <1>5 DEF IsRequest, InStep, HasRow, HasRead
<1>7. q.atomic => HasWritten(p, Over(rows, q.mine))
  <2>1. q.id # 0 => q.id \in TxIds
    BY <1>2 DEF IsRequest, HasRow
  <2>2. V = Over(q.mine, db)
    BY DEF Seen
  <2>3. QED
    BY <1>1, <1>2, <1>3, <1>5, <2>1, <2>2, RefilingWrites
<1>8. p.alone => RightSoFar(p, U)
  <2> SUFFICES ASSUME p.alone PROVE RightSoFar(p, U)
    OBVIOUS
  <2>1. PICK Q : IsRowwise(Q, Asked(V, q.cover)) /\ Leads(q.got, V, Q)
    BY <1>1, <1>2, <1>3 DEF RightSoFar
  <2>2. Asked(U, q.cover) = Asked(V, q.cover)
    BY <1>2, RefilingAsks
  <2>3. \A r \in PeriodRows :
           \/ U[r] = V[r]
           \/ s.op = "delete" /\ r \in s.rows
           \/ s.op \in {"park", "update", "create"} /\ r = s.row
    <3>1. DOMAIN V = Keys
      BY <1>2 DEF AreTables
    <3> HIDE DEF V
    <3>2. \A r \in PeriodRows : r \notin DOMAIN rows => U[r] = V[r]
      BY <3>1, KeysApart DEF Over
    <3>3. QED
      BY <3>2
  <2>4. DOMAIN Q \subseteq PeriodRows
    BY <2>1 DEF IsRowwise
  <2> HIDE DEF U, V
  <2>5. /\ s.op = "delete" => \A r \in s.rows : U[r] = Absent
        /\ s.op \in {"update", "create"} => U[s.row] = s.values
    BY DEF U, V
  <2>6. Leads(Tail(q.got), U, Q)
    BY <1>4, <2>1, <2>3, <2>4, <2>5, LeadsOn
  <2>7. QED
    BY <1>3, <2>1, <2>2, <2>6 DEF RightSoFar
<1>9. QED
  BY <1>1, <1>3, <1>6, <1>7, <1>8, WriteKeeps

LEMMA DeletionRefiles ==
  ASSUME NEW V, AreTables(V), NEW gone \in SUBSET PeriodRows,
         NEW rows, rows = DeletedPeriods(V, gone)
  PROVE  /\ AreRows(rows) /\ Refiles(rows, V)
         /\ DOMAIN rows \intersect PeriodRows = gone
         /\ \A r \in gone : rows[r] = Absent
<1> DEFINE left == {Row(i) : i \in {i \in DOMAIN Transactions(V) : V[Row(i)].period \in gone}}
<1>1. rows = [key \in gone \union left |->
                 IF key \in gone THEN Absent ELSE [V[key] EXCEPT !.period = Null]]
  BY DEF DeletedPeriods
<1>2. \A key \in left : /\ key \in Keys \ PeriodRows
                        /\ V[key] # Absent /\ V[key] \in TransactionRow
                        /\ \E i \in TxIds : key = Row(i)
  <2>1. \A i \in DOMAIN Transactions(V) :
           i \in TxIds /\ V[Row(i)] # Absent /\ V[Row(i)] \in TransactionRow
    BY TableRows DEF Transactions
  <2>2. \A key \in left : \E i \in DOMAIN Transactions(V) : key = Row(i)
    OBVIOUS
  <2> HIDE DEF left
  <2>3. QED
    BY <2>1, <2>2, KeysApart
<1> HIDE DEF left
<1>3. \A r \in gone : r \in DOMAIN rows /\ rows[r] = Absent
  BY <1>1
<1>4. \A key \in left : /\ rows[key] \in TransactionRow
                        /\ rows[key].date = V[key].date /\ rows[key].kind = V[key].kind
  <2> TAKE key \in left
  <2>1. V[key] \in TransactionRow /\ key \notin gone
    BY <1>2
  <2>2. rows[key] = [V[key] EXCEPT !.period = Null]
    BY <1>1, <2>1
  <2>3. QED
    BY <2>1, <2>2 DEF TransactionRow
<1>5. DOMAIN rows = gone \union left
  BY <1>1
<1>6. AreRows(rows)
  BY <1>2, <1>3, <1>4, <1>5, KeysApart DEF AreRows, RowOf
<1>7. Refiles(rows, V)
  BY <1>2, <1>4, <1>5, KeysApart DEF Refiles
<1>8. DOMAIN rows \intersect PeriodRows = gone
  BY <1>2, <1>5
<1>9. QED
  BY <1>3, <1>6, <1>7, <1>8

LEMMA OneRowOver ==
  ASSUME NEW r \in PeriodRows, NEW value \in PeriodRow, NEW V, AreTables(V),
         NEW rows, rows = [s \in {r} |-> value]
  PROVE  AreRows(rows) /\ Refiles(rows, V) /\ Over(rows, V)[r] = value
<1>1. DOMAIN rows = {r} /\ rows[r] = value
  OBVIOUS
<1>2. AreRows(rows)
  BY <1>1, KeysApart DEF AreRows, RowOf
<1>3. Refiles(rows, V)
  BY <1>1, KeysApart DEF Refiles
<1>4. Over(rows, V)[r] = value
  BY <1>1 DEF Over
<1>5. QED
  BY <1>2, <1>3, <1>4

LEMMA WritePeriodKeeps ==
  ASSUME RebuildInv, NEW c \in Clients, WritePeriod(c)
  PROVE  RebuildInv'
<1> DEFINE s == Head(tx[c].got)
           p == [tx[c] EXCEPT !.got = Tail(@)]
           V == Seen(c)
           gone == {r \in s.rows : V[r] # Absent}
           parked == [r \in {s.row} |-> [V[r] EXCEPT !.start = s.start]]
           values == [r \in {s.row} |-> s.values]
<1>1. /\ At(c, "writes") /\ tx[c] # Idle /\ tx[c].got # <<>>
      /\ \/ s.op = "delete" /\ Write(c, DeletedPeriods(V, gone), p)
         \/ s.op = "park" /\ V[s.row] # Absent /\ Write(c, parked, p)
         \/ s.op \in {"update", "create"} /\ Write(c, values, p)
  BY DEF WritePeriod, At
<1>2. s \in Statements /\ AreTables(V)
  <2>1. tx[c].got \in Seq(Statements)
    BY <1>1, OfRequest DEF IsRequest, HasRead, At
  <2>2. QED
    BY <1>1, <2>1, HeadTailProperties, SeenTables
<1> HIDE DEF s, p
<1>3. CASE s.op = "delete" /\ Write(c, DeletedPeriods(V, gone), p)
  <2>1. s.rows \in SUBSET PeriodRows
    BY <1>2, <1>3 DEF Statements
  <2> DEFINE rows == DeletedPeriods(V, gone)
  <2>2. /\ AreRows(rows) /\ Refiles(rows, V)
        /\ DOMAIN rows \intersect PeriodRows = gone
        /\ \A r \in gone : rows[r] = Absent
    BY <1>2, <2>1, DeletionRefiles
  <2>3. \A r \in s.rows : Over(rows, V)[r] = Absent
    <3>1. DOMAIN V = Keys
      BY <1>2 DEF AreTables
    <3> HIDE DEF rows
    <3>2. ASSUME NEW r \in s.rows PROVE Over(rows, V)[r] = Absent
      <4>1. r \in PeriodRows /\ r \in Keys
        BY <2>1, KeysApart
      <4>2. CASE r \in gone
        BY <2>2, <4>2 DEF Over
      <4>3. CASE r \notin gone
        <5>1. r \notin DOMAIN rows /\ V[r] = Absent
          BY <2>2, <4>1, <4>3
        <5>2. QED
          BY <3>1, <4>1, <5>1 DEF Over
      <4>4. QED
        BY <4>2, <4>3
    <3>3. QED
      BY <3>2
  <2>4. \A r \in DOMAIN rows \intersect PeriodRows : s.op = "delete" /\ r \in s.rows
    BY <1>3, <2>2
  <2> HIDE DEF rows
  <2>5. Write(c, rows, p)
    BY <1>3 DEF rows
  <2>6. QED
    BY <1>1, <1>3, <2>2, <2>3, <2>4, <2>5, PeriodWritten DEF s, p
<1>4. CASE s.op = "park" /\ V[s.row] # Absent /\ Write(c, parked, p)
  <2>1. s.row \in PeriodRows /\ s.start \in Int
    BY <1>2, <1>4 DEF Statements
  <2>2. V[s.row] \in PeriodRow
    BY <1>2, <1>4, <2>1, TableRows
  <2>3. [V[s.row] EXCEPT !.start = s.start] \in PeriodRow
    BY <2>1, <2>2 DEF PeriodRow
  <2>4. parked = [r \in {s.row} |-> [V[s.row] EXCEPT !.start = s.start]]
    OBVIOUS
  <2>5. AreRows(parked) /\ Refiles(parked, V)
    BY <1>2, <2>1, <2>3, <2>4, OneRowOver
  <2>6. DOMAIN parked = {s.row}
    OBVIOUS
  <2>7. Write(c, parked, p)
    BY <1>4
  <2> HIDE DEF parked
  <2>8. QED
    BY <1>1, <1>4, <2>5, <2>6, <2>7, PeriodWritten DEF s, p
<1>5. CASE s.op \in {"update", "create"} /\ Write(c, values, p)
  <2>1. s.row \in PeriodRows /\ s.values \in PeriodRow
    BY <1>2, <1>5 DEF Statements
  <2>2. AreRows(values) /\ Refiles(values, V) /\ Over(values, V)[s.row] = s.values
    BY <1>2, <2>1, OneRowOver
  <2>3. DOMAIN values = {s.row}
    OBVIOUS
  <2>4. Write(c, values, p)
    BY <1>5
  <2> HIDE DEF values
  <2>5. QED
    BY <1>1, <1>5, <2>2, <2>3, <2>4, PeriodWritten DEF s, p
<1>6. QED
  BY <1>1, <1>3, <1>4, <1>5

LEMMA ReadPeriodsKeeps ==
  ASSUME RebuildInv, NEW c \in Clients, ReadPeriods(c)
  PROVE  RebuildInv'
<1> DEFINE q == tx[c]
           V == Seen(c)
           P == Periods(V)
           read == Restrict(P, EndingAfter(P, q.from))
           p == [q EXCEPT !.at = "reassign", !.rebuilt = TRUE, !.got = read]
<1>1. q # Idle /\ q.at = "writes" /\ q.got = <<>> /\ Read(c, p)
  BY DEF ReadPeriods, At
<1>2. /\ IsRequest(q) /\ DOMAIN q = Fields /\ AreTables(V)
      /\ q.alone => RightSoFar(q, V)
  BY <1>1, OfRequest
<1> HIDE DEF V
<1>3. /\ DOMAIN p = Fields /\ p.at = "reassign" /\ p.then = q.then /\ p.id = q.id
      /\ p.got = read /\ p.rebuilt = TRUE
      /\ p.date = q.date /\ p.cover = q.cover /\ p.mine = q.mine /\ p.atomic = q.atomic
      /\ p.from = q.from /\ p.alone = q.alone
  BY <1>2 DEF Fields
<1> HIDE DEF p
<1>4. /\ DOMAIN P \subseteq PeriodRows
      /\ \A r \in DOMAIN P : P[r] = V[r] /\ V[r] \in PeriodRow
  BY <1>2, TableRows
<1>5. DOMAIN read = EndingAfter(P, q.from) /\ \A r \in DOMAIN read : r \in DOMAIN P /\ read[r] = V[r]
  BY <1>4 DEF Restrict, EndingAfter
<1> HIDE DEF read
<1>6. Locating(p) => Locating(q)
  BY <1>3 DEF Locating
<1>7. IsRequest(p)
  <2>1. HasRead(p)
    BY <1>3, <1>4, <1>5 DEF HasRead
  <2>2. QED
    BY <1>1, <1>2, <1>3, <1>6, <2>1 DEF IsRequest, InStep, HasRow
<1>8. p.alone => RightSoFar(p, V)
  <2> SUFFICES ASSUME p.alone PROVE RightSoFar(p, V)
    OBVIOUS
  <2>1. PICK Q : IsRowwise(Q, Asked(V, q.cover)) /\ Leads(<<>>, V, Q)
    BY <1>1, <1>2, <1>3 DEF RightSoFar
  <2>2. Proved!IsSequence(Asked(V, q.cover))
    BY <1>2, TableRows, DesiredOfRows DEF IsRequest, Asked
  <2>3. IsRowwise(P, Asked(V, q.cover))
    BY <1>2, <2>1, <2>2, LeadsThere
  <2>4. ASSUME q.from = 0, NEW i \in DOMAIN Transactions(V), NEW r \in DOMAIN P,
               Covers(V[r], V[Row(i)].date)
        PROVE  r \in DOMAIN read
    <3>1. V[Row(i)].date \in Nat
      BY <1>2, TableRows, InstantsAssumption DEF TransactionRow
    <3>2. V[r].end = Null \/ (V[r].end \in Nat /\ 0 < V[r].end)
      <4>1. V[r].end = Null \/ V[r].end \in Nat
        BY <1>4 DEF PeriodRow
      <4>2. V[r].end = Null \/ V[Row(i)].date < V[r].end
        BY <2>4 DEF Covers
      <4>3. QED
        BY <3>1, <4>1, <4>2
    <3>3. r \in EndingAfter(P, 0)
      BY <1>4, <3>2 DEF EndingAfter
    <3>4. QED
      BY <1>5, <2>4, <3>3
  <2>5. QED
    BY <1>3, <1>5, <2>3, <2>4 DEF RightSoFar
<1>9. QED
  BY <1>1, <1>3, <1>6, <1>7, <1>8, ReadKeeps DEF V

LEMMA ReassignKeeps ==
  ASSUME RebuildInv, NEW c \in Clients, Reassign(c)
  PROVE  RebuildInv'
<1> DEFINE q == tx[c]
           V == Seen(c)
           T == Transactions(V)
<1>1. q # Idle /\ q.at = "reassign"
  BY DEF Reassign, At
<1>2. /\ IsRequest(q) /\ AreRows(q.mine) /\ HasWritten(q, q.mine)
      /\ q.alone => RightSoFar(q, V)
      /\ DOMAIN q = Fields /\ AreTables(V)
  BY <1>1, OfRequest
<1>3. q.alone => /\ q.rebuilt
                 /\ IsRowwise(Periods(V), Asked(V, q.cover))
                 /\ \A r \in DOMAIN q.got : r \in DOMAIN Periods(V) /\ q.got[r] = V[r]
                 /\ q.from = 0 =>
                       \A i \in DOMAIN T, r \in DOMAIN Periods(V) :
                          Covers(V[r], V[Row(i)].date) =>
                             V[Row(i)].period = r \/ r \in DOMAIN q.got
  BY <1>1, <1>2 DEF RightSoFar
<1>4. CASE DOMAIN q.got = {} /\ Read(c, Proceed(q))
  <2> DEFINE p == Proceed(q)
  <2>0. DOMAIN q = Fields
    BY <1>2
  <2>1. /\ DOMAIN p = Fields
        /\ p.at = Head(q.then) /\ p.then = Tail(q.then) /\ p.id = q.id /\ p.date = q.date
        /\ p.from = q.from /\ p.cover = q.cover /\ p.mine = q.mine /\ p.atomic = q.atomic
        /\ p.rebuilt = q.rebuilt /\ p.alone = q.alone
    BY <2>0, ProceedFields
  <2> HIDE DEF p
  <2>2. /\ IsRequest(p)
        /\ p.at \in {"rebuild", "locate", "find", "commit"}
        /\ Locating(p) => Locating(q)
    BY <1>1, <1>2, <2>1, NextStep
  <2>3. q.alone /\ q.from = 0 => IsFiled(V)
    BY <1>3, <1>4 DEF IsFiled
  <2>4. p.alone => RightSoFar(p, V)
    BY <1>3, <2>1, <2>2, <2>3, RightWhenThere
  <2>5. Read(c, p)
    BY <1>4 DEF p
  <2>6. QED
    BY <1>1, <2>1, <2>2, <2>4, <2>5, ReadKeeps
<1>5. ASSUME NEW r \in DOMAIN q.got,
             NEW moved, moved = {i \in DOMAIN T : Covers(q.got[r], T[i].date) /\ T[i].period # r},
             NEW rows, rows = [key \in {Row(i) : i \in moved} |-> [V[key] EXCEPT !.period = r]],
             NEW p, p = [q EXCEPT !.got = Restrict(@, DOMAIN @ \ {r})],
             Write(c, rows, p)
      PROVE  RebuildInv'
  <2>1. /\ DOMAIN p = Fields /\ p.at = "reassign" /\ p.then = q.then /\ p.id = q.id
        /\ p.got = Restrict(q.got, DOMAIN q.got \ {r}) /\ p.rebuilt = q.rebuilt
        /\ p.date = q.date /\ p.cover = q.cover /\ p.mine = q.mine /\ p.atomic = q.atomic
        /\ p.from = q.from /\ p.alone = q.alone
    BY <1>1, <1>2, <1>5 DEF Fields
  <2>2. /\ DOMAIN p.got = DOMAIN q.got \ {r}
        /\ \A s \in DOMAIN p.got : p.got[s] = q.got[s]
    BY <2>1 DEF Restrict
  <2>3. DOMAIN q.got \subseteq PeriodRows
    BY <1>1, <1>2 DEF IsRequest, HasRead
  <2>4. Locating(p) => Locating(q)
    BY <2>1 DEF Locating
  <2>5. IsRequest(p)
    <3>1. HasRead(p)
      BY <2>1, <2>2, <2>3 DEF HasRead
    <3>2. QED
      BY <1>1, <1>2, <2>1, <2>4, <3>1 DEF IsRequest, InStep, HasRow
  <2>6. /\ \A i \in DOMAIN T : /\ i \in TxIds /\ T[i] = V[Row(i)]
                               /\ V[Row(i)] # Absent /\ V[Row(i)] \in TransactionRow
        /\ moved \subseteq DOMAIN T
    BY <1>2, <1>5, TableRows DEF Transactions
  <2> DEFINE U == Over(rows, V)
  <2> HIDE DEF V
  <2>7. /\ \A key \in DOMAIN rows : \E i \in moved : key = Row(i)
        /\ \A i \in moved : Row(i) \in DOMAIN rows
    BY <1>5
  <2>8. ASSUME NEW i \in moved
        PROVE  /\ rows[Row(i)] \in TransactionRow /\ rows[Row(i)].period = r
               /\ rows[Row(i)].date = V[Row(i)].date /\ rows[Row(i)].kind = V[Row(i)].kind
    <3>1. rows[Row(i)] = [V[Row(i)] EXCEPT !.period = r]
      BY <1>5
    <3>2. V[Row(i)] \in TransactionRow /\ r \in PeriodRows
      BY <2>3, <2>6
    <3>3. QED
      BY <3>1, <3>2 DEF TransactionRow
  <2>9. AreRows(rows)
    BY <2>6, <2>7, <2>8, KeysApart DEF AreRows, RowOf
  <2>10. Refiles(rows, V)
    <3>1. ASSUME NEW i \in TxIds, Row(i) \in DOMAIN rows PROVE i \in moved
      BY <2>7, <3>1, KeysApart
    <3>2. QED
      BY <2>6, <2>8, <3>1 DEF Refiles
  <2>11. q.atomic => HasWritten(p, Over(rows, q.mine))
    <3>1. q.id # 0 => q.id \in TxIds
      BY <1>2 DEF IsRequest, HasRow
    <3>2. V = Over(q.mine, db)
      BY DEF V, Seen
    <3>3. QED
      BY <1>1, <1>2, <2>1, <2>4, <2>10, <3>1, <3>2, RefilingWrites
  <2>12. /\ AreTables(U)
         /\ DOMAIN Transactions(U) = DOMAIN T
         /\ \A i \in DOMAIN T : U[Row(i)].date = V[Row(i)].date
         /\ \A cover : Asked(U, cover) = Asked(V, cover)
    BY <1>2, <2>9, <2>10, RefilingAsks
  <2>13. /\ \A i \in DOMAIN T : U[Row(i)] = IF i \in moved THEN rows[Row(i)] ELSE V[Row(i)]
         /\ \A s \in PeriodRows : U[s] = V[s]
    <3>1. DOMAIN V = Keys
      BY <1>2 DEF AreTables
    <3>2. \A i \in DOMAIN T : Row(i) \in DOMAIN rows <=> i \in moved
      BY <2>7, KeysApart
    <3>3. \A s \in PeriodRows : s \notin DOMAIN rows
      BY <2>7, KeysApart
    <3> HIDE DEF T
    <3>4. \A i \in DOMAIN T : Row(i) \in Keys
      BY <2>6, KeysApart
    <3>5. QED
      BY <3>1, <3>2, <3>3, <3>4, KeysApart DEF Over
  <2> HIDE DEF U
  <2>14. Periods(U) = Periods(V)
    BY <2>13 DEF Periods
  <2>15. ASSUME q.alone, q.from = 0, NEW i \in DOMAIN T, NEW s \in DOMAIN Periods(V),
                Covers(U[s], U[Row(i)].date)
         PROVE  U[Row(i)].period = s \/ s \in DOMAIN p.got
    <3>1. s \in PeriodRows /\ Periods(V)[s] = V[s]
      BY <1>2, TableRows
    <3>2. Covers(V[s], V[Row(i)].date) /\ V[Row(i)].date \in Nat
      BY <2>6, <2>12, <2>13, <2>15, <3>1, InstantsAssumption DEF TransactionRow
    <3>3. CASE s = r
      <4>1. i \in moved \/ V[Row(i)].period = r
        BY <1>3, <1>5, <2>6, <2>15, <3>2, <3>3
      <4>2. QED
        BY <2>8, <2>13, <3>3, <4>1
    <3>4. CASE s # r /\ s \in DOMAIN q.got
      BY <2>2, <3>4
    <3>5. CASE s # r /\ s \notin DOMAIN q.got
      <4>1. V[Row(i)].period = s
        BY <1>3, <2>15, <3>2, <3>5
      <4>2. i \notin moved
        <5>1. SUFFICES ASSUME i \in moved PROVE FALSE
          OBVIOUS
        <5>2. Covers(V[r], V[Row(i)].date) /\ r \in DOMAIN Periods(V)
          BY <1>3, <1>5, <2>6, <2>15, <5>1
        <5>3. r \in CoveringKeys(Periods(V), V[Row(i)].date)
          BY <1>2, <5>2, TableRows DEF CoveringKeys
        <5>4. s \in CoveringKeys(Periods(V), V[Row(i)].date)
          BY <3>1, <3>2 DEF CoveringKeys
        <5>5. Proved!IsSequence(Asked(V, q.cover)) /\ Proved!Partition(Asked(V, q.cover))
          BY <1>2, TableRows, DesiredOfRows DEF IsRequest, Asked
        <5>6. r = s
          BY <1>3, <2>15, <3>2, <5>3, <5>4, <5>5, RowwiseOnce
        <5>7. QED
          BY <3>5, <5>6
      <4>3. QED
        BY <2>13, <4>1, <4>2
    <3>6. QED
      BY <3>3, <3>4, <3>5
  <2>16. p.alone => RightSoFar(p, U)
    <3> SUFFICES ASSUME p.alone PROVE RightSoFar(p, U)
      OBVIOUS
    <3>1. IsRowwise(Periods(U), Asked(U, p.cover))
      BY <1>3, <2>1, <2>12, <2>14
    <3>2. \A s \in DOMAIN p.got : s \in DOMAIN Periods(U) /\ p.got[s] = U[s]
      BY <1>3, <2>1, <2>2, <2>3, <2>13, <2>14
    <3>3. QED
      BY <1>3, <2>1, <2>12, <2>14, <2>15, <3>1, <3>2 DEF RightSoFar
  <2>17. QED
    BY <1>1, <1>5, <2>1, <2>5, <2>9, <2>11, <2>16, WriteKeeps DEF U, V
<1>6. \/ DOMAIN q.got = {} /\ Read(c, Proceed(q))
      \/ \E r \in DOMAIN q.got :
            Write(c, [key \in {Row(i) : i \in {i \in DOMAIN T :
                                  Covers(q.got[r], T[i].date) /\ T[i].period # r}} |->
                        [V[key] EXCEPT !.period = r]],
                  [q EXCEPT !.got = Restrict(@, DOMAIN @ \ {r})])
  BY DEF Reassign
<1>7. QED
  BY <1>4, <1>5, <1>6

LEMMA CommitKeeps ==
  ASSUME RebuildInv, NEW c \in Clients, Commit(c)
  PROVE  RebuildInv'
<1>1. tx[c] # Idle /\ tx' = [tx EXCEPT ![c] = Idle] /\ db' = Seen(c)
  BY DEF Commit, At
<1>2. AreTables(db')
  BY <1>1, SeenTables
<1>3. QED
  BY <1>1, <1>2, StatementKeeps

LEMMA RollbackKeeps ==
  ASSUME RebuildInv, NEW c \in Clients, Rollback(c)
  PROVE  RebuildInv'
<1>1. tx[c] # Idle /\ tx' = [tx EXCEPT ![c] = Idle] /\ db' = db
  BY DEF Rollback
<1>2. AreTables(db')
  BY <1>1 DEF RebuildInv
<1>3. QED
  BY <1>1, <1>2, StatementKeeps

-----------------------------------------------------------------------------
(* The requests begin *)

LEMMA AloneAside ==
  ASSUME NEW q, DOMAIN q = Fields, NEW alone, NEW p, p = [q EXCEPT !.alone = alone]
  PROVE  /\ p.mine = q.mine /\ p.alone = alone /\ p.at = q.at /\ p.rebuilt = q.rebuilt
         /\ IsRequest(q) => IsRequest(p)
         /\ HasWritten(q, q.mine) => HasWritten(p, p.mine)
<1>1. /\ DOMAIN p = Fields /\ p.mine = q.mine /\ p.at = q.at /\ p.then = q.then /\ p.id = q.id
      /\ p.row = q.row /\ p.date = q.date /\ p.from = q.from /\ p.cover = q.cover
      /\ p.got = q.got /\ p.atomic = q.atomic /\ p.rebuilt = q.rebuilt /\ p.alone = alone
  BY DEF Fields
<1>2. Locating(p) <=> Locating(q)
  BY <1>1 DEF Locating
<1>3. IsRequest(q) => IsRequest(p)
  <2>1. (InStep(q) => InStep(p)) /\ (HasRead(q) => HasRead(p))
    BY <1>1 DEF InStep, HasRead
  <2>2. HasRow(q) => HasRow(p)
    BY <1>1, <1>2 DEF HasRow
  <2>3. QED
    BY <1>1, <2>1, <2>2 DEF IsRequest
<1>4. HasWritten(q, q.mine) => HasWritten(p, p.mine)
  BY <1>1, <1>2 DEF HasWritten
<1>5. QED
  BY <1>1, <1>3, <1>4

LEMMA BeginKeeps ==
  ASSUME RebuildInv, NEW c \in Clients, NEW kind, NEW q, Begin(c, kind, q),
         IsRequest(q), AreRows(q.mine), HasWritten(q, q.mine),
         q.at \in {"write", "current", "locate", "rebuild"}, q.rebuilt = FALSE
  PROVE  RebuildInv'
<1>1. /\ DOMAIN tx' = Clients /\ db' = db /\ tx[c] = Idle
      /\ tx'[c] = [q EXCEPT !.alone = (Others(c) = {})]
      /\ \A d \in Clients \ {c} : tx[d] = Idle => tx'[d] = Idle
      /\ \A d \in Clients \ {c} : tx[d] # Idle => tx'[d] = [tx[d] EXCEPT !.alone = FALSE]
  BY DEF Begin
<1>2. /\ IsRequest(tx'[c]) /\ AreRows(tx'[c].mine) /\ HasWritten(tx'[c], tx'[c].mine)
      /\ tx'[c].at \in {"write", "current", "locate", "rebuild"}
      /\ tx'[c].rebuilt = FALSE
      /\ tx'[c].alone = (Others(c) = {})
  BY <1>1, AloneAside DEF IsRequest
<1>3. RightSoFar(tx'[c], Seen(c)')
  BY <1>2 DEF RightSoFar
<1>4. tx'[c].alone => Others(c)' = {}
  BY <1>1, <1>2 DEF Others
<1>5. ASSUME NEW d \in Clients \ {c}, tx'[d] # Idle
      PROVE  /\ IsRequest(tx'[d]) /\ AreRows(tx'[d].mine) /\ HasWritten(tx'[d], tx'[d].mine)
             /\ ~ tx'[d].alone
  <2>1. tx[d] # Idle /\ tx'[d] = [tx[d] EXCEPT !.alone = FALSE]
    BY <1>1, <1>5
  <2>2. IsRequest(tx[d]) /\ AreRows(tx[d].mine) /\ HasWritten(tx[d], tx[d].mine)
    BY <2>1 DEF RebuildInv
  <2>3. QED
    BY <2>1, <2>2, AloneAside DEF IsRequest
<1>6. AreTables(db')
  BY <1>1 DEF RebuildInv
<1>7. QED
  BY <1>1, <1>2, <1>3, <1>4, <1>5, <1>6 DEF RebuildInv

LEMMA NothingWritten ==
  ASSUME NEW q, q.mine = <<>>, q.id = 0 \/ (q.at = "write" /\ q.atomic)
  PROVE  AreRows(q.mine) /\ HasWritten(q, q.mine)
<1>1. DOMAIN q.mine = {}
  OBVIOUS
<1>2. QED
  BY <1>1 DEF AreRows, HasWritten

LEMMA BeginCreateKeeps ==
  ASSUME RebuildInv, NEW c \in Clients, NEW i \in TxIds, NEW date \in Instants,
         NEW kind \in {"salary", "other"}, BeginCreate(c, i, date, kind)
  PROVE  RebuildInv'
<1> DEFINE row == [date |-> date, kind |-> kind, period |-> Null]
           mine == [key \in {Row(i)} |-> row]
           q == [NewRequest EXCEPT !.at = "locate", !.then = <<"commit">>, !.id = i, !.row = row,
                                   !.date = date, !.mine = mine]
<1>1. Begin(c, "create", q)
  BY DEF BeginCreate
<1>2. row \in TransactionRow /\ row.date = date
  BY DEF TransactionRow
<1> HIDE DEF row
<1>3. DOMAIN mine = {Row(i)} /\ mine[Row(i)] = row
  OBVIOUS
<1> HIDE DEF mine
<1>4. /\ DOMAIN q = Fields /\ q.at = "locate" /\ q.then = <<"commit">> /\ q.id = i
      /\ q.date = date /\ q.mine = mine /\ q.atomic = TRUE /\ q.rebuilt = FALSE
      /\ q.cover = {}
  BY DEF NewRequest, Fields
<1> HIDE DEF q
<1>5. IsRequest(q)
  BY <1>4, InstantsAssumption DEF IsRequest, InStep, HasRow, HasRead
<1>6. AreRows(q.mine)
  BY <1>2, <1>3, <1>4, KeysApart DEF AreRows, RowOf
<1>7. HasWritten(q, q.mine)
  BY <1>2, <1>3, <1>4, RebuildRowsAssumption DEF HasWritten
<1>8. QED
  BY <1>1, <1>4, <1>5, <1>6, <1>7, BeginKeeps

LEMMA BeginUpdateKeeps ==
  ASSUME RebuildInv, NEW c \in Clients, NEW i \in TxIds, NEW date \in Instants,
         NEW kind \in {"salary", "other"}, BeginUpdate(c, i, date, kind)
  PROVE  RebuildInv'
<1> DEFINE old == db[Row(i)]
           row == [date |-> date, kind |-> kind]
           q == [NewRequest EXCEPT
                    !.at = "write", !.id = i, !.date = date, !.row = row,
                    !.from = IF old.date < date THEN old.date ELSE date,
                    !.then = IF IsSalary(old) THEN <<"rebuild", "locate", "commit">>
                             ELSE <<"locate", "commit">>]
<1>1. Begin(c, "update", q)
  BY DEF BeginUpdate
<1>2. row \in RowEdit /\ row.date = date /\ row.kind = kind
  BY DEF RowEdit
<1> HIDE DEF row, old
<1>4. /\ DOMAIN q = Fields /\ q.at = "write" /\ q.id = i /\ q.row = row
      /\ q.then = <<"rebuild", "locate", "commit">> \/ q.then = <<"locate", "commit">>
      /\ q.date = date /\ q.mine = <<>> /\ q.atomic = TRUE /\ q.rebuilt = FALSE
      /\ q.cover = {}
  BY DEF NewRequest, Fields
<1> HIDE DEF q
<1>5. Locating(q) /\ q.row # Absent
  BY <1>2, <1>4, RebuildRowsAssumption DEF Locating
<1>6. q.id # 0 /\ q.date \in Nat
  BY <1>4, RequestIdsAssumption, InstantsAssumption
<1>7. IsRequest(q)
  BY <1>2, <1>4, <1>5, <1>6 DEF IsRequest, InStep, HasRow, HasRead
<1>8. AreRows(q.mine) /\ HasWritten(q, q.mine)
  BY <1>4, NothingWritten
<1>9. QED
  BY <1>1, <1>4, <1>7, <1>8, BeginKeeps

LEMMA BeginRemoveKeeps ==
  ASSUME RebuildInv, NEW c \in Clients, NEW i \in TxIds, BeginRemove(c, i)
  PROVE  RebuildInv'
<1> DEFINE old == db[Row(i)]
           q == [NewRequest EXCEPT
                    !.at = "write", !.id = i, !.from = old.date,
                    !.then = IF IsSalary(old) THEN <<"rebuild", "commit">> ELSE <<"commit">>]
<1>1. Begin(c, "remove", q)
  BY DEF BeginRemove
<1> HIDE DEF old
<1>2. /\ DOMAIN q = Fields /\ q.at = "write" /\ q.id = i /\ q.row = Absent
      /\ q.then = <<"rebuild", "commit">> \/ q.then = <<"commit">>
      /\ q.date = 0 /\ q.mine = <<>> /\ q.atomic = TRUE /\ q.rebuilt = FALSE
      /\ q.cover = {}
  BY DEF NewRequest, Fields
<1> HIDE DEF q
<1>3. q.then \notin {<<"rebuild", "locate", "commit">>, <<"locate", "commit">>,
                     <<"find", "commit">>}
  <2>1. CASE q.then = <<"rebuild", "commit">>
    <3>1. Len(q.then) = 2 /\ q.then[1] = "rebuild"
      BY <2>1
    <3>2. /\ Len(<<"rebuild", "locate", "commit">>) = 3
          /\ <<"locate", "commit">>[1] = "locate" /\ <<"find", "commit">>[1] = "find"
      OBVIOUS
    <3>3. QED
      BY <3>1, <3>2
  <2>2. CASE q.then = <<"commit">>
    <3>1. Len(q.then) = 1
      BY <2>2
    <3>2. /\ Len(<<"rebuild", "locate", "commit">>) = 3
          /\ Len(<<"locate", "commit">>) = 2 /\ Len(<<"find", "commit">>) = 2
      OBVIOUS
    <3>3. QED
      BY <3>1, <3>2
  <2>3. QED
    BY <1>2, <2>1, <2>2
<1>4. ~ Locating(q)
  BY <1>2, <1>3 DEF Locating
<1>5. q.id # 0
  BY <1>2, RequestIdsAssumption
<1>6. IsRequest(q)
  <2>1. HasRow(q)
    BY <1>2, <1>4 DEF HasRow
  <2>2. InStep(q) /\ HasRead(q)
    BY <1>2 DEF InStep, HasRead
  <2>5. q.date \in Nat
    BY <1>2
  <2>6. q.cover \in SUBSET Nat
    BY <1>2
  <2>7. q.atomic \in BOOLEAN
    BY <1>2
  <2>4. QED
    BY <1>2, <1>5, <2>1, <2>2, <2>5, <2>6, <2>7 DEF IsRequest
<1>7. AreRows(q.mine) /\ HasWritten(q, q.mine)
  BY <1>2, NothingWritten
<1>8. QED
  BY <1>1, <1>2, <1>6, <1>7, BeginKeeps

LEMMA BeginCurrentKeeps ==
  ASSUME RebuildInv, NEW c \in Clients, NEW now \in Instants, NEW atomic \in BOOLEAN,
         BeginCurrent(c, now, atomic)
  PROVE  RebuildInv'
<1> DEFINE q == [NewRequest EXCEPT !.at = "current", !.then = <<"commit">>,
                                   !.date = now, !.atomic = atomic]
<1>1. Begin(c, "current", q)
  BY DEF BeginCurrent
<1>2. /\ DOMAIN q = Fields /\ q.at = "current" /\ q.id = 0 /\ q.then = <<"commit">>
      /\ q.date = now /\ q.mine = <<>> /\ q.atomic = atomic /\ q.rebuilt = FALSE
      /\ q.cover = {}
  BY DEF NewRequest, Fields
<1> HIDE DEF q
<1>3. IsRequest(q)
  BY <1>2, InstantsAssumption DEF IsRequest, InStep, HasRow, HasRead
<1>4. AreRows(q.mine) /\ HasWritten(q, q.mine)
  BY <1>2, NothingWritten
<1>5. QED
  BY <1>1, <1>2, <1>3, <1>4, BeginKeeps

LEMMA BeginMigrateKeeps ==
  ASSUME RebuildInv, NEW c \in Clients, BeginMigrate(c)
  PROVE  RebuildInv'
<1> DEFINE q == [NewRequest EXCEPT !.at = "rebuild", !.then = <<"commit">>]
<1>1. Begin(c, "migrate", q)
  BY DEF BeginMigrate
<1>2. /\ DOMAIN q = Fields /\ q.at = "rebuild" /\ q.id = 0 /\ q.then = <<"commit">>
      /\ q.date = 0 /\ q.mine = <<>> /\ q.atomic = TRUE /\ q.rebuilt = FALSE
      /\ q.cover = {}
  BY DEF NewRequest, Fields
<1> HIDE DEF q
<1>3. IsRequest(q)
  <2>1. HasRow(q)
    BY <1>2 DEF HasRow
  <2>2. InStep(q) /\ HasRead(q)
    BY <1>2 DEF InStep, HasRead
  <2>5. q.date \in Nat
    BY <1>2
  <2>6. q.cover \in SUBSET Nat
    BY <1>2
  <2>7. q.atomic \in BOOLEAN
    BY <1>2
  <2>4. QED
    BY <1>2, <2>1, <2>2, <2>5, <2>6, <2>7 DEF IsRequest
<1>4. AreRows(q.mine) /\ HasWritten(q, q.mine)
  BY <1>2, NothingWritten
<1>5. QED
  BY <1>1, <1>2, <1>3, <1>4, BeginKeeps

-----------------------------------------------------------------------------
(* The invariant holds *)

\* The rows buildPeriodSpecs leaves of the transactions T and the periods P.
BuiltRows(T, P) ==
    /\ DOMAIN db = Keys
    /\ \A i \in TxIds :
          db[Row(i)] = IF i \notin DOMAIN T THEN Absent
                       ELSE [date |-> T[i].date, kind |-> T[i].kind,
                             period |-> <<"period", PeriodForDate(P, T[i].date), Before>>]
    /\ \A r \in PeriodRows :
          db[r] = IF r[3] = Before /\ r[2] \in DOMAIN P THEN P[r[2]] ELSE Absent
    /\ \A k \in DOMAIN P : k \in TxIds \union {Bootstrap} /\ P[k] \in PeriodRow
    /\ Proved!IsSequence(P) /\ Proved!Partition(P)
    /\ \A i \in DOMAIN T : /\ PeriodForDate(P, T[i].date) \in CoveringKeys(P, T[i].date)
                           /\ <<"period", PeriodForDate(P, T[i].date), Before>> \in PeriodRows

LEMMA InitBuilds ==
  ASSUME InitRebuild
  PROVE  \E ids \in SUBSET TxIds, cover \in SUBSET Instants : \E T \in [ids -> RowEdit] :
            BuiltRows(T, DesiredPeriods(T, cover))
<1> DEFINE Built(ids, cover, T) ==
        db = [key \in Keys |->
              IF key[1] = "transaction"
              THEN IF key[2] \notin ids THEN Absent
                   ELSE [date |-> T[key[2]].date, kind |-> T[key[2]].kind,
                         period |-> <<"period",
                                      PeriodForDate(DesiredPeriods(T, cover), T[key[2]].date),
                                      Before>>]
              ELSE IF key[3] = Before /\ key[2] \in DOMAIN DesiredPeriods(T, cover)
                   THEN DesiredPeriods(T, cover)[key[2]] ELSE Absent]
<1>0. PICK ids \in SUBSET TxIds, cover \in SUBSET Instants : \E T \in [ids -> RowEdit] :
        Built(ids, cover, T)
  BY DEF InitRebuild, BuiltTables
<1>1. PICK T \in [ids -> RowEdit] : Built(ids, cover, T)
  BY <1>0
<1> DEFINE P == DesiredPeriods(T, cover)
           U == [i \in ids |-> [date |-> T[i].date, kind |-> T[i].kind, period |-> Null]]
<1>2. \A i \in ids : T[i].date \in Instants /\ T[i].kind \in {"salary", "other"}
  BY DEF RowEdit
<1>3. IsRowTable(U)
  BY <1>2 DEF IsRowTable, TransactionRow
<1>4. DOMAIN U = ids /\ DOMAIN T = ids
      /\ \A i \in ids : U[i].date = T[i].date /\ U[i].kind = T[i].kind
  OBVIOUS
<1> HIDE DEF U
<1>5. P = DesiredPeriods(U, cover)
  BY <1>4, DesiredByDates
<1>6. cover \in SUBSET Nat
  BY InstantsAssumption
<1>7. /\ Proved!IsSequence(P) /\ Proved!Partition(P)
      /\ \A date \in DatesToReach(U, cover) : CoveringKeys(P, date) # {}
  BY <1>3, <1>5, <1>6, DesiredOfRows
<1>8. \A k \in DOMAIN P : k \in TxIds \union {Bootstrap} /\ P[k] \in PeriodRow
  BY <1>7 DEF Proved!IsSequence, Proved!Keys, Proved!Period, PeriodRow
<1>9. ASSUME NEW i \in ids
      PROVE  /\ PeriodForDate(P, T[i].date) \in CoveringKeys(P, T[i].date)
             /\ <<"period", PeriodForDate(P, T[i].date), Before>> \in PeriodRows
  <2>1. T[i].date \in DatesToReach(U, cover) /\ T[i].date \in Nat
    BY <1>2, <1>4, InstantsAssumption DEF DatesToReach
  <2>2. PeriodForDate(P, T[i].date) \in CoveringKeys(P, T[i].date)
    BY <1>7, <1>8, <2>1, LatestCovers DEF PeriodRow
  <2>3. PeriodForDate(P, T[i].date) \in TxIds \union {Bootstrap}
    BY <1>8, <2>2 DEF CoveringKeys
  <2>4. QED
    BY <2>2, <2>3, PeriodRowParts
<1>10. ASSUME NEW i \in TxIds
       PROVE  db[Row(i)] = IF i \notin DOMAIN T THEN Absent
                           ELSE [date |-> T[i].date, kind |-> T[i].kind,
                                 period |-> <<"period", PeriodForDate(P, T[i].date), Before>>]
  <2>1. Row(i) \in Keys /\ Row(i)[1] = "transaction" /\ Row(i)[2] = i
    BY KeysApart DEF Row
  <2>2. QED
    BY <1>1, <1>4, <2>1
<1>11. \A r \in PeriodRows :
          db[r] = IF r[3] = Before /\ r[2] \in DOMAIN P THEN P[r[2]] ELSE Absent
  <2>1. \A r \in PeriodRows : r \in Keys /\ r[1] = "period"
    BY KeysApart DEF PeriodRows
  <2>2. QED
    BY <1>1, <2>1
<1>12. DOMAIN db = Keys
  BY <1>1
<1>13. BuiltRows(T, P)
  <2> HIDE DEF P
  <2>1. QED
    BY <1>4, <1>7, <1>8, <1>9, <1>10, <1>11, <1>12 DEF BuiltRows
<1>14. QED
  BY <1>13

LEMMA InitRebuildInv == InitRebuild => RebuildInv
<1> SUFFICES ASSUME InitRebuild PROVE RebuildInv
  OBVIOUS
<1>1. PICK ids \in SUBSET TxIds, cover \in SUBSET Instants : \E T \in [ids -> RowEdit] :
        BuiltRows(T, DesiredPeriods(T, cover))
  BY InitBuilds
<1>2. PICK T \in [ids -> RowEdit] : BuiltRows(T, DesiredPeriods(T, cover))
  BY <1>1
<1> DEFINE P == DesiredPeriods(T, cover)
<1>3. \A i \in DOMAIN T : i \in TxIds /\ T[i].date \in Instants /\ T[i].kind \in {"salary", "other"}
  BY DEF RowEdit
<1> HIDE DEF P
<1>4. BuiltRows(T, P)
  BY <1>2 DEF P
<1>5. ASSUME NEW r \in PeriodRows
      PROVE  db[r] \in RowOf(r)
  BY <1>4 DEF BuiltRows, RowOf
<1>6. ASSUME NEW i \in TxIds
      PROVE  db[Row(i)] \in RowOf(Row(i))
  <2>1. Row(i) \notin PeriodRows
    BY KeysApart
  <2>2. CASE i \in DOMAIN T
    <3> DEFINE r == <<"period", PeriodForDate(P, T[i].date), Before>>
    <3>1. db[Row(i)] = [date |-> T[i].date, kind |-> T[i].kind, period |-> r] /\ r \in PeriodRows
      BY <1>4, <2>2 DEF BuiltRows
    <3> HIDE DEF r
    <3>2. db[Row(i)] \in TransactionRow
      BY <1>3, <2>2, <3>1 DEF TransactionRow
    <3>3. QED
      BY <2>1, <3>2 DEF RowOf
  <2>3. CASE i \notin DOMAIN T
    BY <1>4, <2>1, <2>3 DEF BuiltRows, RowOf
  <2>4. QED
    BY <2>2, <2>3
<1>7. AreTables(db)
  <2>1. DOMAIN db = Keys
    BY <1>4 DEF BuiltRows
  <2>2. \A key \in Keys : db[key] \in RowOf(key)
    BY <1>5, <1>6, KeysApart
  <2>3. db = [key \in Keys |-> db[key]]
    BY DEF InitRebuild, BuiltTables
  <2>4. QED
    BY <2>1, <2>2, <2>3 DEF AreTables, AreRows
<1>8. tx = [c \in Clients |-> Idle]
  BY DEF InitRebuild
<1>9. QED
  BY <1>7, <1>8 DEF RebuildInv

LEMMA NextRebuildInv == RebuildInv /\ [NextRebuild]_rebuildVars => RebuildInv'
<1> SUFFICES ASSUME RebuildInv, [NextRebuild]_rebuildVars PROVE RebuildInv'
  OBVIOUS
<1>1. CASE UNCHANGED rebuildVars
  BY <1>1 DEF rebuildVars, RebuildInv, Others, Seen
<1>2. ASSUME NEW c \in Clients, Request(c) PROVE RebuildInv'
  BY <1>2, BeginCreateKeeps, BeginUpdateKeeps, BeginRemoveKeeps, BeginCurrentKeeps,
     BeginMigrateKeeps DEF Request
<1>3. ASSUME NEW c \in Clients, Statement(c) PROVE RebuildInv'
  BY <1>3, WriteTransactionKeeps, FindOpenKeeps, LocateDateKeeps, FindPeriodKeeps,
     AssignPeriodKeeps, ReadSalariesKeeps, ReadOldestKeeps, ReadExistingKeeps,
     WritePeriodKeeps, ReadPeriodsKeeps, ReassignKeeps, CommitKeeps DEF Statement
<1>4. ASSUME NEW c \in Clients, Rollback(c) PROVE RebuildInv'
  BY <1>4, RollbackKeeps
<1>5. QED
  BY <1>1, <1>2, <1>3, <1>4 DEF NextRebuild

LEMMA RebuildsKeepInv == RebuildSpec => []RebuildInv
BY InitRebuildInv, NextRebuildInv, PTL DEF RebuildSpec

-----------------------------------------------------------------------------
(* A rebuild repairs *)

\* The abstract operators are those of the rows.
LEMMA SameOperators ==
  /\ \A S : Requests!Min(S) = Min(S) /\ Proved!Min(S) = Min(S)
  /\ \A date : /\ Requests!StartOfFinancialDay(date) = StartOfFinancialDay(date)
               /\ Proved!StartOfFinancialDay(date) = StartOfFinancialDay(date)
  /\ \A starts, s : Requests!NextStart(starts, s) = Proved!NextStart(starts, s)
  /\ \A T : Requests!Anchors(T) = Anchors(T)
<1>1. \A S : Requests!Min(S) = Min(S) /\ Proved!Min(S) = Min(S)
  BY DEF Requests!Min, Proved!Min, Min
<1>2. \A date : /\ Requests!StartOfFinancialDay(date) = StartOfFinancialDay(date)
                /\ Proved!StartOfFinancialDay(date) = StartOfFinancialDay(date)
  BY DEF Requests!StartOfFinancialDay, Proved!StartOfFinancialDay, StartOfFinancialDay
<1>3. \A starts, s : Requests!NextStart(starts, s) = Proved!NextStart(starts, s)
  BY <1>1 DEF Requests!NextStart, Proved!NextStart
<1>4. \A T : Requests!Anchors(T) = Anchors(T)
  BY <1>2 DEF Requests!Anchors, Anchors, Requests!Salaries, Salaries, Requests!IsSalary, IsSalary,
              Requests!SameDay, SameDay, Requests!Precedes, Precedes
<1>5. QED
  BY <1>1, <1>2, <1>3, <1>4

\* Rows that are what the transactions ask for are a sequence of periods, one row
\* to a period; each transaction is in its own if it is stored with the period
\* that holds its date.
LEMMA RightRows ==
  ASSUME NEW V, AreTables(V), NEW cover \in SUBSET Nat,
         IsRowwise(Periods(V), Asked(V, cover))
  PROVE  /\ Cardinality(DOMAIN Periods(V)) = Cardinality(DOMAIN PeriodsOf(V))
         /\ Requests!Partition(PeriodsOf(V))
         /\ Requests!FollowsSalaries(TransactionsOf(V), PeriodsOf(V))
         /\ IsFiled(V) => \A i \in DOMAIN TransactionsOf(V) :
                             Requests!InItsPeriod(TransactionsOf(V)[i], PeriodsOf(V))
<1> DEFINE T == Transactions(V)
           U == TransactionsOf(V)
           D == Asked(V, cover)
           P == Periods(V)
<1>1. IsRowTable(T) /\ DOMAIN P \subseteq PeriodRows
  BY TableRows
<1>2. /\ Proved!IsSequence(D)
      /\ Proved!Partition(D)
      /\ DOMAIN D \ {Bootstrap} = Anchors(T)
      /\ \A i \in Anchors(T) : D[i].start = StartOfFinancialDay(T[i].date)
      /\ \A date \in DatesToReach(T, cover) : CoveringKeys(D, date) # {}
  BY <1>1, DesiredOfRows DEF Asked
<1>3. PeriodsOf(V) = D
  <2>1. D = [k \in DOMAIN D |-> D[k]]
    BY DEF Asked, DesiredPeriods
  <2>2. QED
    BY <2>1, RowwisePeriods
<1>4. /\ DOMAIN U = DOMAIN T
      /\ \A i \in DOMAIN T : U[i].date = T[i].date /\ U[i].kind = T[i].kind
      /\ \A i \in DOMAIN T : U[i].period = IF T[i].period = Null THEN Null ELSE T[i].period[2]
  <2>1. \A i \in DOMAIN T : T[i] = V[Row(i)]
    BY TableRows
  <2>2. U = [i \in DOMAIN T |-> [T[i] EXCEPT !.period = IF @ = Null THEN Null ELSE @[2]]]
    BY <2>1 DEF TransactionsOf
  <2>3. \A i \in DOMAIN T : T[i] \in TransactionRow
    BY <1>1 DEF IsRowTable
  <2> HIDE DEF U, T
  <2>4. QED
    BY <2>2, <2>3 DEF TransactionRow
<1>5. IsRowwise(P, D)
  OBVIOUS
<1> HIDE DEF D, U
<1>6. Cardinality(DOMAIN P) = Cardinality(DOMAIN D)
  <2> DEFINE key == [r \in DOMAIN P |-> r[2]]
  <2>1. \A r \in DOMAIN P : key[r] = r[2]
    OBVIOUS
  <2>2. DOMAIN key = DOMAIN P /\ key = [r \in DOMAIN P |-> key[r]]
    OBVIOUS
  <2> HIDE DEF key
  <2>3. key \in [DOMAIN P -> DOMAIN D]
    BY <1>5, <2>1, <2>2 DEF IsRowwise
  <2>4. \A r, s \in DOMAIN P : key[r] = key[s] => r = s
    BY <1>5, <2>1 DEF IsRowwise
  <2>5. \A k \in DOMAIN D : \E r \in DOMAIN P : key[r] = k
    BY <1>5, <2>1 DEF IsRowwise
  <2>6. key \in Injection(DOMAIN P, DOMAIN D) /\ key \in Surjection(DOMAIN P, DOMAIN D)
    BY <2>3, <2>4, <2>5 DEF Injection, IsInjective, Surjection
  <2>7. IsFiniteSet(DOMAIN D)
    <3>1. DOMAIN D \in SUBSET (TxIds \union {Bootstrap})
      BY <1>2 DEF Proved!IsSequence, Proved!Keys
    <3>2. QED
      BY <3>1, KeysFinite, FS_Subset
  <2>8. QED
    BY <2>6, <2>7, FS_Injection
<1>7. Requests!Partition(D)
  BY <1>2, SameOperators DEF Requests!Partition, Proved!Partition
<1>8. Requests!FollowsSalaries(U, D)
  <2>1. Anchors(U) = Anchors(T)
    BY <1>4, DesiredByDates
  <2>2. Anchors(T) \subseteq DOMAIN T
    BY DEF Anchors, Salaries
  <2>3. QED
    BY <1>2, <1>4, <2>1, <2>2, SameOperators DEF Requests!FollowsSalaries
<1>9. ASSUME IsFiled(V), NEW i \in DOMAIN U
      PROVE  Requests!InItsPeriod(U[i], D)
  <2>1. i \in DOMAIN T /\ T[i] = V[Row(i)] /\ T[i] \in TransactionRow
    BY <1>4, <1>9, TableRows
  <2>2. CoveringKeys(D, T[i].date) # {}
    BY <1>2, <2>1 DEF DatesToReach
  <2>3. CoveringKeys(P, T[i].date) # {}
    BY <1>5, <2>2, RowwiseCovers
  <2>4. PICK r \in CoveringKeys(P, T[i].date) : TRUE
    BY <2>3
  <2>5. r \in DOMAIN P /\ P[r] = V[r] /\ Covers(V[r], V[Row(i)].date) /\ r \in PeriodRows
    BY <1>1, <2>1, <2>4, TableRows DEF CoveringKeys
  <2>6. V[Row(i)].period = r
    BY <1>9, <2>1, <2>5 DEF IsFiled
  <2>7. U[i].period = r[2]
    BY <1>4, <2>1, <2>5, <2>6, RebuildRowsAssumption
  <2>8. r[2] \in CoveringKeys(D, T[i].date)
    BY <1>5, <2>4, RowwiseCovers
  <2>9. QED
    BY <1>4, <2>1, <2>7, <2>8
       DEF Requests!InItsPeriod, Requests!Covers, CoveringKeys, Covers
<1>10. QED
  BY <1>3, <1>6, <1>7, <1>8, <1>9 DEF D, U

\* Requests that overlap may leave periods twice or not at all; the next request
\* that rebuilds on its own commits the sequence the salaries ask for, and the
\* migration every transaction in its period.
THEOREM RebuildsAloneAlwaysRepair == RebuildSpec => RebuildsAloneRepair
<1>1. RebuildInv => \A c \in Clients :
        (At(c, "commit") /\ tx'[c] = Idle /\ db' = Seen(c) /\ tx[c].alone /\ tx[c].rebuilt) =>
          /\ Cardinality(DOMAIN Periods(db')) = Cardinality(DOMAIN PeriodsOf(db)')
          /\ Requests!PeriodsPartition'
          /\ Requests!AnchorsFollowSalaries'
          /\ tx[c].from = 0 => Requests!TransactionsInTheirPeriod'
  <2> SUFFICES ASSUME RebuildInv, NEW c \in Clients, At(c, "commit"), tx'[c] = Idle,
                      db' = Seen(c), tx[c].alone, tx[c].rebuilt
               PROVE  /\ Cardinality(DOMAIN Periods(db')) = Cardinality(DOMAIN PeriodsOf(db)')
                      /\ Requests!PeriodsPartition'
                      /\ Requests!AnchorsFollowSalaries'
                      /\ tx[c].from = 0 => Requests!TransactionsInTheirPeriod'
    OBVIOUS
  <2>1. /\ IsRequest(tx[c]) /\ RightSoFar(tx[c], db') /\ AreTables(db')
        /\ tx[c].at = "commit"
    BY OfRequest DEF At
  <2>2. /\ IsRowwise(Periods(db'), Asked(db', tx[c].cover))
        /\ tx[c].from = 0 => IsFiled(db')
        /\ tx[c].cover \in SUBSET Nat
    BY <2>1 DEF RightSoFar, IsRequest
  <2>3. /\ Cardinality(DOMAIN Periods(db')) = Cardinality(DOMAIN PeriodsOf(db'))
        /\ Requests!Partition(PeriodsOf(db'))
        /\ Requests!FollowsSalaries(TransactionsOf(db'), PeriodsOf(db'))
        /\ IsFiled(db') => \A i \in DOMAIN TransactionsOf(db') :
              Requests!InItsPeriod(TransactionsOf(db')[i], PeriodsOf(db'))
    BY <2>1, <2>2, RightRows
  <2>4. QED
    BY <2>2, <2>3
       DEF Requests!PeriodsPartition, Requests!AnchorsFollowSalaries,
           Requests!TransactionsInTheirPeriod
<1>2. QED
  BY <1>1, RebuildsKeepInv, PTL DEF RebuildSpec, RebuildsAloneRepair

-----------------------------------------------------------------------------
(* One request at a time *)

\* Transactions point at periods that are stored, and no key has two rows.
RefersToRows(V) ==
    \A i \in DOMAIN Transactions(V) :
        V[Row(i)].period = Null \/ V[Row(i)].period \in DOMAIN Periods(V)
OneRowEach(V) == \A r, s \in DOMAIN Periods(V) : r[2] = s[2] => r = s

\* Committed rows are tables that requests of TransactionPeriods have kept.
Kept(V) ==
    /\ RefersToRows(V)
    /\ OneRowEach(V)
    /\ Proved!Consistent(TransactionsOf(V), PeriodsOf(V))
    /\ DOMAIN TransactionsOf(V) # {} => DOMAIN PeriodsOf(V) # {}

\* A request of TransactionPeriods, or none, makes U and Q of the tables T and P.
IsStep(T, P, U, Q) ==
    \/ U = T /\ Q = P
    \/ \E i \in TxIds \ DOMAIN T, date \in Instants, kind \in {"salary", "other"} :
          /\ U = Requests!AfterInsert(T, P, i, date, kind).txs
          /\ Q = Requests!AfterInsert(T, P, i, date, kind).periods
    \/ \E i \in DOMAIN T, date \in Instants, kind \in {"salary", "other"} :
          /\ U = Requests!AfterEdit(T, P, i, date, kind).txs
          /\ Q = Requests!AfterEdit(T, P, i, date, kind).periods
    \/ \E i \in DOMAIN T :
          U = Requests!AfterDelete(T, P, i).txs /\ Q = Requests!AfterDelete(T, P, i).periods
    \/ \E now \in Instants :
          /\ \A k \in DOMAIN P : P[k].end # Null
          /\ U = Locate(T, P, now, FALSE).txs /\ Q = Locate(T, P, now, FALSE).periods
    \/ U = Rebuild(T, P, 0, {}).txs /\ Q = Rebuild(T, P, 0, {}).periods

\* The tables a request leads to lead to a step from the committed ones.
Ends(D, R) == IsStep(TransactionsOf(D), PeriodsOf(D), R.txs, R.periods)

Both(T, P) == [txs |-> T, periods |-> P]

KeyOf(r) == IF r = Null THEN Null ELSE r[2]

\* A transaction with another period.
FiledWith(row, k) == [row EXCEPT !.period = k]

\* What is left to do of a request when the tables are T and P and the period of
\* its date is k, or has to be found, or located; and what its steps say is left.
Placing(q, T, P, k) ==
    Both(IF q.id = 0 \/ KeyOf(q.row.period) = k THEN T ELSE [T EXCEPT ![q.id].period = k], P)

Finding(q, T, P) == Placing(q, T, P, PeriodForDate(P, q.date))

Reaching(q, T, P) ==
    IF ~ (q.id # 0 /\ IsSalary(q.row)) /\ CoveringKeys(P, q.date) # {} THEN Finding(q, T, P)
    ELSE Finding(q, Rebuild(T, P, q.date, {q.date}).txs, Rebuild(T, P, q.date, {q.date}).periods)

Rest(q, T, P) ==
    IF q.then = <<"find", "commit">> THEN Finding(q, T, P)
    ELSE IF q.then = <<"locate", "commit">> THEN Reaching(q, T, P)
    ELSE Both(T, P)

\* The transactions of T once the periods G have been visited and those that are
\* not in P deleted.
RefiledAs(T, P, G, i) ==
    LET hits == CoveringKeys(G, T[i].date)
    IN  IF hits # {} THEN AnyOf(hits)
        ELSE IF T[i].period \in DOMAIN P THEN T[i].period ELSE Null
Refiled(T, P, G) == [i \in DOMAIN T |-> [T[i] EXCEPT !.period = RefiledAs(T, P, G, i)]]

\* What the last read of the periods finds.
Visited(P, boundary) == Restrict(P, EndingAfter(P, boundary))

\* The periods of P whose rows are still to visit.
ToVisit(P, got) == Restrict(P, {r[2] : r \in DOMAIN got})

\* The transaction of a request that locates its period.
Mine(q) == q.id # 0 /\ Locating(q) /\ q.at # "write"

\* What a request on its own has kept of the rows V, as it sees them.
Sound(q, V) ==
    /\ RefersToRows(V)
    /\ q.at # "writes" => /\ OneRowEach(V)
                          /\ Proved!IsSequence(PeriodsOf(V))
                          /\ Proved!Partition(PeriodsOf(V))
    /\ q.from \in Nat
    /\ q.at = "current" => q.date \in Instants
    /\ q.at \in {"write", "current"} => DOMAIN q.mine = {}
    /\ Mine(q) => V[Row(q.id)].kind = q.row.kind
    /\ (Mine(q) /\ q.at \in {"locate", "assign"} /\ ~ q.rebuilt) =>
          q.row.period = V[Row(q.id)].period
    /\ (Mine(q) /\ q.at \in {"rebuild", "oldest", "existing"}) => q.from <= q.date
    /\ q.at = "find" => q.rebuilt
    /\ (Mine(q) /\ q.rebuilt /\ q.at \in {"locate", "find", "assign"}) =>
          Requests!InItsPeriod(TransactionsOf(V)[q.id], PeriodsOf(V))
    /\ q.at = "assign" => q.got \in CoveringKeys(Periods(V), q.date)

\* Outside a transaction there is nothing to keep together: the first period is
\* created, for no transactions.
OneWrite(q, V) ==
    ~ q.atomic =>
        /\ q.then # <<"locate", "commit">>
        /\ q.at \notin {"current", "commit"} => DOMAIN Transactions(V) = {}
        /\ (q.at \in {"locate", "rebuild", "oldest", "existing"}
              \/ (q.at = "writes" /\ q.got # <<>>)) => DOMAIN Periods(V) = {}
        /\ (q.at = "writes" /\ q.got # <<>>) => Tail(q.got) = <<>> /\ Head(q.got).op = "create"

\* What an edit or a removal is going to do.
IsMeant(q, T) ==
    /\ q.id \in DOMAIN T
    /\ q.cover = {}
    /\ IF q.row = Absent
       THEN /\ q.from = T[q.id].date
            /\ q.then = IF IsSalary(T[q.id]) THEN <<"rebuild", "commit">> ELSE <<"commit">>
       ELSE /\ q.from = IF T[q.id].date < q.date THEN T[q.id].date ELSE q.date
            /\ q.then = IF IsSalary(T[q.id]) THEN <<"rebuild", "locate", "commit">>
                        ELSE <<"locate", "commit">>

\* A rebuild is still to do; its writes are; the last loop is.
Rebuilding(q, D, T, P) ==
    LET R == Rebuild(T, P, q.from, q.cover) IN Ends(D, Rest(q, R.txs, R.periods))

LeftToWrite(q, D, T, Q) ==
    LET U == Refiled(T, Q, Visited(Q, q.from))
    IN  /\ Ends(D, Rest(q, U, Q))
        /\ Mine(q) => Requests!InItsPeriod(U[q.id], Q)

LeftToFile(q, D, T, P) ==
    LET U == Refiled(T, P, ToVisit(P, q.got))
    IN  /\ Ends(D, Rest(q, U, P))
        /\ Mine(q) => Requests!InItsPeriod(U[q.id], P)

\* The writes still to do delete no period under a key of Q.
DeletesOthers(writes, Q) ==
    \A n \in 1..Len(writes) : writes[n].op = "delete" =>
        \A r \in writes[n].rows : r[2] \notin DOMAIN Q

\* What is left to do of a request leads from the rows V, as it sees them, to a
\* step from the committed rows D.
LeadsToStep(q, D, V) ==
    LET T == TransactionsOf(V)
        P == PeriodsOf(V)
        Q == Asked(V, q.cover)
    IN  /\ q.at = "write" => IsMeant(q, T)
        /\ q.at = "locate" => Ends(D, Reaching(q, T, P))
        /\ q.at \in {"rebuild", "oldest", "existing"} => Rebuilding(q, D, T, P)
        /\ q.at = "writes" => LeftToWrite(q, D, T, Q) /\ DeletesOthers(q.got, Q)
        /\ q.at = "reassign" => LeftToFile(q, D, T, P)
        /\ q.at = "find" => Ends(D, Finding(q, T, P))
        /\ q.at = "assign" => Ends(D, Placing(q, T, P, q.got[2]))
        /\ q.at = "commit" => Ends(D, Both(T, P))

Lone(q, D, V) == Sound(q, V) /\ OneWrite(q, V) /\ LeadsToStep(q, D, V)

LoneInv ==
    OneByOne =>
        /\ Kept(db)
        /\ \A c \in Clients : tx[c] # Idle =>
              sends[c] # {} /\ tx[c].alone /\ Lone(tx[c], db, Seen(c))

-----------------------------------------------------------------------------
(* The requests of TransactionPeriods, over any tables *)

\* Every module reads the same rows into them.
LEMMA SameAsRequests ==
  /\ \A T, P, from, cover : /\ Requests!Rebuild(T, P, from, cover) = Rebuild(T, P, from, cover)
                            /\ Proved!Rebuild(T, P, from, cover) = Rebuild(T, P, from, cover)
  /\ \A T, P, date, opens : /\ Requests!Locate(T, P, date, opens) = Locate(T, P, date, opens)
                            /\ Proved!Locate(T, P, date, opens) = Locate(T, P, date, opens)
  /\ \A T, P, i, read : /\ Requests!Assign(T, P, i, read) = Assign(T, P, i, read)
                        /\ Proved!Assign(T, P, i, read) = Assign(T, P, i, read)
<1>1. \A T, cover : Requests!DesiredPeriods(T, cover) = DesiredPeriods(T, cover)
  <2>1. \A T, cover : /\ Requests!NeedsBootstrap(T, cover) = NeedsBootstrap(T, cover)
                      /\ \A k : Requests!DesiredStart(T, cover, k) = DesiredStart(T, cover, k)
    BY SameOperators
       DEF Requests!NeedsBootstrap, NeedsBootstrap, Requests!DatesToReach, DatesToReach,
           Requests!DesiredStart, DesiredStart
  <2>2. \A T, cover : Requests!DesiredKeys(T, cover) = DesiredKeys(T, cover)
    BY <2>1, SameOperators DEF Requests!DesiredKeys, DesiredKeys
  <2>3. \A starts, s : Requests!NextStart(starts, s) = NextStart(starts, s)
    BY SameOperators DEF Requests!NextStart, NextStart
  <2>4. \A f : Requests!Range(f) = Range(f)
    BY DEF Requests!Range, Range
  <2>5. QED
    BY <2>1, <2>2, <2>3, <2>4 DEF Requests!DesiredPeriods, DesiredPeriods
<1>2. \A P, Q, from : Requests!Boundary(P, Q, from) = Boundary(P, Q, from)
  BY SameOperators DEF Requests!Boundary, Boundary, Requests!TouchedKeys, TouchedKeys
<1>3. \A T, P, Q, boundary : Requests!Reassigned(T, P, Q, boundary) = Reassigned(T, P, Q, boundary)
  BY DEF Requests!Reassigned, Reassigned, Requests!Reassigning, Reassigning,
         Requests!CoveringKeys, CoveringKeys, Requests!Covers, Covers
<1>4. \A T, P, from, cover : Requests!Rebuild(T, P, from, cover) = Rebuild(T, P, from, cover)
  BY <1>1, <1>2, <1>3 DEF Requests!Rebuild, Rebuild, Requests!RebuildTo, RebuildTo
<1>5. \A P, date : /\ Requests!CoveringKeys(P, date) = CoveringKeys(P, date)
                   /\ Requests!PeriodForDate(P, date) = PeriodForDate(P, date)
  BY DEF Requests!PeriodForDate, PeriodForDate,
         Requests!CoveringKeys, CoveringKeys, Requests!Covers, Covers
<1>6. \A T, P, date, opens : Requests!Locate(T, P, date, opens) = Locate(T, P, date, opens)
  BY <1>4, <1>5, SameOperators DEF Requests!Locate, Locate, Requests!LocatedIn, LocatedIn
<1>7. \A T, P, i, read : Requests!Assign(T, P, i, read) = Assign(T, P, i, read)
  BY <1>6 DEF Requests!Assign, Assign, Requests!Placed, Placed, Requests!IsSalary, IsSalary
<1>8. QED
  BY <1>4, <1>6, <1>7, SameRebuild, SameLocate, SameAssign

LEMMA SameAfter ==
  /\ \A T, P, i, date, kind :
        /\ Requests!AfterInsert(T, P, i, date, kind) = Proved!AfterInsert(T, P, i, date, kind)
        /\ Requests!AfterEdit(T, P, i, date, kind) = Proved!AfterEdit(T, P, i, date, kind)
  /\ \A T, P, i : Requests!AfterDelete(T, P, i) = Proved!AfterDelete(T, P, i)
  /\ \A row, P : Requests!InItsPeriod(row, P) <=> Proved!InItsPeriod(row, P)
<1>1. /\ \A d, e : Requests!Earlier(d, e) = Proved!Earlier(d, e)
      /\ \A T, i, date, kind : Requests!Inserted(T, i, date, kind) = Proved!Inserted(T, i, date, kind)
      /\ \A T, i, date, kind : Requests!Edited(T, i, date, kind) = Proved!Edited(T, i, date, kind)
      /\ \A T, i : Requests!Deleted(T, i) = Proved!Deleted(T, i)
      /\ \A row : Requests!IsSalary(row) = Proved!IsSalary(row)
  BY DEF Requests!Earlier, Proved!Earlier, Requests!Inserted, Proved!Inserted,
         Requests!Edited, Proved!Edited, Requests!Deleted, Proved!Deleted,
         Requests!IsSalary, Proved!IsSalary
<1>2. \A T, P, i, date, kind :
         Requests!AfterInsert(T, P, i, date, kind) = Proved!AfterInsert(T, P, i, date, kind)
  BY <1>1, SameAsRequests DEF Requests!AfterInsert, Proved!AfterInsert
<1>3. \A T, P, i, date, kind :
         Requests!AfterEdit(T, P, i, date, kind) = Proved!AfterEdit(T, P, i, date, kind)
  <2> TAKE T, P, i, date, kind
  <2> DEFINE E == Proved!Edited(T, i, date, kind)
             from == Proved!Earlier(T[i].date, date)
             R == IF Proved!IsSalary(T[i]) THEN Rebuild(E, P, from, {})
                  ELSE [txs |-> E, periods |-> P, boundary |-> from]
             A == Assign(R.txs, R.periods, i, T[i].period)
             both == [txs |-> A.txs, periods |-> A.periods,
                      affectedFrom |-> Min({from, R.boundary, A.affectedFrom})]
  <2>1. Requests!AfterEdit(T, P, i, date, kind) = both
    BY <1>1, SameOperators, SameAsRequests DEF Requests!AfterEdit
  <2>2. Proved!AfterEdit(T, P, i, date, kind) = both
    BY <1>1, SameOperators, SameAsRequests DEF Proved!AfterEdit
  <2>3. QED
    BY <2>1, <2>2
<1>4. \A T, P, i : Requests!AfterDelete(T, P, i) = Proved!AfterDelete(T, P, i)
  BY <1>1, SameAsRequests DEF Requests!AfterDelete, Proved!AfterDelete
<1>5. \A row, P : Requests!InItsPeriod(row, P) <=> Proved!InItsPeriod(row, P)
  BY DEF Requests!InItsPeriod, Proved!InItsPeriod, Requests!Covers, Proved!Covers
<1>6. QED
  BY <1>2, <1>3, <1>4, <1>5

\* Tables with rows have periods when a request has located one.
LEMMA StepsKeep ==
  ASSUME NEW T, NEW P, Proved!Consistent(T, P), DOMAIN T # {} => DOMAIN P # {},
         NEW U, NEW Q, IsStep(T, P, U, Q)
  PROVE  Proved!Consistent(U, Q) /\ (DOMAIN U # {} => DOMAIN Q # {})
<1>0. /\ Proved!IsTable(T) /\ Proved!IsSequence(P)
      /\ DOMAIN T \subseteq TxIds /\ {"salary", "other"} \subseteq Proved!Kinds
  BY DEF Proved!Consistent, Proved!IsTable, Proved!Kinds
<1>1. CASE U = T /\ Q = P
  BY <1>1
<1>2. ASSUME NEW i \in TxIds \ DOMAIN T, NEW date \in Instants, NEW kind \in {"salary", "other"},
             U = Requests!AfterInsert(T, P, i, date, kind).txs,
             Q = Requests!AfterInsert(T, P, i, date, kind).periods
      PROVE  Proved!Consistent(U, Q) /\ (DOMAIN U # {} => DOMAIN Q # {})
  <2>1. kind \in Proved!Kinds
    BY <1>0
  <2>2. Proved!Consistent(U, Q)
    BY <1>2, <2>1, SameAfter, Proved!InsertIsConsistent, RowsAssumptions
  <2> DEFINE N == Proved!Inserted(T, i, date, kind)
             L == Proved!Locate(N, P, date, kind = "salary")
  <2>3. Proved!IsTable(N) /\ N[i].date = date /\ N[i].kind = kind
    <3>1. i \in TxIds \ DOMAIN T
      OBVIOUS
    <3>2. Proved!IsTable(N)
      BY <1>0, <2>1, <3>1, Proved!InsertedRow, RowsAssumptions
    <3>3. N[i] = [date |-> date, kind |-> kind, period |-> Null]
      BY DEF Proved!Inserted
    <3>4. QED
      BY <3>2, <3>3
  <2>4. L.period \in Proved!CoveringKeys(L.periods, date)
    BY <1>0, <2>3, Proved!LocateFinds, RowsAssumptions, InstantsAssumption
  <2>5. Q = L.periods
    BY <1>2, <2>3, SameAfter
       DEF Proved!AfterInsert, Proved!Assign, Proved!IsSalary, Proved!Placed,
           Proved!Locate, Proved!LocatedIn
  <2>6. DOMAIN Q # {}
    BY <2>4, <2>5 DEF Proved!CoveringKeys
  <2>7. QED
    BY <2>2, <2>6
<1>3. ASSUME NEW i \in DOMAIN T, NEW date \in Instants, NEW kind \in {"salary", "other"},
             U = Requests!AfterEdit(T, P, i, date, kind).txs,
             Q = Requests!AfterEdit(T, P, i, date, kind).periods
      PROVE  Proved!Consistent(U, Q) /\ (DOMAIN U # {} => DOMAIN Q # {})
  <2>1. kind \in Proved!Kinds
    BY <1>0
  <2>2. Proved!Consistent(U, Q)
    BY <1>3, <2>1, SameAfter, Proved!EditIsConsistent, RowsAssumptions
  <2> DEFINE E == Proved!Edited(T, i, date, kind)
             from == Proved!Earlier(T[i].date, date)
             R == IF Proved!IsSalary(T[i]) THEN Proved!Rebuild(E, P, from, {})
                  ELSE [txs |-> E, periods |-> P, boundary |-> from]
             A == Proved!Assign(R.txs, R.periods, i, T[i].period)
             L == Proved!Locate(R.txs, R.periods, date, Proved!IsSalary(R.txs[i]))
  <2>3. Proved!IsTable(E) /\ E[i].date = date /\ i \in DOMAIN E
    BY <1>0, <2>1, Proved!EditedRow, RowsAssumptions
  <2>4. Proved!IsTable(R.txs) /\ R.txs[i].date = date /\ Proved!IsSequence(R.periods)
    <3> DEFINE B == Proved!Rebuild(E, P, from, {})
    <3>1. Proved!IsTable(B.txs) /\ B.txs[i].date = date
          /\ B.periods = Proved!DesiredPeriods(E, {})
      BY <2>3, Proved!RebuildKeepsRows, RowsAssumptions
    <3>2. Proved!IsSequence(B.periods)
      BY <2>3, <3>1, Proved!DesiredIsPartition, RowsAssumptions
    <3>3. QED
      BY <1>0, <2>3, <3>1, <3>2
  <2>5. Q = A.periods
    BY <1>3, SameAfter DEF Proved!AfterEdit
  <2> HIDE DEF R
  <2>6. L.period \in Proved!CoveringKeys(L.periods, date)
    <3>1. Proved!IsSalary(R.txs[i]) \in BOOLEAN
      BY DEF Proved!IsSalary
    <3>2. QED
      BY <2>4, <3>1, Proved!LocateFinds, RowsAssumptions, InstantsAssumption
  <2>7. A.periods = L.periods
    BY <2>4 DEF Proved!Assign, Proved!Placed, Proved!Locate, Proved!LocatedIn
  <2>8. DOMAIN Q # {}
    BY <2>5, <2>6, <2>7 DEF Proved!CoveringKeys
  <2>9. QED
    BY <2>2, <2>8
<1>4. ASSUME NEW i \in DOMAIN T,
             U = Requests!AfterDelete(T, P, i).txs, Q = Requests!AfterDelete(T, P, i).periods
      PROVE  Proved!Consistent(U, Q) /\ (DOMAIN U # {} => DOMAIN Q # {})
  <2>1. Proved!Consistent(U, Q)
    BY <1>4, SameAfter, Proved!DeleteIsConsistent, RowsAssumptions
  <2> DEFINE D == Proved!Deleted(T, i)
             B == Proved!Rebuild(D, P, T[i].date, {})
  <2>2. Proved!IsTable(D) /\ DOMAIN D = DOMAIN T \ {i}
    BY <1>0, Proved!DeletedRow, RowsAssumptions
  <2>3. CASE ~ Proved!IsSalary(T[i])
    <3>1. U = D /\ Q = P
      BY <1>4, <2>3, SameAfter DEF Proved!AfterDelete
    <3>2. QED
      BY <2>1, <2>2, <3>1
  <2>4. CASE Proved!IsSalary(T[i])
    <3>1. U = B.txs /\ Q = B.periods
      BY <1>4, <2>4, SameAfter DEF Proved!AfterDelete
    <3>2. Q = Proved!DesiredPeriods(D, {}) /\ DOMAIN U = DOMAIN D
      BY <2>2, <3>1, Proved!RebuildKeepsRows, RowsAssumptions
    <3>3. Proved!DerivedFor(DOMAIN D, Q)
      BY <2>2, <3>2 DEF Proved!DerivedFor
    <3>4. QED
      BY <2>1, <3>2, <3>3, Proved!DerivedPeriods, RowsAssumptions
  <2>5. QED
    BY <2>1, <2>3, <2>4
<1>5. ASSUME NEW now \in Instants,
             U = Locate(T, P, now, FALSE).txs, Q = Locate(T, P, now, FALSE).periods
      PROVE  Proved!Consistent(U, Q) /\ (DOMAIN U # {} => DOMAIN Q # {})
  <2> DEFINE L == Proved!Locate(T, P, now, FALSE)
  <2>1. now \in Nat
    BY InstantsAssumption
  <2>2. Proved!Consistent(L.txs, L.periods)
    BY <2>1, Proved!LocateIsConsistent, RowsAssumptions
  <2>3. L.period \in Proved!CoveringKeys(L.periods, now)
    BY <1>0, <2>1, Proved!LocateFinds, RowsAssumptions
  <2>4. U = L.txs /\ Q = L.periods
    BY <1>5, SameAsRequests
  <2>5. QED
    BY <2>2, <2>3, <2>4 DEF Proved!CoveringKeys
<1>6. CASE U = Rebuild(T, P, 0, {}).txs /\ Q = Rebuild(T, P, 0, {}).periods
  <2> DEFINE B == Proved!Rebuild(T, P, 0, {})
  <2>1. U = B.txs /\ Q = B.periods
    BY <1>6, SameAsRequests
  <2>2. ASSUME NEW i \in DOMAIN T PROVE 0 <= T[i].date
    <3>1. T[i] \in Proved!Transaction
      BY <1>0 DEF Proved!IsTable
    <3>2. T[i].date \in Nat
      BY <3>1, InstantsAssumption DEF Proved!Transaction
    <3>3. QED
      BY <3>2
  <2>3. Proved!Consistent(U, Q)
    BY <1>0, <2>1, <2>2, Proved!RebuildIsConsistent, RowsAssumptions
  <2>4. Q = Proved!DesiredPeriods(T, {}) /\ DOMAIN U = DOMAIN T
    BY <1>0, <2>1, Proved!RebuildKeepsRows, RowsAssumptions
  <2>5. Proved!DerivedFor(DOMAIN T, Q)
    BY <1>0, <2>4 DEF Proved!DerivedFor
  <2>6. QED
    BY <2>3, <2>4, <2>5, Proved!DerivedPeriods, RowsAssumptions
<1>7. QED
  BY <1>1, <1>2, <1>3, <1>4, <1>5, <1>6 DEF IsStep

-----------------------------------------------------------------------------
(* The tables behind the rows *)

\* Rows as TransactionPeriods has them.
LEMMA NamedTransactions ==
  ASSUME NEW V, AreTables(V), NEW T, T = TransactionsOf(V)
  PROVE  /\ Proved!IsTable(T)
         /\ DOMAIN T = DOMAIN Transactions(V)
         /\ T = [i \in DOMAIN T |-> T[i]]
         /\ \A i \in DOMAIN T : /\ i \in TxIds /\ V[Row(i)] # Absent
                                /\ V[Row(i)] \in TransactionRow
                                /\ T[i] = [V[Row(i)] EXCEPT !.period = KeyOf(V[Row(i)].period)]
                                /\ T[i].date = V[Row(i)].date /\ T[i].kind = V[Row(i)].kind
                                /\ T[i].period = KeyOf(V[Row(i)].period)
                                /\ T[i].kind \in {"salary", "other"}
                                /\ DOMAIN T[i] = {"date", "kind", "period"}
         /\ \A cover : DesiredPeriods(T, cover) = Asked(V, cover)
<1> DEFINE R == Transactions(V)
<1>1. /\ IsRowTable(R)
      /\ \A i \in DOMAIN R : /\ R[i] = V[Row(i)] /\ V[Row(i)] \in TransactionRow
                             /\ i \in TxIds /\ V[Row(i)] # Absent
  BY TableRows DEF IsRowTable
<1>2. T = [i \in DOMAIN R |-> [R[i] EXCEPT !.period = IF @ = Null THEN Null ELSE @[2]]]
  BY <1>1 DEF TransactionsOf
<1>3. /\ Proved!IsTable(T)
      /\ DOMAIN T = DOMAIN R
      /\ \A i \in DOMAIN R : T[i].date = R[i].date /\ T[i].kind = R[i].kind
  BY <1>1, <1>2, NamedRows
<1>4. T = [i \in DOMAIN R |-> [V[Row(i)] EXCEPT !.period = KeyOf(@)]]
  BY DEF TransactionsOf, KeyOf
<1>5. T = [i \in DOMAIN T |-> T[i]]
  BY <1>4
<1>6. \A i \in DOMAIN R : /\ T[i] = [V[Row(i)] EXCEPT !.period = KeyOf(V[Row(i)].period)]
                          /\ T[i].period = KeyOf(V[Row(i)].period)
                          /\ DOMAIN T[i] = {"date", "kind", "period"}
                          /\ V[Row(i)].kind \in {"salary", "other"}
  <2> HIDE DEF R
  <2>1. \A i \in DOMAIN R : T[i] = [V[Row(i)] EXCEPT !.period = KeyOf(@)]
    BY <1>4
  <2>2. QED
    BY <1>1, <2>1 DEF TransactionRow
<1>7. \A cover : DesiredPeriods(T, cover) = Asked(V, cover)
  BY <1>3, DesiredByDates DEF Asked
<1> HIDE DEF R
<1>8. DOMAIN T = DOMAIN Transactions(V)
  BY <1>3 DEF R
<1>9. \A i \in DOMAIN T : T[i].date = V[Row(i)].date /\ T[i].kind = V[Row(i)].kind
  BY <1>1, <1>3
<1>10. QED
  BY <1>1, <1>3, <1>5, <1>6, <1>7, <1>8, <1>9

LEMMA NamedPeriods ==
  ASSUME NEW V, AreTables(V), NEW P, P = PeriodsOf(V)
  PROVE  /\ DOMAIN P = {r[2] : r \in DOMAIN Periods(V)}
         /\ P = [k \in DOMAIN P |-> P[k]]
         /\ DOMAIN P \subseteq TxIds \union {Bootstrap}
<1>1. DOMAIN P = {r[2] : r \in DOMAIN Periods(V)} /\ P = [k \in DOMAIN P |-> P[k]]
  BY DEF PeriodsOf
<1>2. DOMAIN P \subseteq TxIds \union {Bootstrap}
  BY <1>1, TableRows, PeriodRowParts
<1>3. QED
  BY <1>1, <1>2

LEMMA OneRowTables ==
  ASSUME NEW V, AreTables(V), OneRowEach(V)
  PROVE  IsRowwise(Periods(V), PeriodsOf(V))
<1> DEFINE P == PeriodsOf(V)
           S == Periods(V)
<1>1. /\ DOMAIN P = {r[2] : r \in DOMAIN S}
      /\ DOMAIN S \subseteq PeriodRows
      /\ \A r \in DOMAIN S : S[r] = V[r]
  BY TableRows, NamedPeriods
<1>2. ASSUME NEW r \in DOMAIN S
      PROVE  P[r[2]] = V[r]
  <2> DEFINE s == CHOOSE s \in DOMAIN S : s[2] = r[2]
  <2>1. s \in DOMAIN S /\ s[2] = r[2]
    OBVIOUS
  <2>2. P[r[2]] = V[s]
    BY <1>1 DEF PeriodsOf
  <2> HIDE DEF s, S
  <2>3. s = r
    BY <2>1 DEF OneRowEach, S
  <2>4. QED
    BY <2>2, <2>3
<1> HIDE DEF P
<1>3. \A r, s \in DOMAIN S : r[2] = s[2] => r = s
  BY DEF OneRowEach
<1> HIDE DEF S
<1>4. QED
  BY <1>1, <1>2, <1>3 DEF IsRowwise, P, S

\* A step of the tables is one of TransactionPeriods.
LEMMA StepsAreRequests ==
  ASSUME AreTables(db), IsStep(TransactionsOf(db), PeriodsOf(db), TransactionsOf(db)', PeriodsOf(db)')
  PROVE  [Requests!Next]_(Requests!vars)
<1> DEFINE T == TransactionsOf(db)
           P == PeriodsOf(db)
           U == TransactionsOf(db)'
           Q == PeriodsOf(db)'
<1>1. \A i \in DOMAIN T : i \in TxIds /\ T[i].kind \in {"salary", "other"}
  BY NamedTransactions
<1>2. {"salary", "other"} \subseteq Requests!ApiKinds /\ {"salary", "other"} \subseteq Requests!Kinds
  BY DEF Requests!ApiKinds, Requests!Kinds
<1> HIDE DEF T, P, U, Q
<1>3. CASE U = T /\ Q = P
  BY <1>3 DEF Requests!vars, T, P, U, Q
<1>4. ASSUME NEW i \in TxIds \ DOMAIN T, NEW date \in Instants, NEW kind \in {"salary", "other"},
             U = Requests!AfterInsert(T, P, i, date, kind).txs,
             Q = Requests!AfterInsert(T, P, i, date, kind).periods
      PROVE  Requests!Next
  <2>1. Requests!CreateTransaction(i, date, kind)
    BY <1>2, <1>4 DEF Requests!CreateTransaction, Requests!Becomes, T, P, U, Q
  <2>2. QED
    BY <1>2, <2>1 DEF Requests!Next
<1>5. ASSUME NEW i \in DOMAIN T, NEW date \in Instants, NEW kind \in {"salary", "other"},
             U = Requests!AfterEdit(T, P, i, date, kind).txs,
             Q = Requests!AfterEdit(T, P, i, date, kind).periods
      PROVE  Requests!Next
  <2>1. Requests!UpdateTransaction(i, date, kind)
    BY <1>1, <1>2, <1>5 DEF Requests!UpdateTransaction, Requests!Becomes, T, P, U, Q
  <2>2. QED
    BY <1>1, <1>2, <2>1 DEF Requests!Next
<1>6. ASSUME NEW i \in DOMAIN T,
             U = Requests!AfterDelete(T, P, i).txs, Q = Requests!AfterDelete(T, P, i).periods
      PROVE  Requests!Next
  <2>1. Requests!RemoveTransaction(i)
    BY <1>1, <1>6 DEF Requests!RemoveTransaction, Requests!Becomes, T, P, U, Q
  <2>2. QED
    BY <1>1, <2>1 DEF Requests!Next
<1>7. ASSUME NEW now \in Instants, \A k \in DOMAIN P : P[k].end # Null,
             U = Locate(T, P, now, FALSE).txs, Q = Locate(T, P, now, FALSE).periods
      PROVE  Requests!Next
  <2>1. Requests!GetCurrentPeriod(now)
    BY <1>7, SameAsRequests DEF Requests!GetCurrentPeriod, Requests!Becomes, T, P, U, Q
  <2>2. QED
    BY <2>1 DEF Requests!Next
<1>8. CASE U = Rebuild(T, P, 0, {}).txs /\ Q = Rebuild(T, P, 0, {}).periods
  <2>1. Requests!MigratePeriods
    BY <1>8, SameAsRequests DEF Requests!MigratePeriods, Requests!Becomes, T, P, U, Q
  <2>2. QED
    BY <2>1 DEF Requests!Next
<1>9. IsStep(T, P, U, Q)
  BY DEF T, P, U, Q
<1>10. QED
  BY <1>3, <1>4, <1>5, <1>6, <1>7, <1>8, <1>9 DEF IsStep

-----------------------------------------------------------------------------
(* What is left of a request, as what TransactionPeriods makes of the tables *)

LEMMA ReachingAssigns ==
  ASSUME NEW q, NEW T, NEW P, q.id # 0, T[q.id].date = q.date, T[q.id].kind = q.row.kind,
         NEW A, A = Assign(T, P, q.id, KeyOf(q.row.period))
  PROVE  Reaching(q, T, P) = Both(A.txs, A.periods)
<1> DEFINE read == KeyOf(q.row.period)
           R == Rebuild(T, P, q.date, {q.date})
           i == q.id
           L == Locate(T, P, q.date, IsSalary(q.row))
           k == PeriodForDate(P, q.date)
           j == PeriodForDate(R.periods, q.date)
<1> HIDE DEF read, R, k, j
<1>1. A = Placed(L, i, read)
  BY DEF Assign, IsSalary, read
<1>2. CASE ~ IsSalary(q.row) /\ CoveringKeys(P, q.date) # {}
  <2>1. L = [txs |-> T, periods |-> P, period |-> k, affectedFrom |-> q.date]
    BY <1>2 DEF Locate, k
  <2>2. Reaching(q, T, P) = Both(IF read = k THEN T ELSE [T EXCEPT ![i].period = k], P)
    BY <1>2 DEF Reaching, Finding, Placing, k, read
  <2>3. CASE read = k
    BY <1>1, <2>1, <2>2, <2>3 DEF Placed
  <2>4. CASE read # k
    BY <1>1, <2>1, <2>2, <2>4 DEF Placed
  <2>5. QED
    BY <2>3, <2>4
<1>3. CASE ~ (~ IsSalary(q.row) /\ CoveringKeys(P, q.date) # {})
  <2>1. L = [txs |-> R.txs, periods |-> R.periods, period |-> j,
             affectedFrom |-> Min({R.boundary, q.date})]
    BY <1>3 DEF Locate, LocatedIn, j, R
  <2>2. Reaching(q, T, P)
          = Both(IF read = j THEN R.txs ELSE [R.txs EXCEPT ![i].period = j], R.periods)
    BY <1>3 DEF Reaching, Finding, Placing, j, R, read
  <2>3. CASE read = j
    BY <1>1, <2>1, <2>2, <2>3 DEF Placed
  <2>4. CASE read # j
    BY <1>1, <2>1, <2>2, <2>4 DEF Placed
  <2>5. QED
    BY <2>3, <2>4
<1>4. QED
  BY <1>2, <1>3

LEMMA ReachingLocates ==
  ASSUME NEW q, NEW T, NEW P, q.id = 0
  PROVE  Reaching(q, T, P) = Both(Locate(T, P, q.date, FALSE).txs,
                                  Locate(T, P, q.date, FALSE).periods)
BY DEF Reaching, Finding, Placing, Locate, LocatedIn

-----------------------------------------------------------------------------
(* Transactions filed again *)

\* What rebuild() does to the transactions is to file them again.
LEMMA ReassignedRefiles ==
  ASSUME NEW T, NEW P, NEW Q, NEW boundary,
         \A i \in DOMAIN T : T[i].period = Null \/ T[i].period \in DOMAIN P
  PROVE  Reassigned(T, P, Q, boundary) = Refiled(T, Q, Visited(Q, boundary))
<1> DEFINE hits(i) == Reassigning(Q, boundary, T[i].date)
           to(i) == IF hits(i) # {} THEN AnyOf(hits(i))
                    ELSE IF T[i].period \in DOMAIN P \ DOMAIN Q THEN Null ELSE T[i].period
           G == Visited(Q, boundary)
           by(i) == RefiledAs(T, Q, G, i)
<1>1. Reassigned(T, P, Q, boundary) = [i \in DOMAIN T |-> [T[i] EXCEPT !.period = to(i)]]
  BY DEF Reassigned, AnyOf
<1>2. Refiled(T, Q, G) = [i \in DOMAIN T |-> [T[i] EXCEPT !.period = by(i)]]
  BY DEF Refiled
<1>3. ASSUME NEW i \in DOMAIN T PROVE to(i) = by(i)
  <2>1. hits(i) = CoveringKeys(G, T[i].date)
    BY DEF Reassigning, Visited, Restrict, EndingAfter, CoveringKeys
  <2>2. CASE hits(i) # {}
    BY <2>1, <2>2 DEF RefiledAs
  <2>3. CASE hits(i) = {}
    <3>1. by(i) = IF T[i].period \in DOMAIN Q THEN T[i].period ELSE Null
      BY <2>1, <2>3 DEF RefiledAs
    <3>2. to(i) = IF T[i].period \in DOMAIN P \ DOMAIN Q THEN Null ELSE T[i].period
      BY <2>3
    <3>3. QED
      BY <3>1, <3>2
  <2>4. QED
    BY <2>2, <2>3
<1> HIDE DEF to, by, G
<1>4. [i \in DOMAIN T |-> [T[i] EXCEPT !.period = to(i)]]
        = [i \in DOMAIN T |-> [T[i] EXCEPT !.period = by(i)]]
  BY <1>3
<1>5. QED
  BY <1>1, <1>2, <1>4 DEF G

\* The periods of two tables, in which the other columns agree.
LEMMA RefiledAlike ==
  ASSUME NEW T, NEW U, Proved!IsTable(T), DOMAIN U = DOMAIN T,
         NEW P, NEW G, NEW H,
         \A i \in DOMAIN T : /\ U[i] = FiledWith(T[i], U[i].period)
                             /\ RefiledAs(U, P, H, i) = RefiledAs(T, P, G, i)
  PROVE  Refiled(U, P, H) = Refiled(T, P, G)
<1>1. \A i \in DOMAIN T : T[i] \in Proved!Transaction
  BY DEF Proved!IsTable
<1>2. ASSUME NEW i \in DOMAIN T, NEW k
      PROVE  FiledWith(U[i], k) = FiledWith(T[i], k)
  BY <1>1 DEF FiledWith, Proved!Transaction
<1> DEFINE by(i) == RefiledAs(U, P, H, i)
<1>3. Refiled(U, P, H) = [i \in DOMAIN T |-> FiledWith(U[i], by(i))]
  BY DEF Refiled, FiledWith
<1>4. Refiled(T, P, G) = [i \in DOMAIN T |-> FiledWith(T[i], by(i))]
  BY DEF Refiled, FiledWith
<1> HIDE DEF by
<1>5. QED
  BY <1>2, <1>3, <1>4

\* Deleting the period of a transaction leaves it as a rebuild that deletes it does.
LEMMA RefiledAfterDeletion ==
  ASSUME NEW T, NEW U, Proved!IsTable(T), DOMAIN U = DOMAIN T,
         NEW Q, Null \notin DOMAIN Q, NEW G,
         \A i \in DOMAIN T :
            \/ U[i] = T[i]
            \/ T[i].period \notin DOMAIN Q /\ U[i] = FiledWith(T[i], Null)
  PROVE  Refiled(U, Q, G) = Refiled(T, Q, G)
<1>1. ASSUME NEW i \in DOMAIN T
      PROVE  /\ U[i] = FiledWith(T[i], U[i].period)
             /\ U[i].date = T[i].date
             /\ U[i].period = T[i].period \/ (U[i].period = Null /\ T[i].period \notin DOMAIN Q)
  BY DEF FiledWith, Proved!IsTable, Proved!Transaction
<1>2. \A i \in DOMAIN T : RefiledAs(U, Q, G, i) = RefiledAs(T, Q, G, i)
  BY <1>1 DEF RefiledAs
<1>3. QED
  BY <1>1, <1>2, RefiledAlike

\* Filing the transactions of one period again, and then those of the others.
LEMMA RefiledOneByOne ==
  ASSUME NEW T, NEW U, Proved!IsTable(T), DOMAIN U = DOMAIN T,
         NEW P, NEW G, NEW k \in DOMAIN G, k \in DOMAIN P,
         \A i \in DOMAIN T : \A j \in CoveringKeys(G, T[i].date) :
            k \in CoveringKeys(G, T[i].date) => j = k,
         \A i \in DOMAIN T :
            U[i] = IF Covers(G[k], T[i].date) THEN FiledWith(T[i], k) ELSE T[i]
  PROVE  Refiled(U, P, Restrict(G, DOMAIN G \ {k})) = Refiled(T, P, G)
<1> DEFINE H == Restrict(G, DOMAIN G \ {k})
<1>1. ASSUME NEW i \in DOMAIN T
      PROVE  U[i] = FiledWith(T[i], U[i].period) /\ U[i].date = T[i].date
  BY DEF FiledWith, Proved!IsTable, Proved!Transaction
<1>2. ASSUME NEW i \in DOMAIN T
      PROVE  RefiledAs(U, P, H, i) = RefiledAs(T, P, G, i)
  <2>1. CoveringKeys(H, T[i].date) = CoveringKeys(G, T[i].date) \ {k}
    BY DEF CoveringKeys, Restrict
  <2>2. U[i].date = T[i].date
    BY <1>1
  <2>3. CASE Covers(G[k], T[i].date)
    <3>1. CoveringKeys(G, T[i].date) = {k}
      BY <2>3 DEF CoveringKeys
    <3>2. U[i].period = k
      BY <2>3 DEF FiledWith, Proved!IsTable, Proved!Transaction
    <3>3. RefiledAs(T, P, G, i) = k
      BY <3>1 DEF RefiledAs, AnyOf
    <3>4. CoveringKeys(H, U[i].date) = {}
      BY <2>1, <2>2, <3>1
    <3> HIDE DEF H
    <3>5. RefiledAs(U, P, H, i) = k
      BY <3>2, <3>4 DEF RefiledAs
    <3>6. QED
      BY <3>3, <3>5
  <2>4. CASE ~ Covers(G[k], T[i].date)
    <3>1. CoveringKeys(H, T[i].date) = CoveringKeys(G, T[i].date) /\ U[i] = T[i]
      BY <2>1, <2>4 DEF CoveringKeys
    <3> HIDE DEF H
    <3>2. QED
      BY <3>1 DEF RefiledAs
  <2>5. QED
    BY <2>3, <2>4
<1> HIDE DEF H
<1>3. \A i \in DOMAIN T : /\ U[i] = FiledWith(T[i], U[i].period)
                          /\ RefiledAs(U, P, H, i) = RefiledAs(T, P, G, i)
  BY <1>1, <1>2
<1>4. \A K : (\A i \in DOMAIN T : /\ U[i] = FiledWith(T[i], U[i].period)
                                  /\ RefiledAs(U, P, K, i) = RefiledAs(T, P, G, i))
               => Refiled(U, P, K) = Refiled(T, P, G)
  BY RefiledAlike
<1>5. Refiled(U, P, H) = Refiled(T, P, G)
  BY <1>3, <1>4
<1>6. QED
  BY <1>5 DEF H

LEMMA NothingRefiled ==
  ASSUME NEW T, Proved!IsTable(T), T = [i \in DOMAIN T |-> T[i]], NEW P, NEW G, DOMAIN G = {},
         \A i \in DOMAIN T : T[i].period = Null \/ T[i].period \in DOMAIN P
  PROVE  Refiled(T, P, G) = T
<1>1. ASSUME NEW i \in DOMAIN T PROVE RefiledAs(T, P, G, i) = T[i].period
  <2>1. CoveringKeys(G, T[i].date) = {}
    BY DEF CoveringKeys
  <2>2. QED
    BY <2>1 DEF RefiledAs
<1>2. \A i \in DOMAIN T : [T[i] EXCEPT !.period = T[i].period] = T[i]
  BY DEF FiledWith, Proved!IsTable, Proved!Transaction
<1>3. Refiled(T, P, G) = [i \in DOMAIN T |-> T[i]]
  BY <1>1, <1>2 DEF Refiled
<1>4. QED
  BY <1>3

-----------------------------------------------------------------------------
(* Rows and keys *)

\* A rebuild starts where the rows change, which is where their keys do.
LEMMA BoundaryOfRows ==
  ASSUME NEW S, NEW P, IsRowwise(S, P), NEW R, NEW Q, IsRowwise(R, Q),
         \A r \in DOMAIN S, s \in DOMAIN R : r[2] = s[2] => r = s, NEW from
  PROVE  /\ Boundary(S, R, from) = Boundary(P, Q, from)
         /\ \A r \in Superfluous(S, R) : r[2] \notin DOMAIN Q
<1>1. /\ \A r \in DOMAIN S : r[2] \in DOMAIN P /\ S[r] = P[r[2]]
      /\ \A k \in DOMAIN P : \E r \in DOMAIN S : r[2] = k
      /\ \A r \in DOMAIN R : r[2] \in DOMAIN Q /\ R[r] = Q[r[2]]
      /\ \A k \in DOMAIN Q : \E r \in DOMAIN R : r[2] = k
  BY DEF IsRowwise
<1>2. \A r \in DOMAIN S : r \in DOMAIN R <=> r[2] \in DOMAIN Q
  BY <1>1
<1>3. \A r \in DOMAIN R : r \in DOMAIN S <=> r[2] \in DOMAIN P
  BY <1>1
<1>4. \A r \in DOMAIN S : r \in TouchedKeys(S, R) <=> r[2] \in TouchedKeys(P, Q)
  BY <1>1, <1>2 DEF TouchedKeys
<1>5. \A r \in DOMAIN R : r \in TouchedKeys(S, R) <=> r[2] \in TouchedKeys(P, Q)
  BY <1>1, <1>3 DEF TouchedKeys
<1>6. {S[r].start : r \in TouchedKeys(S, R) \intersect DOMAIN S}
        = {P[k].start : k \in TouchedKeys(P, Q) \intersect DOMAIN P}
  <2>1. \A r \in TouchedKeys(S, R) \intersect DOMAIN S :
           r[2] \in TouchedKeys(P, Q) \intersect DOMAIN P /\ S[r].start = P[r[2]].start
    BY <1>1, <1>4
  <2>2. \A k \in TouchedKeys(P, Q) \intersect DOMAIN P :
           \E r \in TouchedKeys(S, R) \intersect DOMAIN S : S[r].start = P[k].start
    BY <1>1, <1>4
  <2>3. QED
    BY <2>1, <2>2
<1>7. {R[r].start : r \in TouchedKeys(S, R) \intersect DOMAIN R}
        = {Q[k].start : k \in TouchedKeys(P, Q) \intersect DOMAIN Q}
  <2>1. \A r \in TouchedKeys(S, R) \intersect DOMAIN R :
           r[2] \in TouchedKeys(P, Q) \intersect DOMAIN Q /\ R[r].start = Q[r[2]].start
    BY <1>1, <1>5
  <2>2. \A k \in TouchedKeys(P, Q) \intersect DOMAIN Q :
           \E r \in TouchedKeys(S, R) \intersect DOMAIN R : R[r].start = Q[k].start
    BY <1>1, <1>5
  <2>3. QED
    BY <2>1, <2>2
<1>8. Boundary(S, R, from) = Boundary(P, Q, from)
  BY <1>6, <1>7 DEF Boundary
<1>9. QED
  BY <1>2, <1>8 DEF Superfluous

\* Where every key has one row, a period that stays keeps its row.
LEMMA RowsStay ==
  ASSUME NEW c \in Clients, NEW P, DOMAIN P \subseteq PeriodRows,
         \A r, s \in DOMAIN P : r[2] = s[2] => r = s,
         NEW D, DOMAIN D \subseteq TxIds \union {Bootstrap},
         NEW Q, DOMAIN Q = {RowFor(c, P, k) : k \in DOMAIN D}
  PROVE  \A r \in DOMAIN P, s \in DOMAIN Q : r[2] = s[2] => r = s
<1> SUFFICES ASSUME NEW r \in DOMAIN P, NEW k \in DOMAIN D, r[2] = RowFor(c, P, k)[2]
             PROVE  r = RowFor(c, P, k)
  OBVIOUS
<1>1. r[2] = k
  BY RowForKey
<1>2. r \in Paired(P)
  BY DEF Paired
<1> DEFINE t == CHOOSE t \in Paired(P) : t[2] = k
<1>3. RowFor(c, P, k) = t
  BY <1>1, <1>2 DEF RowFor
<1>4. t \in Paired(P) /\ t[2] = k
  BY <1>1, <1>2
<1> HIDE DEF t
<1>5. QED
  BY <1>1, <1>3, <1>4 DEF Paired

\* The period of a date is found under its key.
LEMMA FoundUnderKey ==
  ASSUME NEW V, AreTables(V), OneRowEach(V),
         Proved!IsSequence(PeriodsOf(V)), Proved!Partition(PeriodsOf(V)), NEW date \in Nat
  PROVE  /\ CoveringKeys(Periods(V), date) = {} <=> CoveringKeys(PeriodsOf(V), date) = {}
         /\ CoveringKeys(Periods(V), date) # {} =>
               /\ PeriodForDate(Periods(V), date) \in CoveringKeys(Periods(V), date)
               /\ PeriodForDate(Periods(V), date)[2] = PeriodForDate(PeriodsOf(V), date)
               /\ PeriodForDate(PeriodsOf(V), date) \in CoveringKeys(PeriodsOf(V), date)
<1> DEFINE S == Periods(V)
           P == PeriodsOf(V)
<1>1. IsRowwise(S, P)
  BY OneRowTables
<1>2. \A r \in DOMAIN S : S[r].start \in Int
  BY TableRows DEF PeriodRow
<1> HIDE DEF S, P
<1>3. CoveringKeys(S, date) = {} <=> CoveringKeys(P, date) = {}
  BY <1>1, RowwiseCovers
<1>4. ASSUME CoveringKeys(S, date) # {}
      PROVE  /\ PeriodForDate(S, date) \in CoveringKeys(S, date)
             /\ PeriodForDate(S, date)[2] = PeriodForDate(P, date)
             /\ PeriodForDate(P, date) \in CoveringKeys(P, date)
  <2>1. PeriodForDate(S, date) \in CoveringKeys(S, date)
    BY <1>2, <1>4, LatestCovers
  <2>2. PeriodForDate(S, date)[2] \in CoveringKeys(P, date)
    BY <1>1, <2>1, RowwiseCovers
  <2>3. Proved!IsSequence(P) /\ Proved!Partition(P)
    BY DEF P
  <2>4. PeriodForDate(P, date) \in CoveringKeys(P, date)
    BY <1>3, <1>4, <2>3, SameCovering, SamePeriodForDate, Proved!PeriodForDateCovers,
       RowsAssumptions
  <2>5. QED
    BY <2>1, <2>2, <2>3, <2>4, SameCovering, Proved!CoveredOnce, RowsAssumptions
<1>5. QED
  BY <1>3, <1>4 DEF S, P

\* The transaction of a request that locates its period.
LEMMA MineIsThere ==
  ASSUME NEW q, IsRequest(q), HasWritten(q, q.mine), NEW D, NEW V, V = Over(q.mine, D),
         AreTables(V), Mine(q)
  PROVE  /\ q.id \in TxIds /\ q.id \in DOMAIN TransactionsOf(V)
         /\ TransactionsOf(V)[q.id].date = q.date
         /\ V[Row(q.id)] \in TransactionRow /\ V[Row(q.id)].date = q.date
<1>1. q.id \in TxIds /\ q.id # 0 /\ q.at # "write" /\ Locating(q)
  BY DEF Mine, IsRequest, HasRow
<1>2. Row(q.id) \in DOMAIN q.mine /\ q.mine[Row(q.id)] # Absent
      /\ q.mine[Row(q.id)].date = q.date
  BY <1>1 DEF HasWritten
<1>3. V[Row(q.id)] = q.mine[Row(q.id)]
  BY <1>2 DEF Over
<1>4. q.id \in DOMAIN Transactions(V) /\ V[Row(q.id)] \in TransactionRow
  BY <1>1, <1>2, <1>3, TableRows
<1>5. /\ q.id \in DOMAIN TransactionsOf(V)
      /\ TransactionsOf(V)[q.id].date = V[Row(q.id)].date
  <2> DEFINE T == TransactionsOf(V)
  <2>1. T = TransactionsOf(V)
    OBVIOUS
  <2> HIDE DEF T
  <2>2. q.id \in DOMAIN T /\ T[q.id].date = V[Row(q.id)].date
    BY <1>4, <2>1, NamedTransactions
  <2>3. QED
    BY <2>2 DEF T
<1>6. V[Row(q.id)].date = q.date
  BY <1>2, <1>3
<1>7. QED
  BY <1>1, <1>4, <1>5, <1>6

\* What is left of a request is said by a few of its fields.
LEMMA SameRest ==
  ASSUME NEW q, NEW p, p.id = q.id, p.row = q.row, p.date = q.date
  PROVE  /\ \A T, P, k : Placing(p, T, P, k) = Placing(q, T, P, k)
         /\ \A T, P : Finding(p, T, P) = Finding(q, T, P)
         /\ \A T, P : Reaching(p, T, P) = Reaching(q, T, P)
         /\ p.then = q.then => \A T, P : Rest(p, T, P) = Rest(q, T, P)
<1>1. \A T, P, k : Placing(p, T, P, k) = Placing(q, T, P, k)
  BY DEF Placing
<1>2. \A T, P : Finding(p, T, P) = Finding(q, T, P)
  BY <1>1 DEF Finding
<1>3. \A T, P : Reaching(p, T, P) = Reaching(q, T, P)
  BY <1>2 DEF Reaching
<1>4. QED
  BY <1>1, <1>2, <1>3 DEF Rest

LEMMA SameLeft ==
  ASSUME NEW q, NEW p, p.id = q.id, p.row = q.row, p.date = q.date, p.from = q.from,
         p.cover = q.cover, p.then = q.then, Mine(p) <=> Mine(q)
  PROVE  /\ \A T, P : Rest(p, T, P) = Rest(q, T, P)
         /\ \A D, T, P : Rebuilding(p, D, T, P) <=> Rebuilding(q, D, T, P)
         /\ \A D, T, P : LeftToWrite(p, D, T, P) <=> LeftToWrite(q, D, T, P)
         /\ p.got = q.got => \A D, T, P : LeftToFile(p, D, T, P) <=> LeftToFile(q, D, T, P)
<1>1. \A T, P : Rest(p, T, P) = Rest(q, T, P)
  BY SameRest
<1>2. \A D, T, P : Rebuilding(p, D, T, P) <=> Rebuilding(q, D, T, P)
  BY <1>1 DEF Rebuilding
<1>3. \A D, T, P : LeftToWrite(p, D, T, P) <=> LeftToWrite(q, D, T, P)
  BY <1>1 DEF LeftToWrite
<1>4. p.got = q.got => \A D, T, P : LeftToFile(p, D, T, P) <=> LeftToFile(q, D, T, P)
  BY <1>1 DEF LeftToFile
<1>5. QED
  BY <1>1, <1>2, <1>3, <1>4

-----------------------------------------------------------------------------
(* A step of a request on its own *)

\* A request on its own, the committed rows D and the rows V as it sees them.
Underway(q, D, V) ==
    /\ IsRequest(q) /\ HasWritten(q, q.mine)
    /\ V = Over(q.mine, D) /\ AreTables(V) /\ AreTables(D) /\ Kept(D)
    /\ RightSoFar(q, V) /\ Lone(q, D, V)

\* The committed rows D stay, or E are what a step of TransactionPeriods makes.
Becoming(D, E) ==
    \/ E = D
    \/ /\ RefersToRows(E) /\ OneRowEach(E)
       /\ IsStep(TransactionsOf(D), PeriodsOf(D), TransactionsOf(E), PeriodsOf(E))

LEMMA BecomingKept ==
  ASSUME NEW D, Kept(D), NEW E, Becoming(D, E)
  PROVE  Kept(E)
<1>1. CASE E = D
  BY <1>1
<1>2. ASSUME RefersToRows(E), OneRowEach(E),
             IsStep(TransactionsOf(D), PeriodsOf(D), TransactionsOf(E), PeriodsOf(E))
      PROVE  Kept(E)
  <2>1. /\ Proved!Consistent(TransactionsOf(D), PeriodsOf(D))
        /\ DOMAIN TransactionsOf(D) # {} => DOMAIN PeriodsOf(D) # {}
    BY DEF Kept
  <2>2. /\ Proved!Consistent(TransactionsOf(E), PeriodsOf(E))
        /\ DOMAIN TransactionsOf(E) # {} => DOMAIN PeriodsOf(E) # {}
    BY <1>2, <2>1, StepsKeep
  <2>3. QED
    BY <1>2, <2>2 DEF Kept
<1>3. QED
  BY <1>1, <1>2 DEF Becoming

LEMMA OfLone ==
  ASSUME RebuildInv, LoneInv, OneByOne, NEW c \in Clients, tx[c] # Idle
  PROVE  /\ Underway(tx[c], db, Seen(c)) /\ tx[c].alone /\ sends[c] # {}
         /\ DOMAIN tx[c] = Fields
<1>1. sends[c] # {} /\ tx[c].alone /\ Lone(tx[c], db, Seen(c)) /\ Kept(db)
  BY DEF LoneInv
<1>2. AreTables(db)
  BY DEF RebuildInv
<1>3. QED
  BY <1>1, <1>2, OfRequest DEF Underway, Seen

\* The only request goes on as q, or is over.
LEMMA LoneGoesOn ==
  ASSUME LoneInv, OneByOne, NEW c \in Clients, sends[c] # {}, NEW q,
         tx'[c] = q, \A d \in Clients \ {c} : tx'[d] = tx[d],
         sends' = sends, Becoming(db, db'),
         q # Idle => q.alone /\ Lone(q, db', Over(q.mine, db'))
  PROVE  LoneInv' /\ Becoming(db, db')
<1>1. Kept(db')
  BY BecomingKept DEF LoneInv
<1>2. ASSUME NEW d \in Clients, tx'[d] # Idle
      PROVE  sends'[d] # {} /\ tx'[d].alone /\ Lone(tx'[d], db', Over(tx'[d].mine, db'))
  <2>1. d = c
    <3>1. SUFFICES ASSUME d # c PROVE FALSE
      OBVIOUS
    <3>2. tx[d] # Idle
      BY <1>2, <3>1
    <3>3. sends[d] # {}
      BY <3>2 DEF LoneInv
    <3>4. QED
      BY <3>1, <3>3 DEF OneByOne
  <2>2. tx'[d] = q
    BY <2>1
  <2>3. QED
    BY <1>2, <2>1, <2>2
<1>3. LoneInv'
  BY <1>1, <1>2 DEF LoneInv, Seen
<1>4. QED
  BY <1>3

\* Nothing is committed.
LEMMA LoneReads ==
  ASSUME RebuildInv, LoneInv, OneByOne, NEW c \in Clients, tx[c] # Idle, NEW q, Read(c, q),
         q.mine = tx[c].mine, q.alone = tx[c].alone, Lone(q, db, Seen(c))
  PROVE  LoneInv' /\ Becoming(db, db')
<1>1. tx' = [tx EXCEPT ![c] = q] /\ db' = db /\ sends' = sends
  BY DEF Read
<1>2. Becoming(db, db')
  BY <1>1 DEF Becoming
<1>3. DOMAIN tx = Clients
  BY DEF RebuildInv
<1>4. Lone(q, db', Over(q.mine, db'))
  BY <1>1 DEF Seen
<1>5. tx'[c] = q /\ \A d \in Clients \ {c} : tx'[d] = tx[d]
  BY <1>1, <1>3
<1>6. q.alone /\ sends[c] # {}
  BY OfLone
<1>7. QED
  BY <1>1, <1>2, <1>4, <1>5, <1>6, LoneGoesOn

\* What is said of a request past its first step is not of the rows it wrote.
LEMMA LoneMineAside ==
  ASSUME NEW q, NEW p, q.at \notin {"write", "current"},
         p.at = q.at, p.then = q.then, p.id = q.id, p.row = q.row, p.date = q.date,
         p.from = q.from, p.cover = q.cover, p.got = q.got, p.atomic = q.atomic,
         p.rebuilt = q.rebuilt, NEW D, NEW V
  PROVE  Lone(q, D, V) => Lone(p, D, V)
<1>1. Mine(p) <=> Mine(q)
  BY DEF Mine, Locating
<1>2. Sound(q, V) => Sound(p, V)
  BY <1>1 DEF Sound
<1>3. OneWrite(q, V) => OneWrite(p, V)
  BY DEF OneWrite
<1>4. /\ \A T, P, k : Placing(p, T, P, k) = Placing(q, T, P, k)
      /\ \A T, P : Finding(p, T, P) = Finding(q, T, P)
      /\ \A T, P : Reaching(p, T, P) = Reaching(q, T, P)
  BY SameRest
<1>5. /\ \A T, P : Rebuilding(p, D, T, P) <=> Rebuilding(q, D, T, P)
      /\ \A T, P : LeftToWrite(p, D, T, P) <=> LeftToWrite(q, D, T, P)
      /\ \A T, P : LeftToFile(p, D, T, P) <=> LeftToFile(q, D, T, P)
  BY <1>1, SameLeft
<1>6. LeadsToStep(q, D, V) => LeadsToStep(p, D, V)
  BY <1>4, <1>5 DEF LeadsToStep
<1>7. QED
  BY <1>2, <1>3, <1>6 DEF Lone

\* Rows are written within the transaction, or for good.
LEMMA LoneWrites ==
  ASSUME RebuildInv, LoneInv, OneByOne, NEW c \in Clients, tx[c] # Idle,
         NEW rows, AreRows(rows), NEW q, Write(c, rows, q), DOMAIN q = Fields,
         q.mine = tx[c].mine, q.alone = tx[c].alone, q.atomic = tx[c].atomic,
         q.at \notin {"write", "current"},
         q.atomic => Lone(q, db, Over(rows, Seen(c))),
         ~ q.atomic => Becoming(db, Over(rows, db)) /\ Lone(q, Over(rows, db), Over(rows, db))
  PROVE  LoneInv' /\ Becoming(db, db')
<1>1. /\ DOMAIN tx = Clients /\ sends[c] # {} /\ q.alone /\ sends' = sends
      /\ Underway(tx[c], db, Seen(c))
  BY OfLone DEF RebuildInv, Write
<1>2. CASE q.atomic
  <2> DEFINE p == [q EXCEPT !.mine = Over(rows, q.mine)]
  <2>1. tx' = [tx EXCEPT ![c] = p] /\ db' = db
    BY <1>2 DEF Write
  <2>2. /\ p.mine = Over(rows, q.mine) /\ p.alone = q.alone
        /\ p.at = q.at /\ p.then = q.then /\ p.id = q.id /\ p.row = q.row
        /\ p.date = q.date /\ p.from = q.from /\ p.cover = q.cover /\ p.got = q.got
        /\ p.atomic = q.atomic /\ p.rebuilt = q.rebuilt
    BY DEF Fields
  <2> HIDE DEF p
  <2>3. Lone(p, db, Over(rows, Seen(c)))
    BY <1>2, <2>2, LoneMineAside
  <2>4. Over(rows, Seen(c)) = Over(p.mine, db')
    BY <2>1, <2>2, OverTwice DEF Seen
  <2>5. Becoming(db, db')
    BY <2>1 DEF Becoming
  <2>6. p.alone
    BY <1>1, <2>2
  <2>7. Lone(p, db', Over(p.mine, db'))
    BY <2>1, <2>3, <2>4
  <2>8. tx'[c] = p /\ \A d \in Clients \ {c} : tx'[d] = tx[d]
    BY <1>1, <2>1
  <2>9. QED
    BY <1>1, <2>5, <2>6, <2>7, <2>8, LoneGoesOn
<1>3. CASE ~ q.atomic
  <2>1. tx' = [tx EXCEPT ![c] = q] /\ db' = Over(rows, db)
    BY <1>3 DEF Write
  <2>2. DOMAIN q.mine = {}
    BY <1>1, <1>3 DEF Underway, HasWritten
  <2>3. AreTables(db')
    <3>1. AreRows(db) /\ AreTables(db)
      BY DEF RebuildInv, AreTables
    <3>2. QED
      BY <2>1, <3>1, OverRows
  <2>4. Over(q.mine, db') = db'
    BY <2>2, <2>3, OverNothing DEF AreTables
  <2>5. Becoming(db, db') /\ Lone(q, db', Over(q.mine, db'))
    BY <1>3, <2>1, <2>4
  <2>6. tx'[c] = q /\ \A d \in Clients \ {c} : tx'[d] = tx[d]
    BY <1>1, <2>1
  <2>7. QED
    BY <1>1, <2>5, <2>6, LoneGoesOn
<1>4. QED
  BY <1>2, <1>3

-----------------------------------------------------------------------------
(* The reads of a request on its own *)

LEMMA LoneRebuildsOn ==
  ASSUME NEW q, NEW p, q.at \in {"rebuild", "oldest", "existing"},
         p.at \in {"rebuild", "oldest", "existing"},
         p.then = q.then, p.id = q.id, p.row = q.row, p.date = q.date,
         p.from = q.from, p.cover = q.cover, p.atomic = q.atomic,
         p.rebuilt = q.rebuilt, NEW D, NEW V
  PROVE  Lone(q, D, V) => Lone(p, D, V)
<1>1. Mine(p) <=> Mine(q)
  BY DEF Mine, Locating
<1>2. Sound(q, V) => Sound(p, V)
  BY <1>1 DEF Sound
<1>3. OneWrite(q, V) => OneWrite(p, V)
  BY DEF OneWrite
<1>4. \A T, P : Rebuilding(p, D, T, P) <=> Rebuilding(q, D, T, P)
  BY <1>1, SameLeft
<1>5. LeadsToStep(q, D, V) => LeadsToStep(p, D, V)
  BY <1>4 DEF LeadsToStep
<1>6. QED
  BY <1>2, <1>3, <1>5 DEF Lone

LEMMA LoneReadsSalaries ==
  ASSUME RebuildInv, LoneInv, OneByOne, NEW c \in Clients, ReadSalaries(c)
  PROVE  LoneInv' /\ Becoming(db, db')
<1> DEFINE q == tx[c]
           T == Transactions(Seen(c))
           p == [q EXCEPT !.at = "oldest", !.got = Restrict(T, Salaries(T))]
<1>1. q # Idle /\ q.at = "rebuild" /\ Read(c, p)
  BY DEF ReadSalaries, At
<1>2. DOMAIN q = Fields /\ Lone(q, db, Seen(c))
  BY <1>1, OfLone DEF Underway
<1>3. /\ p.at = "oldest" /\ p.then = q.then /\ p.id = q.id /\ p.row = q.row /\ p.date = q.date
      /\ p.from = q.from /\ p.cover = q.cover /\ p.atomic = q.atomic /\ p.rebuilt = q.rebuilt
      /\ p.mine = q.mine /\ p.alone = q.alone
  BY <1>2 DEF Fields
<1> HIDE DEF q, p
<1>4. Lone(p, db, Seen(c))
  BY <1>1, <1>2, <1>3, LoneRebuildsOn
<1>5. QED
  BY <1>1, <1>3, <1>4, LoneReads DEF q

LEMMA LoneReadsOldest ==
  ASSUME RebuildInv, LoneInv, OneByOne, NEW c \in Clients, ReadOldest(c)
  PROVE  LoneInv' /\ Becoming(db, db')
<1> DEFINE q == tx[c]
           dates == DatesToReach(Transactions(Seen(c)), {})
           p == [q EXCEPT !.at = "existing",
                          !.got = DesiredPeriods(@, q.cover \union
                                     (IF dates = {} THEN {} ELSE {Min(dates)}))]
<1>1. q # Idle /\ q.at = "oldest" /\ Read(c, p)
  BY DEF ReadOldest, At
<1>2. DOMAIN q = Fields /\ Lone(q, db, Seen(c))
  BY <1>1, OfLone DEF Underway
<1>3. /\ p.at = "existing" /\ p.then = q.then /\ p.id = q.id /\ p.row = q.row /\ p.date = q.date
      /\ p.from = q.from /\ p.cover = q.cover /\ p.atomic = q.atomic /\ p.rebuilt = q.rebuilt
      /\ p.mine = q.mine /\ p.alone = q.alone
  BY <1>2 DEF Fields
<1> HIDE DEF q, p
<1>4. Lone(p, db, Seen(c))
  BY <1>1, <1>2, <1>3, LoneRebuildsOn
<1>5. QED
  BY <1>1, <1>3, <1>4, LoneReads DEF q

\* Transactions are stored with no period, or with one that is.
LEMMA RefersToKeys ==
  ASSUME NEW V, AreTables(V), RefersToRows(V), NEW T, T = TransactionsOf(V),
         NEW P, P = PeriodsOf(V)
  PROVE  \A i \in DOMAIN T : T[i].period = Null \/ T[i].period \in DOMAIN P
<1> SUFFICES ASSUME NEW i \in DOMAIN T, T[i].period # Null PROVE T[i].period \in DOMAIN P
  OBVIOUS
<1>1. i \in DOMAIN Transactions(V) /\ T[i].period = KeyOf(V[Row(i)].period)
  BY NamedTransactions
<1>2. V[Row(i)].period # Null /\ V[Row(i)].period \in DOMAIN Periods(V)
  BY <1>1 DEF RefersToRows, KeyOf
<1>3. DOMAIN P = {r[2] : r \in DOMAIN Periods(V)}
  BY NamedPeriods
<1>4. QED
  BY <1>1, <1>2, <1>3 DEF KeyOf

\* The period of a date among the rows is found under its key.
LEMMA LoneLocates ==
  ASSUME RebuildInv, LoneInv, OneByOne, NEW c \in Clients, LocateDate(c)
  PROVE  LoneInv' /\ Becoming(db, db')
<1> DEFINE q == tx[c]
           V == Seen(c)
           T == TransactionsOf(V)
           P == PeriodsOf(V)
           S == Periods(V)
           opens == q.id # 0 /\ IsSalary(q.row)
           b == [q EXCEPT !.at = "rebuild", !.then = <<"find">> \o @,
                          !.from = q.date, !.cover = {q.date}]
           a == [q EXCEPT !.at = "assign", !.got = PeriodForDate(S, q.date)]
<1>1. /\ q # Idle /\ q.at = "locate"
      /\ Read(c, IF opens \/ CoveringKeys(S, q.date) = {} THEN b ELSE a)
  BY DEF LocateDate, At
<1>2. DOMAIN q = Fields /\ Underway(q, db, V)
  BY <1>1, OfLone
<1>3. /\ AreTables(V) /\ Sound(q, V) /\ OneWrite(q, V) /\ LeadsToStep(q, db, V)
      /\ IsRequest(q)
  BY <1>2 DEF Underway, Lone
<1>4. /\ OneRowEach(V) /\ Proved!IsSequence(P) /\ Proved!Partition(P)
      /\ RefersToRows(V) /\ q.from \in Nat
      /\ Mine(q) => V[Row(q.id)].kind = q.row.kind
      /\ (Mine(q) /\ ~ q.rebuilt) => q.row.period = V[Row(q.id)].period
      /\ (Mine(q) /\ q.rebuilt) => Requests!InItsPeriod(T[q.id], P)
  BY <1>1, <1>3 DEF Sound
<1>5. q.then = <<"commit">> /\ q.date \in Nat /\ (Mine(q) <=> q.id # 0)
  BY <1>1, <1>3 DEF IsRequest, InStep, Mine, Locating
<1>6. Ends(db, Reaching(q, T, P))
  BY <1>1, <1>3 DEF LeadsToStep
<1>7. /\ CoveringKeys(S, q.date) = {} <=> CoveringKeys(P, q.date) = {}
      /\ CoveringKeys(S, q.date) # {} =>
            /\ PeriodForDate(S, q.date) \in CoveringKeys(S, q.date)
            /\ PeriodForDate(S, q.date)[2] = PeriodForDate(P, q.date)
  BY <1>3, <1>4, <1>5, FoundUnderKey
<1>8. ~ q.atomic => DOMAIN Transactions(V) = {} /\ DOMAIN S = {}
  BY <1>1, <1>3 DEF OneWrite
<1>9. CASE opens \/ CoveringKeys(S, q.date) = {}
  <2>1. /\ b.at = "rebuild" /\ b.id = q.id /\ b.row = q.row /\ b.date = q.date
        /\ b.from = q.date /\ b.cover = {q.date} /\ b.atomic = q.atomic
        /\ b.rebuilt = q.rebuilt /\ b.mine = q.mine /\ b.alone = q.alone
    BY <1>2 DEF Fields
  <2>2. b.then = <<"find", "commit">>
    BY <1>2, <1>5, ListOfTwo DEF Fields
  <2> HIDE DEF b
  <2>3. Mine(b) <=> Mine(q)
    BY <1>5, <2>1, <2>2 DEF Mine, Locating
  <2>4. Sound(b, V)
    BY <1>4, <1>5, <2>1, <2>3 DEF Sound
  <2>5. OneWrite(b, V)
    BY <1>8, <2>1, <2>2 DEF OneWrite
  <2>6. Rebuilding(b, db, T, P)
    <3> DEFINE R == Rebuild(T, P, q.date, {q.date})
    <3>1. Reaching(q, T, P) = Finding(q, R.txs, R.periods)
      BY <1>7, <1>9 DEF Reaching
    <3>2. Rest(b, R.txs, R.periods) = Finding(b, R.txs, R.periods)
      BY <2>2 DEF Rest
    <3>3. Finding(b, R.txs, R.periods) = Finding(q, R.txs, R.periods)
      BY <2>1, SameRest
    <3>4. QED
      BY <1>6, <2>1, <3>1, <3>2, <3>3 DEF Rebuilding
  <2>7. LeadsToStep(b, db, V)
    BY <2>1, <2>6 DEF LeadsToStep
  <2>8. Lone(b, db, V) /\ Read(c, b)
    BY <1>1, <1>9, <2>4, <2>5, <2>7 DEF Lone
  <2>9. QED
    BY <1>1, <2>1, <2>8, LoneReads
<1>10. CASE ~ (opens \/ CoveringKeys(S, q.date) = {})
  <2>1. /\ a.at = "assign" /\ a.id = q.id /\ a.row = q.row /\ a.date = q.date
        /\ a.from = q.from /\ a.cover = q.cover /\ a.atomic = q.atomic /\ a.then = q.then
        /\ a.rebuilt = q.rebuilt /\ a.mine = q.mine /\ a.alone = q.alone
        /\ a.got = PeriodForDate(S, q.date)
    BY <1>2 DEF Fields
  <2> HIDE DEF a
  <2>2. Mine(a) <=> Mine(q)
    BY <1>5, <2>1 DEF Mine, Locating
  <2>3. Sound(a, V)
    BY <1>4, <1>5, <1>7, <1>10, <2>1, <2>2 DEF Sound
  <2>4. OneWrite(a, V)
    BY <1>5, <1>8, <2>1 DEF OneWrite
  <2>5. Ends(db, Placing(a, T, P, a.got[2]))
    <3>1. Reaching(q, T, P) = Placing(q, T, P, PeriodForDate(P, q.date))
      BY <1>7, <1>10 DEF Reaching, Finding
    <3>2. a.got[2] = PeriodForDate(P, q.date)
      BY <1>7, <1>10, <2>1
    <3>3. \A k : Placing(a, T, P, k) = Placing(q, T, P, k)
      BY <2>1, SameRest
    <3>4. QED
      BY <1>6, <3>1, <3>2, <3>3
  <2>6. LeadsToStep(a, db, V)
    BY <2>1, <2>5 DEF LeadsToStep
  <2>7. Lone(a, db, V) /\ Read(c, a)
    BY <1>1, <1>10, <2>3, <2>4, <2>6 DEF Lone
  <2>8. QED
    BY <1>1, <2>1, <2>7, LoneReads
<1>11. QED
  BY <1>9, <1>10

LEMMA LoneFinds ==
  ASSUME RebuildInv, LoneInv, OneByOne, NEW c \in Clients, FindPeriod(c)
  PROVE  LoneInv' /\ Becoming(db, db')
<1> DEFINE q == tx[c]
           V == Seen(c)
           T == TransactionsOf(V)
           P == PeriodsOf(V)
           S == Periods(V)
           p == [q EXCEPT !.at = "assign", !.got = PeriodForDate(S, q.date)]
<1>1. q # Idle /\ q.at = "find" /\ CoveringKeys(S, q.date) # {} /\ Read(c, p)
  BY DEF FindPeriod, At
<1>2. DOMAIN q = Fields /\ Underway(q, db, V)
  BY <1>1, OfLone
<1>3. /\ AreTables(V) /\ Sound(q, V) /\ OneWrite(q, V) /\ LeadsToStep(q, db, V)
      /\ IsRequest(q)
  BY <1>2 DEF Underway, Lone
<1>4. /\ OneRowEach(V) /\ Proved!IsSequence(P) /\ Proved!Partition(P)
      /\ RefersToRows(V) /\ q.from \in Nat /\ q.rebuilt
      /\ Mine(q) => V[Row(q.id)].kind = q.row.kind
      /\ Mine(q) => Requests!InItsPeriod(T[q.id], P)
  BY <1>1, <1>3 DEF Sound
<1>5. q.then = <<"commit">> /\ q.date \in Nat /\ (Mine(q) <=> q.id # 0)
  BY <1>1, <1>3 DEF IsRequest, InStep, Mine, Locating
<1>6. Ends(db, Finding(q, T, P))
  BY <1>1, <1>3 DEF LeadsToStep
<1>7. /\ PeriodForDate(S, q.date) \in CoveringKeys(S, q.date)
      /\ PeriodForDate(S, q.date)[2] = PeriodForDate(P, q.date)
  BY <1>1, <1>3, <1>4, <1>5, FoundUnderKey
<1>8. /\ p.at = "assign" /\ p.id = q.id /\ p.row = q.row /\ p.date = q.date
      /\ p.from = q.from /\ p.cover = q.cover /\ p.atomic = q.atomic /\ p.then = q.then
      /\ p.rebuilt = q.rebuilt /\ p.mine = q.mine /\ p.alone = q.alone
      /\ p.got = PeriodForDate(S, q.date)
  BY <1>2 DEF Fields
<1> HIDE DEF p
<1>9. Mine(p) <=> Mine(q)
  BY <1>5, <1>8 DEF Mine, Locating
<1>10. Sound(p, V)
  BY <1>4, <1>5, <1>7, <1>8, <1>9 DEF Sound
<1>11. OneWrite(p, V)
  <2>1. ~ q.atomic => DOMAIN Transactions(V) = {}
    BY <1>1, <1>3 DEF OneWrite
  <2>2. QED
    BY <1>5, <1>8, <2>1 DEF OneWrite
<1>12. Ends(db, Placing(p, T, P, p.got[2]))
  <2>1. Finding(q, T, P) = Placing(q, T, P, PeriodForDate(P, q.date))
    BY DEF Finding
  <2>2. p.got[2] = PeriodForDate(P, q.date)
    BY <1>7, <1>8
  <2>3. \A k : Placing(p, T, P, k) = Placing(q, T, P, k)
    BY <1>8, SameRest
  <2>4. QED
    BY <1>6, <2>1, <2>2, <2>3
<1>13. LeadsToStep(p, db, V)
  BY <1>8, <1>12 DEF LeadsToStep
<1>14. Lone(p, db, V)
  BY <1>10, <1>11, <1>13 DEF Lone
<1>15. QED
  BY <1>1, <1>8, <1>14, LoneReads

\* The last period is open.
LEMMA SomeIsOpen ==
  ASSUME NEW P, Proved!IsSequence(P), Proved!Partition(P), DOMAIN P # {}
  PROVE  \E k \in DOMAIN P : P[k].end = Null
<1>1. /\ \A k \in DOMAIN P : P[k].start \in Nat
      /\ \A k \in DOMAIN P : P[k].end \in Nat \union {Null}
      /\ DOMAIN P \subseteq TxIds \union {Bootstrap}
  BY DEF Proved!IsSequence, Proved!Period, Proved!Keys
<1>2. IsFiniteSet(DOMAIN P)
  BY <1>1, KeysFinite, FS_Subset
<1>3. PICK m \in DOMAIN P : \A k \in DOMAIN P : P[k].start <= P[m].start
  BY <1>1, <1>2, LatestExists
<1> DEFINE starts == {P[j].start : j \in DOMAIN P}
<1>4. P[m].end = Proved!NextStart(starts, P[m].start)
  BY DEF Proved!Partition
<1>5. /\ starts \in SUBSET Nat /\ P[m].start \in Nat
      /\ \A n \in starts : n <= P[m].start
  BY <1>1, <1>3
<1> HIDE DEF starts
<1>6. P[m].end # Null => P[m].end \in starts /\ P[m].start < P[m].end
  BY <1>4, <1>5, RowsAssumptions, Proved!NextStartIsNext
<1>7. P[m].end = Null
  BY <1>1, <1>5, <1>6
<1>8. QED
  BY <1>7

LEMMA EndsBoth ==
  ASSUME NEW D, NEW T, NEW P
  PROVE  Ends(D, Both(T, P)) <=> IsStep(TransactionsOf(D), PeriodsOf(D), T, P)
BY DEF Ends, Both

LEMMA LoneFindsOpen ==
  ASSUME RebuildInv, LoneInv, OneByOne, NEW c \in Clients, FindOpen(c)
  PROVE  LoneInv' /\ Becoming(db, db')
<1> DEFINE q == tx[c]
           V == Seen(c)
           T == TransactionsOf(V)
           P == PeriodsOf(V)
           S == Periods(V)
           open == \E r \in DOMAIN S : S[r].end = Null
           a == Proceed(q)
           b == [q EXCEPT !.at = "locate"]
<1>1. q # Idle /\ q.at = "current" /\ Read(c, IF open THEN a ELSE b)
  BY DEF FindOpen, At
<1>2. DOMAIN q = Fields /\ Underway(q, db, V)
  BY <1>1, OfLone
<1>3. /\ AreTables(V) /\ Sound(q, V) /\ OneWrite(q, V) /\ AreTables(db)
      /\ IsRequest(q) /\ Kept(db) /\ V = Over(q.mine, db)
  BY <1>2 DEF Underway, Lone
<1>4. /\ OneRowEach(V) /\ Proved!IsSequence(P) /\ Proved!Partition(P)
      /\ RefersToRows(V) /\ q.from \in Nat /\ q.date \in Instants
      /\ DOMAIN q.mine = {}
  BY <1>1, <1>3 DEF Sound
<1>5. q.then = <<"commit">> /\ q.id = 0
  BY <1>1, <1>3 DEF IsRequest, InStep, HasRow
<1>6. V = db
  BY <1>3, <1>4, OverNothing DEF AreTables
<1>7. CASE open
  <2>1. /\ DOMAIN a = Fields
        /\ a.at = Head(q.then) /\ a.then = Tail(q.then) /\ a.id = q.id
        /\ a.from = q.from /\ a.mine = q.mine /\ a.alone = q.alone
    BY <1>2, ProceedFields
  <2> HIDE DEF a
  <2>2. a.at = "commit" /\ a.then = <<>>
    BY <1>5, <2>1
  <2>3. ~ Mine(a)
    BY <1>5, <2>1 DEF Mine
  <2>4. Sound(a, V)
    BY <1>4, <2>1, <2>2, <2>3 DEF Sound
  <2>5. OneWrite(a, V)
    BY <2>2 DEF OneWrite
  <2>6. Ends(db, Both(T, P))
    BY <1>6 DEF Ends, Both, IsStep
  <2>7. LeadsToStep(a, db, V)
    BY <2>2, <2>6 DEF LeadsToStep
  <2>8. Lone(a, db, V) /\ Read(c, a)
    BY <1>1, <1>7, <2>4, <2>5, <2>7 DEF Lone
  <2>9. QED
    BY <1>1, <2>1, <2>8, LoneReads
<1>8. CASE ~ open
  <2>1. /\ b.at = "locate" /\ b.then = q.then /\ b.id = q.id /\ b.date = q.date
        /\ b.from = q.from /\ b.mine = q.mine /\ b.alone = q.alone
    BY <1>2 DEF Fields
  <2> HIDE DEF b
  <2>2. ~ Mine(b)
    BY <1>5, <2>1 DEF Mine
  <2>3. Sound(b, V)
    BY <1>4, <2>1, <2>2 DEF Sound
  <2>4. \A k \in DOMAIN P : P[k].end # Null
    <3>1. IsRowwise(S, P)
      BY <1>3, <1>4, OneRowTables
    <3>2. \A k \in DOMAIN P : \E r \in DOMAIN S : S[r] = P[k]
      BY <3>1 DEF IsRowwise
    <3>3. QED
      BY <1>8, <3>2
  <2>5. DOMAIN P = {}
    BY <1>4, <2>4, SomeIsOpen
  <2>6. DOMAIN S = {} /\ DOMAIN Transactions(V) = {}
    <3>1. DOMAIN P = {r[2] : r \in DOMAIN S}
      BY <1>3, NamedPeriods
    <3>2. DOMAIN T = DOMAIN Transactions(V)
      BY <1>3, NamedTransactions
    <3>3. DOMAIN T = {}
      BY <1>3, <1>6, <2>5 DEF Kept
    <3>4. QED
      BY <2>5, <3>1, <3>2, <3>3
  <2>7. OneWrite(b, V)
    BY <1>5, <2>1, <2>6 DEF OneWrite
  <2>8. Ends(db, Reaching(b, T, P))
    <3>1. Reaching(b, T, P) = Both(Locate(T, P, b.date, FALSE).txs,
                                   Locate(T, P, b.date, FALSE).periods)
      BY <1>5, <2>1, ReachingLocates
    <3>2. IsStep(T, P, Locate(T, P, b.date, FALSE).txs, Locate(T, P, b.date, FALSE).periods)
      BY <1>4, <2>1, <2>4 DEF IsStep
    <3>3. T = TransactionsOf(db) /\ P = PeriodsOf(db)
      BY <1>6
    <3> HIDE DEF T, P
    <3>4. QED
      BY <3>1, <3>2, <3>3, EndsBoth
  <2>9. LeadsToStep(b, db, V)
    BY <2>1, <2>8 DEF LeadsToStep
  <2>10. Lone(b, db, V) /\ Read(c, b)
    BY <1>1, <1>8, <2>3, <2>7, <2>9 DEF Lone
  <2>11. QED
    BY <1>1, <2>1, <2>10, LoneReads
<1>9. QED
  BY <1>7, <1>8

LEMMA LoneReadsPeriods ==
  ASSUME RebuildInv, LoneInv, OneByOne, NEW c \in Clients, ReadPeriods(c)
  PROVE  LoneInv' /\ Becoming(db, db')
<1> DEFINE q == tx[c]
           V == Seen(c)
           T == TransactionsOf(V)
           P == PeriodsOf(V)
           S == Periods(V)
           Q == Asked(V, q.cover)
           read == Restrict(S, EndingAfter(S, q.from))
           p == [q EXCEPT !.at = "reassign", !.rebuilt = TRUE, !.got = read]
<1>1. q # Idle /\ q.at = "writes" /\ q.got = <<>> /\ Read(c, p)
  BY DEF ReadPeriods, At
<1>2. DOMAIN q = Fields /\ Underway(q, db, V)
  BY <1>1, OfLone
<1>3. /\ AreTables(V) /\ Sound(q, V) /\ OneWrite(q, V) /\ LeadsToStep(q, db, V)
      /\ IsRequest(q) /\ RightSoFar(q, V)
  BY <1>2 DEF Underway, Lone
<1>4. /\ RefersToRows(V) /\ q.from \in Nat
      /\ Mine(q) => V[Row(q.id)].kind = q.row.kind
  BY <1>3 DEF Sound
<1>5. q.cover \in SUBSET Nat
  BY <1>3 DEF IsRequest
<1>6. Proved!IsSequence(Q) /\ Proved!Partition(Q)
  BY <1>3, <1>5, TableRows, DesiredOfRows DEF Asked
<1>7. IsRowwise(S, Q)
  <2>1. PICK R : IsRowwise(R, Q) /\ Leads(<<>>, V, R)
    BY <1>1, <1>3 DEF RightSoFar
  <2>2. QED
    BY <1>3, <1>6, <2>1, LeadsThere
<1>8. P = Q
  <2>1. Q = [k \in DOMAIN Q |-> Q[k]]
    BY DEF Asked, DesiredPeriods
  <2>2. QED
    BY <1>3, <1>7, <2>1, RowwisePeriods
<1>9. LeftToWrite(q, db, T, P)
  BY <1>1, <1>3, <1>8 DEF LeadsToStep
<1>10. /\ p.at = "reassign" /\ p.then = q.then /\ p.id = q.id /\ p.row = q.row
       /\ p.date = q.date /\ p.from = q.from /\ p.cover = q.cover /\ p.atomic = q.atomic
       /\ p.got = read /\ p.mine = q.mine /\ p.alone = q.alone
  BY <1>2 DEF Fields
<1> HIDE DEF p
<1>11. Mine(p) <=> Mine(q)
  BY <1>1, <1>10 DEF Mine, Locating
<1>12. OneRowEach(V)
  BY <1>7 DEF IsRowwise, OneRowEach
<1>13. Sound(p, V)
  BY <1>4, <1>6, <1>8, <1>10, <1>11, <1>12 DEF Sound
<1>14. OneWrite(p, V)
  BY <1>1, <1>3, <1>10 DEF OneWrite
<1>15. LeftToFile(p, db, T, P)
  <2>1. {r[2] : r \in DOMAIN read} = EndingAfter(P, q.from)
    <3>1. DOMAIN read = EndingAfter(S, q.from)
      BY DEF Restrict
    <3>2. /\ \A r \in DOMAIN S : r[2] \in DOMAIN P /\ S[r] = P[r[2]]
          /\ \A k \in DOMAIN P : \E r \in DOMAIN S : r[2] = k
      BY <1>7, <1>8 DEF IsRowwise
    <3> HIDE DEF S, P, read
    <3>3. QED
      BY <3>1, <3>2 DEF EndingAfter
  <2>2. ToVisit(P, p.got) = Visited(P, q.from)
    BY <1>10, <2>1 DEF Visited, ToVisit
  <2> DEFINE U == Refiled(T, P, Visited(P, q.from))
  <2>3. Ends(db, Rest(q, U, P)) /\ (Mine(q) => Requests!InItsPeriod(U[q.id], P))
    BY <1>9 DEF LeftToWrite
  <2>4. Rest(p, U, P) = Rest(q, U, P)
    BY <1>10, SameRest
  <2>5. Ends(db, Rest(p, U, P)) /\ (Mine(p) => Requests!InItsPeriod(U[p.id], P))
    BY <1>10, <1>11, <2>3, <2>4
  <2>6. QED
    BY <1>10, <2>2, <2>5 DEF LeftToFile
<1>16. LeadsToStep(p, db, V)
  BY <1>10, <1>15 DEF LeadsToStep
<1>17. Lone(p, db, V)
  BY <1>13, <1>14, <1>16 DEF Lone
<1>18. QED
  BY <1>1, <1>10, <1>17, LoneReads

-----------------------------------------------------------------------------
(* The writes of a rebuild on its own *)

\* What is deleted are the superfluous rows, once.
LEMMA WritesDelete ==
  ASSUME NEW P, DOMAIN P \subseteq PeriodRows,
         NEW Q, DOMAIN Q \subseteq PeriodRows, IsFiniteSet(DOMAIN Q),
         \A r \in DOMAIN Q : Q[r] \in PeriodRow,
         \A r, s \in DOMAIN Q : Q[r].start = Q[s].start => r = s,
         NEW W, W = Writes(P, Q)
  PROVE  /\ \A n \in 1..Len(W) : W[n].op = "delete" => W[n].rows = Superfluous(P, Q)
         /\ (DOMAIN P = {} /\ Cardinality(DOMAIN Q) <= 1 /\ W # <<>>) =>
               Tail(W) = <<>> /\ Head(W).op = "create"
<1> DEFINE A == Deletion(Superfluous(P, Q))
           B == Parked(ByStart(Q, Moving(P, Q)))
           C == OneByOneTo(Q, ByStart(Q, Changed(P, Q)), "update")
           D == OneByOneTo(Q, ByStart(Q, DOMAIN Q \ DOMAIN P), "create")
<1>1. AreWrites(P, Q, A, B, C, D)
  BY WritesParts
<1>2. W = A \o B \o C \o D
  BY DEF Writes
<1>3. DOMAIN P = {} => A = <<>>
  BY DEF Deletion, Superfluous
<1>4. Len(D) = Cardinality(DOMAIN Q \ DOMAIN P)
  <2> DEFINE R == DOMAIN Q \ DOMAIN P
             S == ByStart(Q, R)
  <2>1. /\ IsFiniteSet(R) /\ \A r \in R : Q[r].start \in Int
        /\ \A r, s \in R : Q[r].start = Q[s].start => r = s
    BY FS_Subset DEF PeriodRow
  <2>2. Len(S) = Cardinality(R)
    BY <2>1, StartsSorted
  <2>3. Cardinality(R) \in Nat
    BY <2>1, FS_CardinalityType
  <2> HIDE DEF S, R
  <2>4. Len(OneByOneTo(Q, S, "create")) = Len(S)
    BY <2>2, <2>3 DEF OneByOneTo
  <2>5. QED
    BY <2>2, <2>4 DEF S, R
<1>5. DOMAIN P = {} => (Moving(P, Q) = {} /\ Changed(P, Q) = {})
  BY DEF Moving, Changed
<1> DEFINE a == Len(A)
           b == Len(B)
           c == Len(C)
           d == Len(D)
<1> HIDE DEF A, B, C, D
<1> USE DEF AreWrites
<1>6. a \in Nat /\ b \in Nat /\ c \in Nat /\ d \in Nat
  BY <1>1, LenProperties
<1>7. /\ W \in Seq(Statements)
      /\ Len(W) = Len(A) + Len(B) + Len(C) + Len(D)
      /\ \A n \in 1..Len(A) : W[n] = A[n]
      /\ \A n \in 1..Len(B) : W[Len(A) + n] = B[n]
      /\ \A n \in 1..Len(C) : W[Len(A) + Len(B) + n] = C[n]
      /\ \A n \in 1..Len(D) : W[Len(A) + Len(B) + Len(C) + n] = D[n]
  <2>1. /\ A \in Seq(Statements) /\ B \in Seq(Statements)
        /\ C \in Seq(Statements) /\ D \in Seq(Statements)
    BY <1>1
  <2> HIDE DEF a, b, c, d
  <2>2. QED
    BY <1>2, <2>1, FourJoined, SMTT(30)
<1>8. ASSUME NEW n \in 1..Len(W), W[n].op = "delete"
      PROVE  W[n].rows = Superfluous(P, Q)
  <2>1. \/ n \in 1..a
        \/ \E m \in 1..b : n = a + m
        \/ \E m \in 1..c : n = a + b + m
        \/ \E m \in 1..d : n = a + b + c + m
    <3>1. n \in 1..(a + b + c + d)
      BY <1>7
    <3> HIDE DEF a, b, c, d
    <3>2. QED
      BY <1>6, <3>1, FourSplit
  <2>2. n \in 1..a
    <3>1. \A m \in 1..b : W[a + m].op # "delete"
      <4>1. \A m \in 1..b : W[a + m] = B[m] /\ B[m].op = "park"
        BY <1>1, <1>7
      <4>2. QED
        BY <4>1
    <3>2. \A m \in 1..c : W[a + b + m].op # "delete"
      <4>1. \A m \in 1..c : W[a + b + m] = C[m] /\ C[m].op = "update"
        BY <1>1, <1>7
      <4>2. QED
        BY <4>1
    <3>3. \A m \in 1..d : W[a + b + c + m].op # "delete"
      <4>1. \A m \in 1..d : W[a + b + c + m] = D[m] /\ D[m].op = "create"
        BY <1>1, <1>7
      <4>2. QED
        BY <4>1
    <3> HIDE DEF a, b, c, d
    <3>4. QED
      BY <1>8, <2>1, <3>1, <3>2, <3>3
  <2>3. QED
    BY <1>1, <1>7, <2>2
<1>9. ASSUME DOMAIN P = {}, Cardinality(DOMAIN Q) <= 1, W # <<>>
      PROVE  Tail(W) = <<>> /\ Head(W).op = "create"
  <2>1. a = 0 /\ b = 0 /\ c = 0
    BY <1>1, <1>3, <1>5, <1>6, <1>9
  <2>2. DOMAIN Q \ DOMAIN P = DOMAIN Q
    BY <1>9
  <2>3. Len(W) = d /\ d <= 1
    BY <1>4, <1>6, <1>7, <1>9, <2>1, <2>2
  <2>4. Len(W) = 1
    BY <1>6, <1>7, <1>9, <2>3, EmptySeq
  <2>5. W[1] = D[1] /\ D[1].op = "create"
    BY <1>1, <1>6, <1>7, <2>1, <2>3, <2>4
  <2>6. Head(W) = W[1] /\ Len(Tail(W)) = 0 /\ Tail(W) \in Seq(Statements)
    <3>1. W \in Seq(Statements) /\ W # <<>>
      BY <1>7, <1>9
    <3>2. Tail(W) \in Seq(Statements) /\ Len(Tail(W)) = Len(W) - 1
      BY <3>1, HeadTailProperties
    <3>3. Head(W) = W[1]
      BY <3>1
    <3>4. QED
      BY <2>4, <3>2, <3>3
  <2>7. QED
    BY <2>5, <2>6, EmptySeq
<1>10. QED
  BY <1>8, <1>9

LEMMA LoneReadsExisting ==
  ASSUME RebuildInv, LoneInv, OneByOne, NEW c \in Clients, ReadExisting(c)
  PROVE  LoneInv' /\ Becoming(db, db')
<1> DEFINE q == tx[c]
           V == Seen(c)
           T == TransactionsOf(V)
           P == PeriodsOf(V)
           S == Periods(V)
           Q == Asked(V, q.cover)
           R == [r \in {RowFor(c, S, k) : k \in DOMAIN q.got} |-> q.got[r[2]]]
           p == [q EXCEPT !.at = "writes", !.from = Boundary(S, R, q.from),
                          !.got = Writes(S, R)]
           b == Boundary(P, Q, q.from)
           U == Refiled(T, Q, Visited(Q, b))
<1>1. q # Idle /\ q.at = "existing" /\ Read(c, p)
  BY DEF ReadExisting, At
<1>2. DOMAIN q = Fields /\ Underway(q, db, V)
  BY <1>1, OfLone
<1>3. /\ AreTables(V) /\ Sound(q, V) /\ OneWrite(q, V) /\ LeadsToStep(q, db, V)
      /\ IsRequest(q) /\ RightSoFar(q, V) /\ HasWritten(q, q.mine) /\ V = Over(q.mine, db)
  BY <1>2 DEF Underway, Lone
<1>4. /\ OneRowEach(V) /\ Proved!IsSequence(P) /\ Proved!Partition(P)
      /\ RefersToRows(V) /\ q.from \in Nat
      /\ Mine(q) => V[Row(q.id)].kind = q.row.kind
      /\ Mine(q) => q.from <= q.date
  BY <1>1, <1>3 DEF Sound
<1>5. q.cover \in SUBSET Nat /\ q.got = Q
  BY <1>1, <1>3 DEF IsRequest, RightSoFar
<1>6. /\ Proved!IsSequence(Q) /\ Proved!Partition(Q)
      /\ DOMAIN Q \ {Bootstrap} = Anchors(Transactions(V))
  BY <1>3, <1>5, TableRows, DesiredOfRows DEF Asked
<1>7. IsRowwise(S, P)
  BY <1>3, <1>4, OneRowTables
<1>8. /\ DOMAIN S \subseteq PeriodRows
      /\ \A r, s \in DOMAIN S : r[2] = s[2] => r = s
      /\ DOMAIN Q \subseteq TxIds \union {Bootstrap}
      /\ R = [r \in {RowFor(c, S, k) : k \in DOMAIN Q} |-> Q[r[2]]]
      /\ DOMAIN R = {RowFor(c, S, k) : k \in DOMAIN Q}
  BY <1>5, <1>6, <1>7 DEF IsRowwise, Proved!IsSequence, Proved!Keys
<1>9. /\ IsRowwise(R, Q) /\ IsFiniteSet(DOMAIN R)
      /\ \A r \in DOMAIN R : R[r] \in PeriodRow
      /\ \A r, s \in DOMAIN R : R[r].start = R[s].start => r = s
  <2> HIDE DEF S, Q, R
  <2>1. QED
    BY <1>6, <1>8, RowsWanted
<1>10. /\ p.at = "writes" /\ p.then = q.then /\ p.id = q.id /\ p.row = q.row
       /\ p.date = q.date /\ p.cover = q.cover /\ p.atomic = q.atomic
       /\ p.from = Boundary(S, R, q.from) /\ p.got = Writes(S, R)
       /\ p.mine = q.mine /\ p.alone = q.alone
  BY <1>2 DEF Fields
<1>11. T = TransactionsOf(V) /\ P = PeriodsOf(V) /\ Q = Asked(V, q.cover) /\ S = Periods(V)
  OBVIOUS
<1> HIDE DEF p, R, S, Q, T, P, V
<1>12. \A r \in DOMAIN S, s \in DOMAIN R : r[2] = s[2] => r = s
  BY <1>8, RowsStay
<1>13. Boundary(S, R, q.from) = b /\ \A r \in Superfluous(S, R) : r[2] \notin DOMAIN Q
  BY <1>7, <1>9, <1>12, BoundaryOfRows
<1>14. b \in Nat
  BY <1>4, <1>6, Proved!BoundaryBounds, SameBoundary, RowsAssumptions
<1>15. /\ Proved!IsTable(T) /\ DesiredPeriods(T, q.cover) = Q
       /\ DOMAIN T = DOMAIN Transactions(V)
  BY <1>3, <1>11, NamedTransactions
<1>16. Rebuild(T, P, q.from, q.cover) = RebuildTo(T, P, Q, b)
  BY <1>15 DEF Rebuild
<1>17. /\ Rebuild(T, P, q.from, q.cover).txs = U
       /\ Rebuild(T, P, q.from, q.cover).periods = Q
  <2>1. \A i \in DOMAIN T : T[i].period = Null \/ T[i].period \in DOMAIN P
    BY <1>3, <1>4, <1>11, RefersToKeys
  <2>2. Reassigned(T, P, Q, b) = U
    BY <2>1, ReassignedRefiles
  <2>3. QED
    BY <1>16, <2>2 DEF RebuildTo
<1>18. Mine(p) <=> Mine(q)
  BY <1>1, <1>10 DEF Mine, Locating
<1>19. LeftToWrite(p, db, T, Q)
  <2>1. Ends(db, Rest(q, U, Q))
    <3>1. Rebuilding(q, db, T, P)
      BY <1>1, <1>3, <1>11 DEF LeadsToStep
    <3> HIDE DEF U
    <3>2. QED
      BY <1>17, <3>1 DEF Rebuilding
  <2>2. Rest(p, U, Q) = Rest(q, U, Q)
    BY <1>10, SameRest
  <2>3. ASSUME Mine(p) PROVE Requests!InItsPeriod(U[p.id], Q)
    <3>1. q.id \in DOMAIN T /\ T[q.id].date = q.date /\ q.from <= q.date
      BY <1>3, <1>4, <1>11, <1>18, <2>3, MineIsThere
    <3>2. LET N == Proved!Rebuild(T, P, q.from, q.cover)
          IN  Proved!InItsPeriod(N.txs[q.id], N.periods)
      BY <1>4, <1>5, <1>15, <3>1, Proved!RebuildPlaces, RowsAssumptions
    <3>3. Proved!Rebuild(T, P, q.from, q.cover) = Rebuild(T, P, q.from, q.cover)
      BY SameRebuild
    <3> HIDE DEF U
    <3>4. Proved!InItsPeriod(U[q.id], Q)
      BY <1>17, <3>2, <3>3
    <3>5. QED
      BY <1>10, <3>4, SameAfter
  <2>4. p.from = b
    BY <1>10, <1>13
  <2> HIDE DEF b
  <2>5. QED
    BY <2>1, <2>2, <2>3, <2>4 DEF LeftToWrite
<1>20. /\ DeletesOthers(p.got, Q)
       /\ (DOMAIN S = {} /\ Cardinality(DOMAIN R) <= 1 /\ p.got # <<>>) =>
             Tail(p.got) = <<>> /\ Head(p.got).op = "create"
  <2>1. /\ DOMAIN S \subseteq PeriodRows /\ DOMAIN R \subseteq PeriodRows
        /\ IsFiniteSet(DOMAIN R)
        /\ \A r \in DOMAIN R : R[r] \in PeriodRow
        /\ \A r, s \in DOMAIN R : R[r].start = R[s].start => r = s
    BY <1>8, <1>9 DEF IsRowwise
  <2> DEFINE W == Writes(S, R)
  <2>2. W = Writes(S, R)
    OBVIOUS
  <2> HIDE DEF W
  <2>3. /\ \A n \in 1..Len(W) : W[n].op = "delete" => W[n].rows = Superfluous(S, R)
        /\ (DOMAIN S = {} /\ Cardinality(DOMAIN R) <= 1 /\ W # <<>>) =>
              Tail(W) = <<>> /\ Head(W).op = "create"
    BY <2>1, <2>2, WritesDelete
  <2>4. W = p.got
    BY <1>10 DEF W
  <2>5. QED
    BY <1>13, <2>3, <2>4 DEF DeletesOthers
<1>21. Sound(p, V)
  BY <1>4, <1>10, <1>13, <1>14, <1>18 DEF Sound
<1>22. OneWrite(p, V)
  <2> SUFFICES ASSUME ~ q.atomic PROVE OneWrite(p, V)
    BY <1>10 DEF OneWrite
  <2>1. DOMAIN Transactions(V) = {} /\ DOMAIN S = {} /\ q.then # <<"locate", "commit">>
    BY <1>1, <1>3, <1>11 DEF OneWrite
  <2>2. DOMAIN Q \subseteq {Bootstrap}
    <3>1. Anchors(Transactions(V)) = {}
      BY <2>1 DEF Anchors, Salaries
    <3>2. QED
      BY <1>6, <3>1
  <2>3. Cardinality(DOMAIN R) <= 1
    <3>1. DOMAIN R \subseteq {RowFor(c, S, Bootstrap)}
      BY <1>8, <2>2
    <3>2. DOMAIN R = {} \/ DOMAIN R = {RowFor(c, S, Bootstrap)}
      BY <3>1
    <3>3. Cardinality({}) = 0 /\ Cardinality({RowFor(c, S, Bootstrap)}) = 1
      BY FS_EmptySet, FS_Singleton
    <3>4. CASE DOMAIN R = {}
      BY <3>3, <3>4
    <3>5. CASE DOMAIN R = {RowFor(c, S, Bootstrap)}
      BY <3>3, <3>5
    <3>6. QED
      BY <3>2, <3>4, <3>5
  <2>4. QED
    BY <1>10, <1>11, <1>20, <2>1, <2>3 DEF OneWrite
<1>23. LeadsToStep(p, db, V)
  BY <1>10, <1>11, <1>19, <1>20 DEF LeadsToStep
<1>24. Lone(p, db, V)
  BY <1>21, <1>22, <1>23 DEF Lone
<1>25. QED
  BY <1>1, <1>10, <1>24, LoneReads DEF V

\* A write of a period leaves the transactions to be filed where they were to be.
LEMMA LonePeriodWritten ==
  ASSUME RebuildInv, LoneInv, OneByOne, NEW c \in Clients,
         At(c, "writes"), tx[c].got # <<>>, NEW s, s = Head(tx[c].got),
         NEW rows, AreRows(rows), Refiles(rows, Seen(c)),
         NEW p, DOMAIN p = Fields, p.got = Tail(tx[c].got),
         p.at = tx[c].at, p.then = tx[c].then, p.id = tx[c].id, p.row = tx[c].row,
         p.date = tx[c].date, p.cover = tx[c].cover, p.atomic = tx[c].atomic,
         p.from = tx[c].from, p.mine = tx[c].mine, p.alone = tx[c].alone,
         Write(c, rows, p),
         \A r \in DOMAIN rows \intersect PeriodRows : s.op \in {"update", "create"} => r = s.row,
         s.op \in {"update", "create"} => Over(rows, Seen(c))[s.row] = s.values,
         NEW U, U = Over(rows, Seen(c)), RefersToRows(U),
         NEW T, T = TransactionsOf(Seen(c)), NEW N, N = TransactionsOf(U),
         NEW Q, Q = Asked(Seen(c), tx[c].cover),
         \A i \in DOMAIN T :
            \/ N[i] = T[i]
            \/ T[i].period \notin DOMAIN Q /\ N[i] = FiledWith(T[i], Null)
  PROVE  LoneInv' /\ Becoming(db, db')
<1> DEFINE q == tx[c]
           V == Seen(c)
<1>1. q # Idle /\ q.at = "writes" /\ q.got # <<>>
  BY DEF At
<1>2. DOMAIN q = Fields /\ Underway(q, db, V) /\ q.alone
  BY <1>1, OfLone
<1>3. /\ AreTables(V) /\ AreTables(db) /\ Sound(q, V) /\ OneWrite(q, V)
      /\ LeadsToStep(q, db, V)
      /\ IsRequest(q) /\ HasWritten(q, q.mine) /\ V = Over(q.mine, db)
  BY <1>2 DEF Underway, Lone
<1>4. /\ q.from \in Nat /\ q.cover \in SUBSET Nat /\ q.got \in Seq(Statements)
      /\ Mine(q) => V[Row(q.id)].kind = q.row.kind
  BY <1>1, <1>3 DEF Sound, IsRequest, HasRead
<1>5. LeftToWrite(q, db, T, Q) /\ DeletesOthers(q.got, Q)
  BY <1>1, <1>3 DEF LeadsToStep
<1>6. /\ p.at = "writes" /\ p.then = q.then /\ p.id = q.id /\ p.row = q.row
      /\ p.date = q.date /\ p.cover = q.cover /\ p.atomic = q.atomic
      /\ p.from = q.from /\ p.got = Tail(q.got) /\ DOMAIN p = Fields
      /\ p.mine = q.mine /\ p.alone = q.alone
  BY <1>1
<1> DEFINE G == Visited(Q, q.from)
<1>0. /\ U = Over(rows, V) /\ T = TransactionsOf(V) /\ Q = Asked(V, q.cover)
      /\ s = Head(q.got) /\ Refiles(rows, V)
      /\ s.op \in {"update", "create"} => U[s.row] = s.values
  OBVIOUS
<1> HIDE DEF q, V
<1>7. /\ AreTables(U) /\ DOMAIN Transactions(U) = DOMAIN Transactions(V)
      /\ Asked(U, p.cover) = Q
  BY <1>0, <1>3, <1>6, RefilingAsks DEF V
<1>8. Proved!IsTable(T) /\ DOMAIN T = DOMAIN Transactions(V)
  BY <1>0, <1>3, NamedTransactions
<1>9. DOMAIN N = DOMAIN T /\ N = [i \in DOMAIN N |-> N[i]]
  BY <1>7, <1>8, NamedTransactions
<1>10. Null \notin DOMAIN Q /\ Proved!IsSequence(Q)
  <2>1. Proved!IsSequence(Q)
    BY <1>0, <1>3, <1>4, TableRows, DesiredOfRows DEF Asked
  <2>2. QED
    BY <2>1, KeysAssumption, TxIdsAssumption DEF Proved!IsSequence, Proved!Keys
<1>11. Refiled(N, Q, G) = Refiled(T, Q, G)
  <2> HIDE DEF G
  <2>1. QED
    BY <1>8, <1>9, <1>10, RefiledAfterDeletion
<1>12. Mine(p) <=> Mine(q)
  BY <1>1, <1>6 DEF Mine, Locating
<1>13. LeftToWrite(p, db, N, Q)
  <2>1. \A W : Rest(p, W, Q) = Rest(q, W, Q)
    <3>1. p.id = q.id /\ p.row = q.row /\ p.date = q.date /\ p.then = q.then
      BY <1>6
    <3>2. QED
      BY <3>1, SameRest
  <2>2. QED
    BY <1>5, <1>6, <1>11, <1>12, <2>1 DEF LeftToWrite
<1>14. DeletesOthers(p.got, Q)
  <2>1. /\ Len(Tail(q.got)) = Len(q.got) - 1 /\ Len(q.got) \in Nat
        /\ \A n \in 1..Len(Tail(q.got)) : Tail(q.got)[n] = q.got[n + 1]
    BY <1>1, <1>4, HeadTailProperties, LenProperties
  <2>2. \A n \in 1..Len(Tail(q.got)) : n + 1 \in 1..Len(q.got)
    BY <2>1
  <2>3. ASSUME NEW n \in 1..Len(Tail(q.got)), Tail(q.got)[n].op = "delete"
        PROVE  \A r \in Tail(q.got)[n].rows : r[2] \notin DOMAIN Q
    <3>1. q.got[n + 1].op = "delete" /\ Tail(q.got)[n].rows = q.got[n + 1].rows
      BY <2>1, <2>3
    <3>2. \A r \in q.got[n + 1].rows : r[2] \notin DOMAIN Q
      BY <1>5, <2>2, <3>1 DEF DeletesOthers
    <3>3. QED
      BY <3>1, <3>2
  <2>4. QED
    BY <1>6, <2>3 DEF DeletesOthers
<1>15. Sound(p, U)
  <2>1. Mine(p) => U[Row(p.id)].kind = p.row.kind
    <3>1. SUFFICES ASSUME Mine(p) PROVE U[Row(p.id)].kind = q.row.kind
      BY <1>6
    <3>2. q.id \in TxIds /\ V[Row(q.id)].kind = q.row.kind
      BY <1>3, <1>4, <1>12, <3>1, MineIsThere
    <3>3. Row(q.id) \in DOMAIN rows => rows[Row(q.id)].kind = V[Row(q.id)].kind
      BY <1>0, <3>2 DEF Refiles
    <3>4. U[Row(q.id)] = IF Row(q.id) \in DOMAIN rows THEN rows[Row(q.id)] ELSE V[Row(q.id)]
      <4>1. Row(q.id) \in DOMAIN V
        BY <1>3, <3>2, KeysApart DEF AreTables
      <4>2. QED
        BY <1>0, <4>1 DEF Over
    <3>5. QED
      BY <1>6, <3>2, <3>3, <3>4
  <2>2. QED
    BY <1>4, <1>6, <2>1 DEF Sound
<1>16. OneWrite(p, U)
  <2> SUFFICES ASSUME ~ q.atomic PROVE OneWrite(p, U)
    BY <1>6 DEF OneWrite
  <2>1. /\ DOMAIN Transactions(V) = {} /\ q.then # <<"locate", "commit">>
        /\ Tail(q.got) = <<>>
    BY <1>1, <1>3 DEF OneWrite
  <2>2. QED
    BY <1>6, <1>7, <2>1 DEF OneWrite
<1>17. Lone(p, db, U)
  BY <1>6, <1>7, <1>13, <1>14, <1>15, <1>16 DEF Lone, LeadsToStep
<1>18. ASSUME ~ q.atomic
       PROVE  Becoming(db, Over(rows, db)) /\ Lone(p, Over(rows, db), Over(rows, db))
  <2>1. DOMAIN q.mine = {} /\ q.id = 0
    BY <1>3, <1>18 DEF HasWritten, IsRequest, HasRow
  <2>2. V = db /\ U = Over(rows, db)
    <3>1. DOMAIN q.mine = {} /\ db = [key \in Keys |-> db[key]]
      BY <1>3, <2>1 DEF AreTables
    <3>2. V = db
      BY <1>3, <3>1, OverNothing
    <3>3. QED
      BY <1>0, <3>2
  <2>3. /\ DOMAIN Transactions(V) = {} /\ q.then # <<"locate", "commit">>
        /\ Tail(q.got) = <<>>
    BY <1>1, <1>3, <1>18 DEF OneWrite
  <2>4. s.op = "create"
    BY <1>0, <1>1, <1>3, <1>18 DEF OneWrite
  <2>5. PICK R : IsRowwise(R, Q) /\ Leads(q.got, V, R)
    BY <1>0, <1>1, <1>2 DEF Underway, RightSoFar
  <2>6. IsRowwise(Periods(U), Q)
    <3>1. \A r \in PeriodRows : U[r] = V[r] \/ r = s.row
      <4>1. DOMAIN V = Keys
        BY <1>3 DEF AreTables
      <4>2. \A r \in PeriodRows : r \notin DOMAIN rows => U[r] = V[r]
        BY <1>0, <4>1, KeysApart DEF Over
      <4>3. QED
        BY <2>4, <4>2
    <3>2. DOMAIN R \subseteq PeriodRows /\ U[s.row] = s.values
      BY <1>0, <2>4, <2>5 DEF IsRowwise
    <3>3. Leads(Tail(q.got), U, R)
      BY <1>1, <1>4, <2>4, <2>5, <3>1, <3>2, <1>0, LeadsOn
    <3>4. QED
      BY <1>7, <1>10, <2>3, <2>5, <3>3, LeadsThere
  <2>7. PeriodsOf(U) = Q
    <3>1. Q = [k \in DOMAIN Q |-> Q[k]]
      BY DEF Asked, DesiredPeriods
    <3>2. QED
      BY <1>7, <2>6, <3>1, RowwisePeriods
  <2>8. OneRowEach(U)
    BY <2>6 DEF IsRowwise, OneRowEach
  <2>9. Refiled(N, Q, G) = N
    <3>1. DOMAIN N = {}
      BY <1>8, <1>9, <2>3
    <3> HIDE DEF G
    <3>2. QED
      BY <1>9, <3>1 DEF Refiled
  <2>10. Rest(p, N, Q) = Both(N, Q)
    BY <1>6, <2>1, <2>3 DEF Rest, Finding, Placing
  <2>11. Ends(db, Both(N, Q))
    BY <1>6, <1>13, <2>9, <2>10 DEF LeftToWrite
  <2>12. Becoming(db, U)
    BY <2>7, <2>8, <2>11, EndsBoth DEF Becoming
  <2>13. Ends(U, Both(N, Q))
    <3>1. IsStep(N, Q, N, Q)
      BY DEF IsStep
    <3>2. QED
      BY <2>7, <3>1, EndsBoth
  <2>14. LeftToWrite(p, U, N, Q)
    <3>1. ~ Mine(p)
      BY <1>6, <2>1 DEF Mine
    <3>2. QED
      BY <1>6, <2>9, <2>10, <2>13, <3>1 DEF LeftToWrite
  <2>15. Lone(p, U, U)
    BY <1>6, <1>7, <1>14, <1>15, <1>16, <2>14 DEF Lone, LeadsToStep
  <2>16. QED
    BY <2>2, <2>12, <2>15
<1>19. QED
  BY <1>0, <1>1, <1>6, <1>17, <1>18, LoneWrites DEF q, V

\* What a row is once some have been written.
LEMMA OverAt ==
  ASSUME NEW V, AreTables(V), NEW rows, AreRows(rows), NEW U, U = Over(rows, V)
  PROVE  \A key \in Keys : U[key] = IF key \in DOMAIN rows THEN rows[key] ELSE V[key]
<1>1. DOMAIN V = Keys
  BY DEF AreTables
<1>2. QED
  BY <1>1 DEF Over

\* Transactions whose rows stay are the ones they were.
LEMMA SameNamed ==
  ASSUME NEW V, AreTables(V), NEW U, AreTables(U), NEW i \in DOMAIN Transactions(V),
         U[Row(i)] = V[Row(i)], NEW T, T = TransactionsOf(V), NEW N, N = TransactionsOf(U)
  PROVE  N[i] = T[i]
<1>1. i \in DOMAIN Transactions(U)
  BY TableRows DEF Transactions
<1>2. T[i] = [V[Row(i)] EXCEPT !.period = KeyOf(V[Row(i)].period)]
  <2>1. i \in DOMAIN T
    BY NamedTransactions
  <2>2. QED
    BY <2>1, NamedTransactions
<1>3. N[i] = [U[Row(i)] EXCEPT !.period = KeyOf(U[Row(i)].period)]
  <2>1. i \in DOMAIN N
    BY <1>1, NamedTransactions
  <2>2. QED
    BY <2>1, NamedTransactions
<1>4. QED
  BY <1>2, <1>3

\* A row that is filed with another period is the transaction filed with its key.
LEMMA FiledNamed ==
  ASSUME NEW V, AreTables(V), NEW U, AreTables(U), NEW i \in DOMAIN Transactions(V),
         i \in DOMAIN Transactions(U), NEW r, r = Null \/ r \in PeriodRows,
         U[Row(i)] = FiledWith(V[Row(i)], r),
         NEW T, T = TransactionsOf(V), NEW N, N = TransactionsOf(U)
  PROVE  N[i] = FiledWith(T[i], KeyOf(r))
<1>1. i \in DOMAIN T /\ i \in DOMAIN N
  BY NamedTransactions
<1>2. /\ V[Row(i)] \in TransactionRow
      /\ T[i] = [V[Row(i)] EXCEPT !.period = KeyOf(V[Row(i)].period)]
  BY <1>1, NamedTransactions
<1>3. N[i] = [U[Row(i)] EXCEPT !.period = KeyOf(U[Row(i)].period)]
  BY <1>1, NamedTransactions
<1>4. U[Row(i)].period = r
  BY <1>2 DEF TransactionRow, FiledWith
<1>5. FiledWith(FiledWith(V[Row(i)], r), KeyOf(r)) = FiledWith(T[i], KeyOf(r))
  BY <1>2 DEF TransactionRow, FiledWith
<1>6. QED
  BY <1>3, <1>4, <1>5 DEF FiledWith

\* Periods whose rows stay are the ones they were.
LEMMA SamePeriodRows ==
  ASSUME NEW V, AreTables(V), NEW U, \A r \in PeriodRows : U[r] = V[r]
  PROVE  Periods(U) = Periods(V) /\ PeriodsOf(U) = PeriodsOf(V)
<1>1. Periods(U) = Periods(V)
  BY DEF Periods
<1>2. PeriodsOf(U) = PeriodsOf(V)
  <2> DEFINE row(k) == CHOOSE s \in DOMAIN Periods(V) : s[2] = k
             keys == {s[2] : s \in DOMAIN Periods(V)}
  <2>1. \A k \in keys : row(k) \in DOMAIN Periods(V)
    OBVIOUS
  <2>2. DOMAIN Periods(V) \subseteq PeriodRows
    BY TableRows
  <2>3. \A k \in keys : U[row(k)] = V[row(k)]
    BY <2>1, <2>2
  <2>4. PeriodsOf(U) = [k \in keys |-> U[row(k)]] /\ PeriodsOf(V) = [k \in keys |-> V[row(k)]]
    BY <1>1 DEF PeriodsOf
  <2> HIDE DEF row, keys
  <2>5. QED
    BY <2>3, <2>4
<1>3. QED
  BY <1>1, <1>2

LEMMA OnePeriodWritten ==
  ASSUME NEW V, AreTables(V), RefersToRows(V), NEW r \in PeriodRows, NEW value \in PeriodRow,
         NEW rows, AreRows(rows), Refiles(rows, V), DOMAIN rows = {r}, rows[r] = value,
         NEW U, U = Over(rows, V),
         NEW T, T = TransactionsOf(V), NEW N, N = TransactionsOf(U)
  PROVE  RefersToRows(U) /\ \A i \in DOMAIN T : N[i] = T[i]
<1>2. AreTables(U) /\ DOMAIN Transactions(U) = DOMAIN Transactions(V)
  BY RefilingAsks
<1>3. \A key \in Keys : U[key] = IF key = r THEN value ELSE V[key]
  BY OverAt
<1>4. ASSUME NEW i \in DOMAIN Transactions(V)
      PROVE  U[Row(i)] = V[Row(i)]
  <2>1. i \in TxIds
    BY TableRows DEF Transactions
  <2>2. Row(i) \in Keys /\ Row(i) # r
    BY <2>1, KeysApart
  <2>3. QED
    BY <1>3, <2>2
<1>5. DOMAIN Periods(V) \subseteq DOMAIN Periods(U)
  <2>1. value # Absent
    BY RebuildRowsAssumption
  <2>2. \A s \in PeriodRows : V[s] # Absent => U[s] # Absent
    BY <1>3, <2>1, KeysApart
  <2>3. QED
    BY <2>2 DEF Periods
<1>6. RefersToRows(U)
  BY <1>2, <1>4, <1>5 DEF RefersToRows
<1>7. ASSUME NEW i \in DOMAIN T PROVE N[i] = T[i]
  <2>1. i \in DOMAIN Transactions(V)
    BY NamedTransactions
  <2>2. U[Row(i)] = V[Row(i)]
    BY <1>4, <2>1
  <2>3. QED
    BY <1>2, <2>1, <2>2, SameNamed
<1>8. QED
  BY <1>6, <1>7

LEMMA DeletionNamed ==
  ASSUME NEW V, AreTables(V), RefersToRows(V), NEW gone \in SUBSET PeriodRows,
         NEW rows, rows = DeletedPeriods(V, gone), NEW U, U = Over(rows, V),
         NEW T, T = TransactionsOf(V), NEW N, N = TransactionsOf(U)
  PROVE  /\ RefersToRows(U)
         /\ \A i \in DOMAIN T :
               \/ N[i] = T[i]
               \/ (\E r \in gone : T[i].period = r[2]) /\ N[i] = FiledWith(T[i], Null)
<1>1. /\ AreRows(rows) /\ Refiles(rows, V)
      /\ DOMAIN rows \intersect PeriodRows = gone
  BY DeletionRefiles
<1>2. AreTables(U) /\ DOMAIN Transactions(U) = DOMAIN Transactions(V)
  BY <1>1, RefilingAsks
<1>3. \A key \in Keys : U[key] = IF key \in DOMAIN rows THEN rows[key] ELSE V[key]
  BY <1>1, OverAt
<1>4. ASSUME NEW i \in DOMAIN Transactions(V)
      PROVE  U[Row(i)] = IF V[Row(i)].period \in gone THEN FiledWith(V[Row(i)], Null)
                         ELSE V[Row(i)]
  <2> DEFINE left == {Row(j) : j \in {j \in DOMAIN Transactions(V) : V[Row(j)].period \in gone}}
  <2>1. i \in TxIds /\ Row(i) \in Keys /\ Row(i) \notin gone
    BY KeysApart, TableRows DEF Transactions
  <2>2. rows = [key \in gone \union left |->
                   IF key \in gone THEN Absent ELSE [V[key] EXCEPT !.period = Null]]
    BY DEF DeletedPeriods
  <2>3. Row(i) \in left <=> V[Row(i)].period \in gone
    BY KeysApart
  <2> HIDE DEF left
  <2>4. CASE V[Row(i)].period \in gone
    <3>1. Row(i) \in DOMAIN rows
      BY <2>2, <2>3, <2>4
    <3>2. rows[Row(i)] = FiledWith(V[Row(i)], Null)
      BY <2>1, <2>2, <2>3, <2>4 DEF FiledWith
    <3>3. QED
      BY <1>3, <2>1, <2>4, <3>1, <3>2
  <2>5. CASE V[Row(i)].period \notin gone
    <3>1. Row(i) \notin DOMAIN rows
      BY <2>1, <2>2, <2>3, <2>5
    <3>2. QED
      BY <1>3, <2>1, <2>5, <3>1
  <2>6. QED
    BY <2>4, <2>5
<1>5. \A r \in DOMAIN Periods(V) \ gone : r \in DOMAIN Periods(U)
  <2>1. \A r \in PeriodRows \ gone : U[r] = V[r]
    BY <1>1, <1>3, KeysApart
  <2>2. QED
    BY <2>1 DEF Periods
<1>6. \A i \in DOMAIN Transactions(V) : V[Row(i)] \in TransactionRow
  BY TableRows
<1>7. \A row \in TransactionRow : FiledWith(row, Null).period = Null
  BY DEF TransactionRow, FiledWith
<1>8. RefersToRows(U)
  <2>1. SUFFICES ASSUME NEW i \in DOMAIN Transactions(V)
                 PROVE  U[Row(i)].period = Null \/ U[Row(i)].period \in DOMAIN Periods(U)
    BY <1>2 DEF RefersToRows
  <2>2. CASE V[Row(i)].period \in gone
    BY <1>4, <1>6, <1>7, <2>2
  <2>3. CASE V[Row(i)].period \notin gone
    <3>1. U[Row(i)] = V[Row(i)]
      BY <1>4, <2>3
    <3>2. V[Row(i)].period = Null \/ V[Row(i)].period \in DOMAIN Periods(V)
      BY DEF RefersToRows
    <3>3. QED
      BY <1>5, <2>3, <3>1, <3>2
  <2>4. QED
    BY <2>2, <2>3
<1>9. ASSUME NEW i \in DOMAIN T
      PROVE  \/ N[i] = T[i]
             \/ (\E r \in gone : T[i].period = r[2]) /\ N[i] = FiledWith(T[i], Null)
  <2>1. /\ i \in DOMAIN Transactions(V) /\ V[Row(i)] \in TransactionRow
        /\ T[i] = [V[Row(i)] EXCEPT !.period = KeyOf(V[Row(i)].period)]
        /\ T[i].period = KeyOf(V[Row(i)].period)
    BY NamedTransactions
  <2>2. CASE V[Row(i)].period \in gone
    <3>1. U[Row(i)] = FiledWith(V[Row(i)], Null)
      BY <1>4, <2>1, <2>2
    <3>2. T[i].period = V[Row(i)].period[2]
      <4>1. V[Row(i)].period # Null
        BY <2>2, RebuildRowsAssumption
      <4>2. QED
        BY <2>1, <4>1 DEF KeyOf
    <3>3. N[i] = FiledWith(T[i], KeyOf(Null))
      BY <1>2, <2>1, <3>1, FiledNamed
    <3>4. QED
      BY <2>2, <3>2, <3>3 DEF KeyOf
  <2>3. CASE V[Row(i)].period \notin gone
    <3>1. U[Row(i)] = V[Row(i)]
      BY <1>4, <2>1, <2>3
    <3>2. QED
      BY <1>2, <2>1, <3>1, SameNamed
  <2>4. QED
    BY <2>2, <2>3
<1>10. QED
  BY <1>8, <1>9

LEMMA LoneWritesPeriod ==
  ASSUME RebuildInv, LoneInv, OneByOne, NEW c \in Clients, WritePeriod(c)
  PROVE  LoneInv' /\ Becoming(db, db')
<1> DEFINE q == tx[c]
           s == Head(q.got)
           p == [q EXCEPT !.got = Tail(@)]
           V == Seen(c)
           T == TransactionsOf(V)
           Q == Asked(V, q.cover)
           gone == {r \in s.rows : V[r] # Absent}
           parked == [r \in {s.row} |-> [V[r] EXCEPT !.start = s.start]]
           values == [r \in {s.row} |-> s.values]
<1>1. /\ At(c, "writes") /\ q # Idle /\ q.got # <<>> /\ q.at = "writes"
      /\ \/ s.op = "delete" /\ Write(c, DeletedPeriods(V, gone), p)
         \/ s.op = "park" /\ V[s.row] # Absent /\ Write(c, parked, p)
         \/ s.op \in {"update", "create"} /\ Write(c, values, p)
  BY DEF WritePeriod, At
<1>2. /\ AreTables(V) /\ RefersToRows(V) /\ IsRequest(q) /\ DOMAIN q = Fields
      /\ LeadsToStep(q, db, V)
  <2>1. Underway(q, db, V) /\ DOMAIN q = Fields
    BY <1>1, OfLone
  <2>2. QED
    BY <2>1 DEF Underway, Lone, Sound
<1>3. q.got \in Seq(Statements)
  BY <1>1, <1>2 DEF IsRequest, HasRead
<1>4. s \in Statements
  BY <1>1, <1>3, HeadTailProperties
<1>5. s.op = "delete" => \A r \in s.rows : r[2] \notin DOMAIN Q
  <2>1. DeletesOthers(q.got, Q)
    BY <1>1, <1>2 DEF LeadsToStep
  <2>2. 1 \in 1..Len(q.got) /\ q.got[1] = s
    <3>1. Len(q.got) \in Nat /\ Len(q.got) # 0
      BY <1>1, <1>3, LenProperties, EmptySeq
    <3>2. QED
      BY <1>1, <1>3, <3>1
  <2> HIDE DEF s, Q
  <2>3. QED
    BY <2>1, <2>2 DEF DeletesOthers
<1>6. /\ DOMAIN p = Fields /\ p.got = Tail(q.got)
      /\ p.at = q.at /\ p.then = q.then /\ p.id = q.id /\ p.row = q.row
      /\ p.date = q.date /\ p.cover = q.cover /\ p.atomic = q.atomic
      /\ p.from = q.from /\ p.mine = q.mine /\ p.alone = q.alone
  BY <1>2 DEF Fields
<1>0. T = TransactionsOf(V) /\ Q = Asked(V, q.cover) /\ s = Head(q.got) /\ V = Seen(c) /\ q = tx[c]
  OBVIOUS
<1> HIDE DEF p, s, T, Q, V
<1>7. ASSUME NEW rows, AreRows(rows), Refiles(rows, V), Write(c, rows, p),
             \A r \in DOMAIN rows \intersect PeriodRows :
                 s.op \in {"update", "create"} => r = s.row,
             s.op \in {"update", "create"} => Over(rows, V)[s.row] = s.values,
             RefersToRows(Over(rows, V)),
             \A i \in DOMAIN T :
                \/ TransactionsOf(Over(rows, V))[i] = T[i]
                \/ /\ T[i].period \notin DOMAIN Q
                   /\ TransactionsOf(Over(rows, V))[i] = FiledWith(T[i], Null)
      PROVE  LoneInv' /\ Becoming(db, db')
  <2> DEFINE U == Over(rows, V)
             N == TransactionsOf(U)
  <2>1. /\ U = Over(rows, V) /\ N = TransactionsOf(U) /\ RefersToRows(U)
        /\ s.op \in {"update", "create"} => U[s.row] = s.values
        /\ \A i \in DOMAIN T :
                \/ N[i] = T[i]
                \/ T[i].period \notin DOMAIN Q /\ N[i] = FiledWith(T[i], Null)
    BY <1>7
  <2> HIDE DEF U, N
  <2>2. /\ At(c, "writes") /\ tx[c].got # <<>> /\ s = Head(tx[c].got)
        /\ Refiles(rows, Seen(c))
        /\ DOMAIN p = Fields /\ p.got = Tail(tx[c].got)
        /\ p.at = tx[c].at /\ p.then = tx[c].then /\ p.id = tx[c].id /\ p.row = tx[c].row
        /\ p.date = tx[c].date /\ p.cover = tx[c].cover /\ p.atomic = tx[c].atomic
        /\ p.from = tx[c].from /\ p.mine = tx[c].mine /\ p.alone = tx[c].alone
        /\ Write(c, rows, p)
        /\ s.op \in {"update", "create"} => Over(rows, Seen(c))[s.row] = s.values
        /\ U = Over(rows, Seen(c)) /\ T = TransactionsOf(Seen(c)) /\ Q = Asked(Seen(c), tx[c].cover)
    BY <1>0, <1>1, <1>6, <1>7, <2>1
  <2>3. QED
    BY <1>7, <2>1, <2>2, LonePeriodWritten
<1>8. CASE s.op = "delete" /\ Write(c, DeletedPeriods(V, gone), p)
  <2>1. gone \in SUBSET PeriodRows /\ \A r \in gone : r[2] \notin DOMAIN Q
    BY <1>4, <1>5, <1>8 DEF Statements
  <2> DEFINE rows == DeletedPeriods(V, gone)
             U == Over(rows, V)
             N == TransactionsOf(U)
  <2>2. rows = DeletedPeriods(V, gone) /\ U = Over(rows, V) /\ N = TransactionsOf(U)
    OBVIOUS
  <2> HIDE DEF rows, U, N, gone
  <2>3. AreRows(rows) /\ Refiles(rows, V)
    BY <1>2, <2>1, <2>2, DeletionRefiles
  <2>4. /\ RefersToRows(U)
        /\ \A i \in DOMAIN T :
               \/ N[i] = T[i]
               \/ (\E r \in gone : T[i].period = r[2]) /\ N[i] = FiledWith(T[i], Null)
    BY <1>0, <1>2, <2>1, <2>2, DeletionNamed
  <2>5. \A i \in DOMAIN T :
               \/ N[i] = T[i]
               \/ T[i].period \notin DOMAIN Q /\ N[i] = FiledWith(T[i], Null)
    BY <2>1, <2>4
  <2>6. Write(c, rows, p)
    BY <1>8, <2>2
  <2>7. QED
    BY <1>7, <1>8, <2>2, <2>3, <2>4, <2>5, <2>6
<1>9. ASSUME NEW value \in PeriodRow, s.row \in PeriodRows,
             Write(c, [r \in {s.row} |-> value], p),
             s.op \in {"update", "create"} => value = s.values
      PROVE  LoneInv' /\ Becoming(db, db')
  <2> DEFINE rows == [r \in {s.row} |-> value]
             U == Over(rows, V)
             N == TransactionsOf(U)
  <2>1. rows = [r \in {s.row} |-> value] /\ U = Over(rows, V) /\ N = TransactionsOf(U)
    OBVIOUS
  <2>2. DOMAIN rows = {s.row} /\ rows[s.row] = value
    OBVIOUS
  <2> HIDE DEF rows, U, N
  <2>3. AreRows(rows) /\ Refiles(rows, V) /\ Over(rows, V)[s.row] = value
    BY <1>2, <1>9, <2>1, OneRowOver
  <2>4. RefersToRows(U) /\ \A i \in DOMAIN T : N[i] = T[i]
    <3>1. /\ AreTables(V) /\ RefersToRows(V) /\ s.row \in PeriodRows /\ value \in PeriodRow
          /\ AreRows(rows) /\ Refiles(rows, V) /\ DOMAIN rows = {s.row} /\ rows[s.row] = value
          /\ U = Over(rows, V) /\ T = TransactionsOf(V) /\ N = TransactionsOf(U)
      BY <1>0, <1>2, <1>9, <2>1, <2>2, <2>3
    <3>2. QED
      BY <3>1, OnePeriodWritten
  <2>5. Write(c, rows, p)
    BY <1>9, <2>1
  <2>6. QED
    BY <1>7, <1>9, <2>1, <2>2, <2>3, <2>4, <2>5
<1>10. CASE s.op = "park" /\ V[s.row] # Absent /\ Write(c, parked, p)
  <2>1. s.row \in PeriodRows /\ s.start \in Int
    BY <1>4, <1>10 DEF Statements
  <2>2. V[s.row] \in PeriodRow
    BY <1>2, <1>10, <2>1, TableRows
  <2>3. [V[s.row] EXCEPT !.start = s.start] \in PeriodRow
    BY <2>1, <2>2 DEF PeriodRow
  <2>4. parked = [r \in {s.row} |-> [V[s.row] EXCEPT !.start = s.start]]
    OBVIOUS
  <2> HIDE DEF parked
  <2>5. QED
    BY <1>9, <1>10, <2>1, <2>3, <2>4
<1>11. CASE s.op \in {"update", "create"} /\ Write(c, values, p)
  <2>1. s.row \in PeriodRows /\ s.values \in PeriodRow
    BY <1>4, <1>11 DEF Statements
  <2>2. QED
    BY <1>9, <1>11, <2>1
<1>12. QED
  BY <1>1, <1>8, <1>10, <1>11 DEF V, p, s

-----------------------------------------------------------------------------
(* The transactions a request on its own files *)

\* Nothing is left to do.
LEMMA LoneDone ==
  ASSUME NEW p, p.at = "commit", p.then = <<>>, p.from \in Nat, NEW D, NEW V,
         RefersToRows(V), OneRowEach(V),
         Proved!IsSequence(PeriodsOf(V)), Proved!Partition(PeriodsOf(V)),
         Ends(D, Both(TransactionsOf(V), PeriodsOf(V)))
  PROVE  Lone(p, D, V)
<1>1. ~ Mine(p)
  <2>1. Len(p.then) = 0
    OBVIOUS
  <2>2. p.then \notin {<<"rebuild", "locate", "commit">>, <<"locate", "commit">>,
                       <<"find", "commit">>}
    BY <2>1
  <2>3. QED
    BY <2>2 DEF Mine, Locating
<1>2. Sound(p, V)
  BY <1>1 DEF Sound
<1>3. p.then # <<"locate", "commit">>
  <2>1. Len(p.then) = 0
    OBVIOUS
  <2>2. QED
    BY <2>1
<1>4. OneWrite(p, V)
  BY <1>3 DEF OneWrite
<1>5. LeadsToStep(p, D, V)
  BY DEF LeadsToStep
<1>6. QED
  BY <1>2, <1>4, <1>5 DEF Lone

\* The rows file the transactions `moved` of V with the period r.
Files(rows, V, moved, r) ==
    /\ moved \subseteq DOMAIN Transactions(V)
    /\ r \in DOMAIN Periods(V)
    /\ \A key \in DOMAIN rows : \E i \in moved : key = Row(i)
    /\ \A i \in moved : Row(i) \in DOMAIN rows /\ rows[Row(i)] = FiledWith(V[Row(i)], r)

LEMMA FiledRows ==
  ASSUME NEW V, AreTables(V), RefersToRows(V), NEW moved, NEW r,
         NEW rows, Files(rows, V, moved, r),
         NEW U, U = Over(rows, V),
         NEW T, T = TransactionsOf(V), NEW N, N = TransactionsOf(U)
  PROVE  /\ AreRows(rows) /\ Refiles(rows, V) /\ AreTables(U) /\ RefersToRows(U)
         /\ Periods(U) = Periods(V) /\ PeriodsOf(U) = PeriodsOf(V)
         /\ DOMAIN N = DOMAIN T
         /\ \A i \in DOMAIN T : N[i] = IF i \in moved THEN FiledWith(T[i], r[2]) ELSE T[i]
<1>0. /\ moved \subseteq DOMAIN Transactions(V) /\ r \in DOMAIN Periods(V)
      /\ \A key \in DOMAIN rows : \E i \in moved : key = Row(i)
      /\ \A i \in moved : Row(i) \in DOMAIN rows /\ rows[Row(i)] = FiledWith(V[Row(i)], r)
  BY DEF Files
<1>1. /\ r \in PeriodRows
      /\ \A i \in DOMAIN Transactions(V) : /\ i \in TxIds /\ V[Row(i)] # Absent
                                           /\ V[Row(i)] \in TransactionRow
  BY <1>0, TableRows DEF Transactions
<1>2. \A i \in moved : /\ rows[Row(i)] \in TransactionRow /\ rows[Row(i)].period = r
                       /\ rows[Row(i)].date = V[Row(i)].date
                       /\ rows[Row(i)].kind = V[Row(i)].kind
  <2>1. \A row \in TransactionRow : /\ FiledWith(row, r) \in TransactionRow
                                     /\ FiledWith(row, r).period = r
                                     /\ FiledWith(row, r).date = row.date
                                     /\ FiledWith(row, r).kind = row.kind
    BY <1>1 DEF TransactionRow, FiledWith
  <2>2. QED
    BY <1>0, <1>1, <2>1
<1>3. \A i \in TxIds : Row(i) \in DOMAIN rows <=> i \in moved
  BY <1>0, KeysApart
<1>4. AreRows(rows)
  <2>1. \A key \in DOMAIN rows : \E i \in moved : key = Row(i)
    BY <1>0
  <2>2. QED
    BY <1>0, <1>1, <1>2, <2>1, KeysApart DEF AreRows, RowOf
<1>5. Refiles(rows, V)
  BY <1>0, <1>1, <1>2, <1>3 DEF Refiles
<1>6. AreTables(U) /\ DOMAIN Transactions(U) = DOMAIN Transactions(V)
  BY <1>4, <1>5, RefilingAsks
<1>7. \A key \in Keys : U[key] = IF key \in DOMAIN rows THEN rows[key] ELSE V[key]
  BY <1>4, OverAt
<1>8. /\ \A i \in DOMAIN Transactions(V) :
            U[Row(i)] = IF i \in moved THEN FiledWith(V[Row(i)], r) ELSE V[Row(i)]
      /\ \A s \in PeriodRows : U[s] = V[s]
  <2>1. \A i \in DOMAIN Transactions(V) : Row(i) \in Keys
    BY <1>1, KeysApart
  <2>2. \A s \in PeriodRows : s \in Keys /\ s \notin DOMAIN rows
    BY <1>0, KeysApart
  <2>3. QED
    BY <1>0, <1>1, <1>3, <1>7, <2>1, <2>2
<1>9. Periods(U) = Periods(V) /\ PeriodsOf(U) = PeriodsOf(V)
  BY <1>6, <1>8, SamePeriodRows
<1>11. RefersToRows(U)
  <2>1. SUFFICES ASSUME NEW i \in DOMAIN Transactions(V)
                 PROVE  U[Row(i)].period = Null \/ U[Row(i)].period \in DOMAIN Periods(U)
    BY <1>6 DEF RefersToRows
  <2>2. CASE i \in moved
    <3>1. U[Row(i)].period = r
      BY <1>1, <1>8, <2>2 DEF TransactionRow, FiledWith
    <3>2. QED
      BY <1>0, <1>9, <3>1
  <2>3. CASE i \notin moved
    <3>1. U[Row(i)] = V[Row(i)]
      BY <1>8, <2>3
    <3>2. QED
      BY <1>9, <3>1 DEF RefersToRows
  <2>4. QED
    BY <2>2, <2>3
<1>12. DOMAIN T = DOMAIN Transactions(V) /\ DOMAIN N = DOMAIN T
  BY <1>6, NamedTransactions
<1>13. ASSUME NEW i \in DOMAIN T
       PROVE  N[i] = IF i \in moved THEN FiledWith(T[i], r[2]) ELSE T[i]
  <2>1. /\ V[Row(i)] \in TransactionRow /\ i \in DOMAIN Transactions(V)
        /\ T[i] = [V[Row(i)] EXCEPT !.period = KeyOf(V[Row(i)].period)]
    BY NamedTransactions
  <2>2. CASE i \in moved
    <3>1. U[Row(i)] = FiledWith(V[Row(i)], r)
      BY <1>8, <2>1, <2>2
    <3>2. KeyOf(r) = r[2]
      BY <1>1, RebuildRowsAssumption DEF KeyOf
    <3>3. N[i] = FiledWith(T[i], KeyOf(r))
      BY <1>1, <1>6, <2>1, <3>1, FiledNamed
    <3>4. QED
      BY <2>2, <3>2, <3>3
  <2>3. CASE i \notin moved
    <3>1. U[Row(i)] = V[Row(i)]
      BY <1>8, <2>1, <2>3
    <3>2. N[i] = T[i]
      BY <1>6, <2>1, <3>1, SameNamed
    <3>3. QED
      BY <2>3, <3>2
  <2>4. QED
    BY <2>2, <2>3
<1>14. QED
  BY <1>4, <1>5, <1>6, <1>9, <1>11, <1>12, <1>13

LEMMA LoneAssigns ==
  ASSUME RebuildInv, LoneInv, OneByOne, NEW c \in Clients, AssignPeriod(c)
  PROVE  LoneInv' /\ Becoming(db, db')
<1> DEFINE q == tx[c]
           V == Seen(c)
           T == TransactionsOf(V)
           P == PeriodsOf(V)
           S == Periods(V)
           i == q.id
           p == Proceed(q)
           rows == [key \in {Row(i)} |-> [V[key] EXCEPT !.period = q.got]]
<1>1. /\ q # Idle /\ q.at = "assign"
      /\ IF i = 0 \/ q.row.period = q.got THEN Read(c, p) ELSE Write(c, rows, p)
  BY DEF AssignPeriod, At
<1>2. DOMAIN q = Fields /\ Underway(q, db, V)
  BY <1>1, OfLone
<1>3. /\ AreTables(V) /\ Sound(q, V) /\ LeadsToStep(q, db, V)
      /\ IsRequest(q) /\ HasWritten(q, q.mine) /\ V = Over(q.mine, db)
  BY <1>2 DEF Underway, Lone
<1>4. /\ OneRowEach(V) /\ Proved!IsSequence(P) /\ Proved!Partition(P)
      /\ RefersToRows(V) /\ q.from \in Nat
      /\ (Mine(q) /\ ~ q.rebuilt) => q.row.period = V[Row(i)].period
      /\ (Mine(q) /\ q.rebuilt) => Requests!InItsPeriod(T[i], P)
      /\ q.got \in CoveringKeys(S, q.date)
  BY <1>1, <1>3 DEF Sound
<1>5. /\ q.then = <<"commit">> /\ q.date \in Nat /\ (Mine(q) <=> i # 0)
      /\ i # 0 => q.atomic
  BY <1>1, <1>3 DEF IsRequest, InStep, HasRow, Mine, Locating
<1>6. Ends(db, Placing(q, T, P, q.got[2]))
  BY <1>1, <1>3 DEF LeadsToStep
<1>7. IsRowwise(S, P)
  BY <1>3, <1>4, OneRowTables
<1>8. /\ q.got \in DOMAIN S /\ q.got \in PeriodRows
      /\ q.got[2] \in CoveringKeys(P, q.date)
      /\ \A r \in DOMAIN S : r[2] = q.got[2] => r = q.got
      /\ q.got # Null /\ KeyOf(q.got) = q.got[2] /\ q.got[2] # Null
  <2>1. q.got \in DOMAIN S /\ q.got[2] \in CoveringKeys(P, q.date)
    BY <1>4, <1>7, RowwiseCovers
  <2>2. q.got \in PeriodRows /\ \A r \in DOMAIN S : r[2] = q.got[2] => r = q.got
    BY <1>7, <2>1 DEF IsRowwise
  <2>3. q.got # Null
    BY <2>2, RebuildRowsAssumption
  <2>4. q.got[2] # Null
    <3>1. q.got[2] \in TxIds \union {Bootstrap}
      BY <2>2, PeriodRowParts
    <3>2. QED
      BY <3>1, KeysAssumption, TxIdsAssumption
  <2> HIDE DEF q
  <2>5. QED
    BY <2>1, <2>2, <2>3, <2>4 DEF KeyOf
<1>9. DOMAIN q = Fields
  BY <1>2
<1>10. /\ DOMAIN p = Fields /\ p.at = "commit" /\ p.then = <<>>
       /\ p.from = q.from /\ p.mine = q.mine /\ p.atomic = q.atomic /\ p.alone = q.alone
  <2>1. /\ DOMAIN p = Fields
        /\ p.at = Head(q.then) /\ p.then = Tail(q.then)
        /\ p.from = q.from /\ p.mine = q.mine /\ p.atomic = q.atomic /\ p.alone = q.alone
    BY <1>9, ProceedFields
  <2>2. Head(q.then) = "commit" /\ Tail(q.then) = <<>>
    BY <1>5
  <2>3. QED
    BY <2>1, <2>2
<1>0. /\ q = tx[c] /\ V = Seen(c) /\ T = TransactionsOf(V) /\ P = PeriodsOf(V) /\ S = Periods(V)
      /\ rows = [key \in {Row(i)} |-> FiledWith(V[key], q.got)]
  BY DEF FiledWith
<1> HIDE DEF p, q, V, T, P, S
<1>11. CASE i = 0 \/ q.row.period = q.got
  <2>1. Placing(q, T, P, q.got[2]) = Both(T, P)
    BY <1>8, <1>11 DEF Placing
  <2>2. Lone(p, db, V)
    BY <1>0, <1>4, <1>6, <1>10, <2>1, LoneDone
  <2>3. Read(c, p)
    BY <1>1, <1>11
  <2>4. QED
    BY <1>0, <1>1, <1>10, <2>2, <2>3, LoneReads
<1>12. CASE i # 0 /\ q.row.period # q.got
  <2>1. /\ i \in DOMAIN T /\ T[i].date = q.date /\ i \in DOMAIN Transactions(V)
        /\ T[i] = [V[Row(i)] EXCEPT !.period = KeyOf(V[Row(i)].period)]
        /\ T[i].period = KeyOf(V[Row(i)].period)
    <3>1. i \in DOMAIN T /\ T[i].date = q.date
      BY <1>0, <1>3, <1>5, <1>12, MineIsThere
    <3>2. QED
      BY <1>0, <1>3, <3>1, NamedTransactions
  <2> DEFINE U == Over(rows, V)
             N == TransactionsOf(U)
             moved == {i}
  <2>2. /\ Files(rows, V, moved, q.got)
        /\ U = Over(rows, V) /\ N = TransactionsOf(U)
        /\ \A j : j \in moved <=> j = i
    <3>1. /\ moved \subseteq DOMAIN Transactions(V) /\ q.got \in DOMAIN Periods(V)
          /\ \A key \in DOMAIN rows : \E j \in moved : key = Row(j)
          /\ \A j \in moved : Row(j) \in DOMAIN rows /\ rows[Row(j)] = FiledWith(V[Row(j)], q.got)
      BY <1>0, <1>8, <2>1
    <3>2. QED
      BY <3>1 DEF Files
  <2>3. Write(c, rows, p)
    BY <1>1, <1>12
  <2> HIDE DEF rows, U, N, moved
  <2>4. /\ AreRows(rows) /\ Refiles(rows, V) /\ AreTables(U) /\ RefersToRows(U)
        /\ Periods(U) = Periods(V) /\ PeriodsOf(U) = PeriodsOf(V)
        /\ DOMAIN N = DOMAIN T
        /\ \A j \in DOMAIN T : N[j] = IF j \in moved THEN FiledWith(T[j], q.got[2]) ELSE T[j]
    <3>1. /\ AreTables(V) /\ RefersToRows(V) /\ Files(rows, V, moved, q.got)
          /\ U = Over(rows, V) /\ T = TransactionsOf(V) /\ N = TransactionsOf(U)
      BY <1>0, <1>3, <1>4, <2>2
    <3>2. QED
      BY <3>1, FiledRows
  <2>10. N = [j \in DOMAIN N |-> N[j]]
    BY <2>2, <2>4, NamedTransactions
  <2>11. T = [j \in DOMAIN T |-> T[j]]
    BY <1>0, <1>3, NamedTransactions
  <2>5. N = [T EXCEPT ![i].period = q.got[2]]
    <3>1. N = [j \in DOMAIN N |-> N[j]] /\ T = [j \in DOMAIN T |-> T[j]]
      BY <2>10, <2>11
    <3>2. N[i] = [T[i] EXCEPT !.period = q.got[2]] /\ \A j \in DOMAIN T : j # i => N[j] = T[j]
      BY <2>1, <2>2, <2>4 DEF FiledWith
    <3>3. QED
      BY <2>1, <2>4, <3>1, <3>2
  <2>6. Placing(q, T, P, q.got[2]) = Both(N, P)
    <3>1. CASE KeyOf(q.row.period) # q.got[2]
      BY <1>12, <2>5, <3>1 DEF Placing
    <3>2. CASE KeyOf(q.row.period) = q.got[2]
      <4>1. Placing(q, T, P, q.got[2]) = Both(T, P)
        BY <3>2 DEF Placing
      <4>2. q.rebuilt
        <5>1. SUFFICES ASSUME ~ q.rebuilt PROVE FALSE
          OBVIOUS
        <5>2. q.row.period = V[Row(i)].period
          BY <1>4, <1>5, <1>12, <5>1
        <5>3. q.row.period # Null
          BY <1>8, <3>2 DEF KeyOf
        <5>4. q.row.period \in DOMAIN S
          BY <1>0, <1>4, <2>1, <5>2, <5>3 DEF RefersToRows
        <5>5. q.row.period[2] = q.got[2]
          BY <3>2, <5>3 DEF KeyOf
        <5>6. QED
          BY <1>8, <1>12, <5>4, <5>5
      <4>3. T[i].period \in CoveringKeys(P, q.date)
        <5>1. Requests!InItsPeriod(T[i], P)
          BY <1>4, <1>5, <1>12, <4>2
        <5>2. T[i].period \in DOMAIN P /\ Covers(P[T[i].period], T[i].date)
          BY <5>1 DEF Requests!InItsPeriod, Requests!Covers, Covers
        <5>3. QED
          BY <2>1, <5>2 DEF CoveringKeys
      <4>4. T[i].period = q.got[2]
        <5>1. /\ T[i].period \in Proved!CoveringKeys(P, q.date)
              /\ q.got[2] \in Proved!CoveringKeys(P, q.date)
          BY <1>8, <4>3, SameCovering
        <5>2. QED
          BY <1>4, <1>5, <5>1, Proved!CoveredOnce, RowsAssumptions
      <4>5. N[i] = T[i]
        <5>1. N[i] = FiledWith(T[i], T[i].period)
          BY <2>1, <2>2, <2>4, <4>4
        <5>2. V[Row(i)] \in TransactionRow
          BY <1>3, <2>1, TableRows
        <5>3. QED
          BY <2>1, <5>1, <5>2 DEF FiledWith, TransactionRow
      <4>6. N = T
        <5>1. \A j \in DOMAIN T : N[j] = T[j]
          BY <2>2, <2>4, <4>5
        <5>2. QED
          BY <2>4, <2>10, <2>11, <5>1
      <4>7. QED
        BY <4>1, <4>6
    <3>3. QED
      BY <3>1, <3>2
  <2>7. Lone(p, db, U)
    <3>1. OneRowEach(U)
      BY <1>4, <2>4 DEF OneRowEach
    <3>2. Ends(db, Both(TransactionsOf(U), PeriodsOf(U)))
      BY <1>0, <1>6, <2>2, <2>4, <2>6
    <3>3. Proved!IsSequence(PeriodsOf(U)) /\ Proved!Partition(PeriodsOf(U))
      BY <1>0, <1>4, <2>4
    <3>4. QED
      BY <1>4, <1>10, <2>4, <3>1, <3>2, <3>3, LoneDone
  <2>8. q.atomic
    BY <1>5, <1>12
  <2>9. QED
    BY <1>0, <1>1, <1>10, <2>2, <2>3, <2>4, <2>7, <2>8, LoneWrites
<1>13. QED
  BY <1>11, <1>12

\* What is left of the rows read once r has been visited.
Without(rest, got, r) == r \in DOMAIN got /\ DOMAIN rest = DOMAIN got \ {r}

LEMMA LeftToVisit ==
  ASSUME NEW S, NEW P, IsRowwise(S, P), NEW got, DOMAIN got \subseteq DOMAIN S,
         NEW r, NEW rest, Without(rest, got, r), NEW G, G = ToVisit(P, got)
  PROVE  /\ ToVisit(P, rest) = Restrict(G, DOMAIN G \ {r[2]})
         /\ r[2] \in DOMAIN G /\ r[2] \in DOMAIN P
         /\ \A k \in DOMAIN G : k \in DOMAIN P /\ G[k] = P[k]
         /\ G[r[2]] = S[r]
<1> DEFINE keys == {s[2] : s \in DOMAIN got}
           left == {s[2] : s \in DOMAIN rest}
<1>1. /\ \A s \in DOMAIN S : s[2] \in DOMAIN P /\ S[s] = P[s[2]]
      /\ \A s, t \in DOMAIN S : s[2] = t[2] => s = t
      /\ r \in DOMAIN got /\ DOMAIN rest = DOMAIN got \ {r}
  BY DEF IsRowwise, Without
<1>2. keys \subseteq DOMAIN P /\ r[2] \in keys
  BY <1>1
<1>3. left = keys \ {r[2]}
  BY <1>1
<1>4. DOMAIN G = keys /\ \A k \in keys : G[k] = P[k]
  BY <1>2 DEF Restrict, ToVisit
<1> HIDE DEF keys, left
<1>5. Restrict(P, left) = Restrict(G, DOMAIN G \ {r[2]})
  BY <1>2, <1>3, <1>4 DEF Restrict
<1>6. QED
  BY <1>1, <1>2, <1>4, <1>5 DEF left, ToVisit

LEMMA LoneRefiles ==
  ASSUME RebuildInv, LoneInv, OneByOne, NEW c \in Clients, NEW q, q = tx[c],
         NEW V, V = Seen(c), q # Idle, q.at = "reassign",
         NEW r \in DOMAIN q.got, NEW moved,
         moved = {i \in DOMAIN Transactions(V) :
                    Covers(q.got[r], Transactions(V)[i].date) /\ Transactions(V)[i].period # r},
         NEW rows, Files(rows, V, moved, r),
         NEW p, DOMAIN p = Fields, p.at = q.at, p.then = q.then, p.id = q.id, p.row = q.row,
         p.date = q.date, p.cover = q.cover, p.atomic = q.atomic, p.from = q.from,
         p.mine = q.mine, p.alone = q.alone, p.rebuilt = q.rebuilt,
         DOMAIN p.got = DOMAIN q.got \ {r}, Write(c, rows, p)
  PROVE  LoneInv' /\ Becoming(db, db')
<1> DEFINE T == TransactionsOf(V)
           P == PeriodsOf(V)
           S == Periods(V)
           G == ToVisit(P, q.got)
           U == Over(rows, V)
           N == TransactionsOf(U)
<1>1. Underway(q, db, V) /\ q.alone
  BY OfLone
<1>2. /\ AreTables(V) /\ AreTables(db) /\ Sound(q, V) /\ OneWrite(q, V) /\ LeadsToStep(q, db, V)
      /\ IsRequest(q) /\ RightSoFar(q, V) /\ HasWritten(q, q.mine) /\ V = Over(q.mine, db)
  BY <1>1 DEF Underway, Lone
<1>3. /\ OneRowEach(V) /\ Proved!IsSequence(P) /\ Proved!Partition(P)
      /\ RefersToRows(V) /\ q.from \in Nat
      /\ Mine(q) => V[Row(q.id)].kind = q.row.kind
  BY <1>2 DEF Sound
<1>4. /\ q.rebuilt
      /\ \A s \in DOMAIN q.got : s \in DOMAIN S /\ q.got[s] = V[s]
  BY <1>2 DEF RightSoFar
<1>5. LeftToFile(q, db, T, P)
  BY <1>2 DEF LeadsToStep
<1>6. IsRowwise(S, P)
  BY <1>2, <1>3, OneRowTables
<1>0. /\ T = TransactionsOf(V) /\ P = PeriodsOf(V) /\ S = Periods(V)
      /\ G = ToVisit(P, q.got)
      /\ U = Over(rows, V) /\ N = TransactionsOf(U)
  OBVIOUS
<1> HIDE DEF T, P, S, G, U, N
<1>7. /\ ToVisit(P, p.got) = Restrict(G, DOMAIN G \ {r[2]})
      /\ r[2] \in DOMAIN G /\ r[2] \in DOMAIN P
      /\ \A k \in DOMAIN G : k \in DOMAIN P /\ G[k] = P[k]
      /\ G[r[2]] = S[r]
  <2> DEFINE got == q.got
             rest == p.got
  <2>1. DOMAIN got \subseteq DOMAIN S /\ Without(rest, got, r) /\ G = ToVisit(P, got)
    BY <1>0, <1>4 DEF Without
  <2> HIDE DEF got, rest
  <2>2. ToVisit(P, rest) = Restrict(G, DOMAIN G \ {r[2]})
    BY <1>6, <2>1, LeftToVisit
  <2>3. r[2] \in DOMAIN G /\ r[2] \in DOMAIN P
    BY <1>6, <2>1, <2>2, LeftToVisit
  <2>4. \A k \in DOMAIN G : k \in DOMAIN P /\ G[k] = P[k]
    BY <1>6, <2>1, <2>2, LeftToVisit
  <2>5. G[r[2]] = S[r]
    BY <1>6, <2>1, <2>2, LeftToVisit
  <2>6. QED
    BY <2>2, <2>3, <2>4, <2>5 DEF rest
<1>8. S[r] = V[r] /\ q.got[r] = V[r]
  BY <1>0, <1>2, <1>4, TableRows
<1>9. /\ AreRows(rows) /\ Refiles(rows, V) /\ AreTables(U) /\ RefersToRows(U)
      /\ Periods(U) = Periods(V) /\ PeriodsOf(U) = PeriodsOf(V)
      /\ DOMAIN N = DOMAIN T
      /\ \A i \in DOMAIN T : N[i] = IF i \in moved THEN FiledWith(T[i], r[2]) ELSE T[i]
  BY <1>0, <1>2, <1>3, FiledRows
<1>10. /\ Proved!IsTable(T) /\ DOMAIN T = DOMAIN Transactions(V)
       /\ \A i \in DOMAIN T : /\ T[i].date = V[Row(i)].date
                              /\ T[i].period = KeyOf(V[Row(i)].period)
                              /\ T[i] = [V[Row(i)] EXCEPT !.period = KeyOf(V[Row(i)].period)]
                              /\ V[Row(i)] \in TransactionRow
                              /\ Transactions(V)[i] = V[Row(i)]
  <2>1. \A i \in DOMAIN Transactions(V) : Transactions(V)[i] = V[Row(i)]
    BY <1>2, TableRows
  <2>2. QED
    BY <1>0, <1>2, <2>1, NamedTransactions
<1>11. \A i \in DOMAIN T :
          N[i] = IF Covers(G[r[2]], T[i].date) THEN FiledWith(T[i], r[2]) ELSE T[i]
  <2> TAKE i \in DOMAIN T
  <2>1. i \in moved <=> Covers(G[r[2]], T[i].date) /\ V[Row(i)].period # r
    BY <1>7, <1>8, <1>10
  <2>2. CASE V[Row(i)].period # r
    BY <1>9, <2>1, <2>2
  <2>3. CASE V[Row(i)].period = r
    <3>1. r \in PeriodRows
      BY <1>0, <1>2, <1>4, TableRows
    <3>2. T[i] = FiledWith(V[Row(i)], r[2])
      BY <1>10, <2>3, <3>1, RebuildRowsAssumption DEF KeyOf, FiledWith
    <3>3. FiledWith(T[i], r[2]) = T[i]
      BY <1>10, <3>2 DEF FiledWith, TransactionRow
    <3>4. N[i] = T[i]
      BY <1>9, <2>1, <2>3
    <3>5. QED
      BY <3>3, <3>4
  <2>4. QED
    BY <2>2, <2>3
<1>12. \A i \in DOMAIN T : \A j \in CoveringKeys(G, T[i].date) :
          r[2] \in CoveringKeys(G, T[i].date) => j = r[2]
  <2> TAKE i \in DOMAIN T
  <2>1. \A k \in CoveringKeys(G, T[i].date) : k \in Proved!CoveringKeys(P, T[i].date)
    <3>1. \A k \in CoveringKeys(G, T[i].date) : k \in CoveringKeys(P, T[i].date)
      BY <1>7 DEF CoveringKeys
    <3>2. QED
      BY <3>1, SameCovering
  <2>2. T[i].date \in Nat
    BY <1>10, InstantsAssumption DEF TransactionRow
  <2>3. QED
    BY <1>3, <2>1, <2>2, Proved!CoveredOnce, RowsAssumptions
<1>13. Refiled(N, P, ToVisit(P, p.got)) = Refiled(T, P, G)
  <2> DEFINE k == r[2]
  <2>1. /\ Proved!IsTable(T) /\ DOMAIN N = DOMAIN T /\ k \in DOMAIN G /\ k \in DOMAIN P
        /\ \A i \in DOMAIN T : \A j \in CoveringKeys(G, T[i].date) :
              k \in CoveringKeys(G, T[i].date) => j = k
        /\ \A i \in DOMAIN T :
              N[i] = IF Covers(G[k], T[i].date) THEN FiledWith(T[i], k) ELSE T[i]
    BY <1>7, <1>9, <1>10, <1>11, <1>12
  <2>2. ToVisit(P, p.got) = Restrict(G, DOMAIN G \ {k})
    BY <1>7
  <2> HIDE DEF k
  <2>3. Refiled(N, P, Restrict(G, DOMAIN G \ {k})) = Refiled(T, P, G)
    BY <2>1, RefiledOneByOne
  <2>4. QED
    BY <2>2, <2>3
<1>14. Mine(p) <=> Mine(q)
  BY DEF Mine, Locating
<1>15. LeftToFile(p, db, N, P)
  <2>1. \A W : Rest(p, W, P) = Rest(q, W, P)
    BY SameRest
  <2>2. QED
    BY <1>0, <1>5, <1>13, <1>14, <2>1 DEF LeftToFile
<1>16. Sound(p, U)
  <2>1. Mine(p) => U[Row(p.id)].kind = p.row.kind
    <3>1. SUFFICES ASSUME Mine(p) PROVE U[Row(q.id)].kind = q.row.kind
      OBVIOUS
    <3>2. q.id \in TxIds /\ V[Row(q.id)].kind = q.row.kind
      BY <1>2, <1>3, <1>14, <3>1, MineIsThere
    <3>3. Row(q.id) \in DOMAIN rows => rows[Row(q.id)].kind = V[Row(q.id)].kind
      BY <1>9, <3>2 DEF Refiles
    <3>4. U[Row(q.id)] = IF Row(q.id) \in DOMAIN rows THEN rows[Row(q.id)] ELSE V[Row(q.id)]
      BY <1>0, <1>2, <1>9, <3>2, KeysApart, OverAt
    <3>5. QED
      BY <3>2, <3>3, <3>4
  <2>2. OneRowEach(U)
    BY <1>3, <1>9 DEF OneRowEach
  <2>3. Proved!IsSequence(PeriodsOf(U)) /\ Proved!Partition(PeriodsOf(U))
    BY <1>0, <1>3, <1>9
  <2>4. QED
    BY <1>3, <1>9, <2>1, <2>2, <2>3 DEF Sound
<1>17. OneWrite(p, U)
  <2> SUFFICES ASSUME ~ q.atomic PROVE OneWrite(p, U)
    BY DEF OneWrite
  <2>1. DOMAIN Transactions(V) = {} /\ q.then # <<"locate", "commit">>
    BY <1>2 DEF OneWrite
  <2>2. DOMAIN Transactions(U) = {}
    BY <1>0, <1>9, <1>10, <2>1, NamedTransactions
  <2>3. QED
    BY <2>1, <2>2 DEF OneWrite
<1>18. Lone(p, db, U)
  <2>1. LeadsToStep(p, db, U)
    BY <1>0, <1>9, <1>15 DEF LeadsToStep
  <2>2. QED
    BY <1>16, <1>17, <2>1 DEF Lone
<1>19. ASSUME ~ q.atomic
       PROVE  Becoming(db, Over(rows, db)) /\ Lone(p, Over(rows, db), Over(rows, db))
  <2>1. DOMAIN Transactions(V) = {}
    BY <1>2, <1>19 DEF OneWrite
  <2>2. DOMAIN rows = {}
    BY <2>1 DEF Files
  <2>3. DOMAIN q.mine = {}
    BY <1>2, <1>19 DEF HasWritten
  <2>4. db = [key \in Keys |-> db[key]]
    BY <1>2 DEF AreTables
  <2>5. V = db
    BY <1>2, <2>3, <2>4, OverNothing
  <2>6. Over(rows, db) = db
    BY <2>2, <2>4, OverNothing
  <2>7. QED
    BY <1>0, <1>18, <2>5, <2>6 DEF Becoming
<1>20. QED
  BY <1>0, <1>9, <1>18, <1>19, LoneWrites

\* The steps that a rebuild was for.
LEMMA LoneRebuilt ==
  ASSUME RebuildInv, LoneInv, OneByOne, NEW c \in Clients, NEW q, q = tx[c],
         NEW V, V = Seen(c), q # Idle, q.at = "reassign", DOMAIN q.got = {},
         Read(c, Proceed(q))
  PROVE  LoneInv' /\ Becoming(db, db')
<1> DEFINE T == TransactionsOf(V)
           P == PeriodsOf(V)
           p == Proceed(q)
<1>1. Underway(q, db, V) /\ q.alone /\ DOMAIN q = Fields
  BY OfLone
<1>2. /\ AreTables(V) /\ Sound(q, V) /\ OneWrite(q, V) /\ LeadsToStep(q, db, V)
      /\ IsRequest(q) /\ RightSoFar(q, V)
  BY <1>1 DEF Underway, Lone
<1>3. /\ OneRowEach(V) /\ Proved!IsSequence(P) /\ Proved!Partition(P)
      /\ RefersToRows(V) /\ q.from \in Nat
      /\ Mine(q) => V[Row(q.id)].kind = q.row.kind
  BY <1>2 DEF Sound
<1>4. q.rebuilt
  BY <1>2 DEF RightSoFar
<1>5. LeftToFile(q, db, T, P)
  BY <1>2 DEF LeadsToStep
<1>6. q.then \in {<<"commit">>, <<"find", "commit">>, <<"locate", "commit">>}
  BY <1>2 DEF IsRequest, InStep
<1>7. DOMAIN q = Fields
  BY <1>1
<1>8. /\ p.at = Head(q.then) /\ p.then = Tail(q.then) /\ p.id = q.id /\ p.row = q.row
      /\ p.date = q.date /\ p.from = q.from /\ p.mine = q.mine /\ p.atomic = q.atomic
      /\ p.alone = q.alone /\ p.rebuilt = q.rebuilt
  BY <1>7, ProceedFields
<1>0. T = TransactionsOf(V) /\ P = PeriodsOf(V) /\ Read(c, p)
  OBVIOUS
<1> HIDE DEF T, P, p
<1>9. Refiled(T, P, ToVisit(P, q.got)) = T
  <2> DEFINE G == ToVisit(P, q.got)
  <2>1. DOMAIN G = {}
    BY DEF ToVisit, Restrict
  <2> HIDE DEF G
  <2>2. Proved!IsTable(T) /\ T = [i \in DOMAIN T |-> T[i]]
    BY <1>0, <1>2, NamedTransactions
  <2>3. \A i \in DOMAIN T : T[i].period = Null \/ T[i].period \in DOMAIN P
    BY <1>0, <1>2, <1>3, RefersToKeys
  <2>4. Refiled(T, P, G) = T
    BY <2>1, <2>2, <2>3, NothingRefiled
  <2>5. QED
    BY <2>4 DEF G
<1>10. Ends(db, Rest(q, T, P)) /\ (Mine(q) => Requests!InItsPeriod(T[q.id], P))
  BY <1>5, <1>9 DEF LeftToFile
<1>11. CASE q.then = <<"commit">>
  <2>1. p.at = "commit" /\ p.then = <<>>
    BY <1>8, <1>11
  <2>2. Rest(q, T, P) = Both(T, P)
    <3>1. Len(q.then) = 1 /\ Len(<<"find", "commit">>) = 2 /\ Len(<<"locate", "commit">>) = 2
      BY <1>11
    <3>2. q.then # <<"find", "commit">> /\ q.then # <<"locate", "commit">>
      BY <3>1
    <3>3. QED
      BY <3>2 DEF Rest
  <2>3. Lone(p, db, V)
    BY <1>0, <1>3, <1>8, <1>10, <2>1, <2>2, LoneDone
  <2>4. QED
    BY <1>0, <1>1, <1>8, <2>3, LoneReads
<1>12. CASE q.then \in {<<"find", "commit">>, <<"locate", "commit">>}
  <2>1. /\ q.then = <<"find", "commit">> => p.at = "find"
        /\ q.then = <<"locate", "commit">> => p.at = "locate"
        /\ p.then = <<"commit">>
    <3>1. Head(<<"find", "commit">>) = "find" /\ Tail(<<"find", "commit">>) = <<"commit">>
      OBVIOUS
    <3>2. Head(<<"locate", "commit">>) = "locate" /\ Tail(<<"locate", "commit">>) = <<"commit">>
      OBVIOUS
    <3>3. /\ q.then = <<"find", "commit">> => p.at = "find" /\ p.then = <<"commit">>
          /\ q.then = <<"locate", "commit">> => p.at = "locate" /\ p.then = <<"commit">>
      BY <1>8, <3>1, <3>2
    <3>4. QED
      BY <1>12, <3>3
  <2>2. q.then = <<"find", "commit">> => q.then # <<"locate", "commit">>
    <3>1. <<"find", "commit">>[1] = "find" /\ <<"locate", "commit">>[1] = "locate"
      OBVIOUS
    <3>2. QED
      BY <3>1
  <2>3. /\ p.at = "find" => Rest(q, T, P) = Finding(q, T, P)
        /\ p.at = "locate" => Rest(q, T, P) = Reaching(q, T, P)
    BY <1>12, <2>1, <2>2 DEF Rest
  <2>4. Mine(q) <=> q.id # 0
    BY <1>12 DEF Mine, Locating
  <2>5. p.at \in {"find", "locate"}
    BY <1>12, <2>1
  <2>6. Mine(p) <=> Mine(q)
    BY <1>8, <2>4, <2>5 DEF Mine, Locating
  <2>7. Requests!InItsPeriod(TransactionsOf(V)[p.id], PeriodsOf(V)) \/ ~ Mine(p)
    BY <1>0, <1>8, <1>10, <2>6
  <2>8. Sound(p, V)
    BY <1>3, <1>4, <1>8, <2>5, <2>6, <2>7, <1>0 DEF Sound
  <2>9. OneWrite(p, V)
    <3> SUFFICES ASSUME ~ p.atomic PROVE OneWrite(p, V)
      BY DEF OneWrite
    <3>1. DOMAIN Transactions(V) = {} /\ q.then # <<"locate", "commit">>
      BY <1>2, <1>8 DEF OneWrite
    <3>2. p.at = "find"
      BY <1>12, <2>1, <3>1
    <3>3. p.then # <<"locate", "commit">>
      <4>1. Len(p.then) = 1 /\ Len(<<"locate", "commit">>) = 2
        BY <2>1
      <4>2. QED
        BY <4>1
    <3>4. QED
      BY <3>1, <3>2, <3>3 DEF OneWrite
  <2>10. Finding(p, T, P) = Finding(q, T, P) /\ Reaching(p, T, P) = Reaching(q, T, P)
    BY <1>8, SameRest
  <2>11. /\ p.at = "find" => Ends(db, Finding(p, T, P))
         /\ p.at = "locate" => Ends(db, Reaching(p, T, P))
    BY <1>10, <2>3, <2>10
  <2>12. LeadsToStep(p, db, V)
    BY <1>0, <2>5, <2>11 DEF LeadsToStep
  <2>13. Lone(p, db, V)
    BY <2>8, <2>9, <2>12 DEF Lone
  <2>14. QED
    BY <1>0, <1>1, <1>8, <2>13, LoneReads
<1>13. QED
  BY <1>6, <1>11, <1>12

LEMMA LoneReassigns ==
  ASSUME RebuildInv, LoneInv, OneByOne, NEW c \in Clients, Reassign(c)
  PROVE  LoneInv' /\ Becoming(db, db')
<1> DEFINE q == tx[c]
           V == Seen(c)
           T == Transactions(V)
<1>1. q # Idle /\ q.at = "reassign"
  BY DEF Reassign, At
<1>2. Underway(q, db, V) /\ DOMAIN q = Fields
  BY <1>1, OfLone
<1>3. \/ DOMAIN q.got = {} /\ Read(c, Proceed(q))
      \/ \E r \in DOMAIN q.got :
            Write(c, [key \in {Row(i) : i \in {i \in DOMAIN T :
                                  Covers(q.got[r], T[i].date) /\ T[i].period # r}} |->
                        [V[key] EXCEPT !.period = r]],
                  [q EXCEPT !.got = Restrict(@, DOMAIN @ \ {r})])
  BY DEF Reassign
<1>4. CASE DOMAIN q.got = {} /\ Read(c, Proceed(q))
  <2> DEFINE x == q
             y == V
  <2>1. /\ x = tx[c] /\ y = Seen(c) /\ x # Idle /\ x.at = "reassign" /\ DOMAIN x.got = {}
        /\ Read(c, Proceed(x))
    BY <1>1, <1>4
  <2> HIDE DEF x, y
  <2>2. QED
    BY <2>1, LoneRebuilt
<1>5. ASSUME NEW r \in DOMAIN q.got,
             NEW moved, moved = {i \in DOMAIN T : Covers(q.got[r], T[i].date) /\ T[i].period # r},
             NEW rows, rows = [key \in {Row(i) : i \in moved} |-> [V[key] EXCEPT !.period = r]],
             NEW p, p = [q EXCEPT !.got = Restrict(@, DOMAIN @ \ {r})],
             Write(c, rows, p)
      PROVE  LoneInv' /\ Becoming(db, db')
  <2>1. /\ DOMAIN p = Fields /\ p.at = q.at /\ p.then = q.then /\ p.id = q.id /\ p.row = q.row
        /\ p.date = q.date /\ p.cover = q.cover /\ p.atomic = q.atomic /\ p.from = q.from
        /\ p.mine = q.mine /\ p.alone = q.alone /\ p.rebuilt = q.rebuilt
        /\ p.got = Restrict(q.got, DOMAIN q.got \ {r})
    BY <1>2, <1>5 DEF Fields
  <2>2. DOMAIN p.got = DOMAIN q.got \ {r}
    BY <2>1 DEF Restrict
  <2>3. Files(rows, V, moved, r)
    <3>1. r \in DOMAIN Periods(V)
      BY <1>1, <1>2 DEF Underway, RightSoFar
    <3>2. moved \subseteq DOMAIN Transactions(V)
      BY <1>5
    <3>3. /\ \A key \in DOMAIN rows : \E i \in moved : key = Row(i)
          /\ \A i \in moved : Row(i) \in DOMAIN rows /\ rows[Row(i)] = FiledWith(V[Row(i)], r)
      BY <1>5 DEF FiledWith
    <3>4. QED
      BY <3>1, <3>2, <3>3 DEF Files
  <2> DEFINE x == q
             y == V
  <2>4. /\ x = tx[c] /\ y = Seen(c) /\ x # Idle /\ x.at = "reassign" /\ r \in DOMAIN x.got
        /\ moved = {i \in DOMAIN Transactions(y) :
                      Covers(x.got[r], Transactions(y)[i].date) /\ Transactions(y)[i].period # r}
        /\ Files(rows, y, moved, r)
        /\ DOMAIN p = Fields /\ p.at = x.at /\ p.then = x.then /\ p.id = x.id /\ p.row = x.row
        /\ p.date = x.date /\ p.cover = x.cover /\ p.atomic = x.atomic /\ p.from = x.from
        /\ p.mine = x.mine /\ p.alone = x.alone /\ p.rebuilt = x.rebuilt
        /\ DOMAIN p.got = DOMAIN x.got \ {r} /\ Write(c, rows, p)
    BY <1>1, <1>5, <2>1, <2>2, <2>3
  <2> HIDE DEF x, y
  <2>5. QED
    BY <2>4, LoneRefiles
<1>6. QED
  BY <1>3, <1>4, <1>5

-----------------------------------------------------------------------------
(* The transaction a request on its own writes *)

\* One transaction is inserted, edited or deleted.
LEMMA OneTransactionWritten ==
  ASSUME NEW V, AreTables(V), RefersToRows(V), NEW i \in TxIds, NEW row,
         row = Absent \/ row \in TransactionRow,
         row # Absent => row.period = Null \/ row.period \in DOMAIN Periods(V),
         NEW rows, DOMAIN rows = {Row(i)}, rows[Row(i)] = row,
         NEW U, U = Over(rows, V),
         NEW T, T = TransactionsOf(V), NEW N, N = TransactionsOf(U)
  PROVE  /\ AreRows(rows) /\ AreTables(U) /\ RefersToRows(U)
         /\ U[Row(i)] = row
         /\ Periods(U) = Periods(V) /\ PeriodsOf(U) = PeriodsOf(V)
         /\ \A j : j \in DOMAIN N <=> IF j = i THEN row # Absent ELSE j \in DOMAIN T
         /\ row # Absent => N[i] = FiledWith(row, KeyOf(row.period))
         /\ \A j \in DOMAIN N \ {i} : N[j] = T[j]
<1>1. AreRows(rows)
  BY KeysApart DEF AreRows, RowOf
<1>2. AreTables(U)
  <2>1. AreRows(V)
    BY DEF AreTables
  <2>2. QED
    BY <1>1, <2>1, OverRows
<1>3. \A key \in Keys : U[key] = IF key \in DOMAIN rows THEN rows[key] ELSE V[key]
  BY <1>1, OverAt
<1>4. /\ U[Row(i)] = row
      /\ \A j \in TxIds : j # i => U[Row(j)] = V[Row(j)]
      /\ \A r \in PeriodRows : U[r] = V[r]
  <2>1. \A j \in TxIds : Row(j) \in Keys /\ (Row(j) \in DOMAIN rows <=> j = i)
    BY KeysApart
  <2>2. \A r \in PeriodRows : r \in Keys /\ r \notin DOMAIN rows
    BY KeysApart
  <2>3. QED
    BY <1>3, <2>1, <2>2
<1>5. Periods(U) = Periods(V) /\ PeriodsOf(U) = PeriodsOf(V)
  BY <1>4, SamePeriodRows
<1>6. \A j : j \in DOMAIN Transactions(U) <=> j \in TxIds /\ U[Row(j)] # Absent
  BY DEF Transactions
<1>7. \A j : j \in DOMAIN Transactions(V) <=> j \in TxIds /\ V[Row(j)] # Absent
  BY DEF Transactions
<1>8. DOMAIN T = DOMAIN Transactions(V) /\ DOMAIN N = DOMAIN Transactions(U)
  BY <1>2, NamedTransactions
<1>9. \A j : j \in DOMAIN N <=> IF j = i THEN row # Absent ELSE j \in DOMAIN T
  BY <1>4, <1>6, <1>7, <1>8
<1>10. row # Absent => N[i] = FiledWith(row, KeyOf(row.period))
  <2> SUFFICES ASSUME row # Absent PROVE N[i] = FiledWith(row, KeyOf(row.period))
    OBVIOUS
  <2>1. i \in DOMAIN N
    BY <1>9
  <2>2. N[i] = [U[Row(i)] EXCEPT !.period = KeyOf(U[Row(i)].period)]
    BY <1>2, <2>1, NamedTransactions
  <2>3. QED
    BY <1>4, <2>2 DEF FiledWith
<1>11. \A j \in DOMAIN N \ {i} : N[j] = T[j]
  <2> TAKE j \in DOMAIN N \ {i}
  <2>1. j \in DOMAIN Transactions(V) /\ U[Row(j)] = V[Row(j)]
    BY <1>4, <1>6, <1>8, <1>9
  <2>2. QED
    BY <1>2, <2>1, SameNamed
<1>12. RefersToRows(U)
  <2> SUFFICES ASSUME NEW j \in DOMAIN Transactions(U)
               PROVE  U[Row(j)].period = Null \/ U[Row(j)].period \in DOMAIN Periods(U)
    BY DEF RefersToRows
  <2>1. CASE j = i
    BY <1>4, <1>5, <1>6, <2>1
  <2>2. CASE j # i
    BY <1>4, <1>5, <1>6, <1>7, <2>2 DEF RefersToRows
  <2>3. QED
    BY <2>1, <2>2
<1>13. QED
  BY <1>1, <1>2, <1>4, <1>5, <1>9, <1>10, <1>11, <1>12

\* The edit of a transaction, once its row is written, is an edit of
\* TransactionPeriods to end.
LEMMA EditEnds ==
  ASSUME NEW D, NEW T, T = TransactionsOf(D), NEW P, P = PeriodsOf(D), Proved!IsTable(T),
         NEW i \in DOMAIN T, i # 0, NEW date \in Instants, NEW kind \in {"salary", "other"},
         NEW E, E = Proved!Edited(T, i, date, kind),
         NEW from, from = IF T[i].date < date THEN T[i].date ELSE date,
         NEW p, p.id = i, p.date = date, p.row.kind = kind, KeyOf(p.row.period) = T[i].period,
         NEW R, R = Rebuild(E, P, from, {})
  PROVE  /\ IsSalary(T[i]) => Ends(D, Reaching(p, R.txs, R.periods))
         /\ ~ IsSalary(T[i]) => Ends(D, Reaching(p, E, P))
<1>1. T[i].date \in Nat /\ date \in Nat
  BY Proved!DatesAreNaturals, RowsAssumptions, InstantsAssumption
<1>2. kind \in Proved!Kinds
  BY DEF Proved!Kinds
<1>3. /\ Proved!IsTable(E) /\ DOMAIN E = DOMAIN T /\ E[i].date = date /\ E[i].kind = kind
  BY <1>2, Proved!EditedRow, RowsAssumptions
<1>4. from \in Nat /\ from = Proved!Earlier(T[i].date, date)
  BY <1>1 DEF Proved!Earlier
<1>5. Proved!IsSalary(T[i]) <=> IsSalary(T[i])
  BY DEF Proved!IsSalary, IsSalary
<1>6. \A A : (/\ A.txs = Requests!AfterEdit(T, P, i, date, kind).txs
              /\ A.periods = Requests!AfterEdit(T, P, i, date, kind).periods)
                => Ends(D, Both(A.txs, A.periods))
  BY DEF Ends, Both, IsStep
<1>7. CASE IsSalary(T[i])
  <2> DEFINE A == Assign(R.txs, R.periods, i, T[i].period)
  <2>1. R = Proved!Rebuild(E, P, from, {})
    BY SameAsRequests
  <2>2. /\ R.periods = Proved!DesiredPeriods(E, {})
        /\ R.txs[i].date = E[i].date /\ R.txs[i].kind = E[i].kind
    <3> DEFINE none == {}
    <3>1. none \in SUBSET Nat /\ R = Proved!Rebuild(E, P, from, none)
      BY <2>1
    <3> HIDE DEF none
    <3>2. /\ R.periods = Proved!DesiredPeriods(E, none)
          /\ \A j \in DOMAIN E : R.txs[j].date = E[j].date /\ R.txs[j].kind = E[j].kind
      BY <1>3, <3>1, Proved!RebuildKeepsRows, RowsAssumptions
    <3>3. QED
      BY <1>3, <3>2 DEF none
  <2>3. /\ Proved!AfterEdit(T, P, i, date, kind).txs = A.txs
        /\ Proved!AfterEdit(T, P, i, date, kind).periods = A.periods
    BY <1>4, <1>5, <1>7, SameAsRequests DEF Proved!AfterEdit
  <2> HIDE DEF A
  <2>4. Reaching(p, R.txs, R.periods) = Both(A.txs, A.periods)
    BY <1>3, <2>2, ReachingAssigns DEF A
  <2>5. QED
    BY <1>6, <1>7, <2>3, <2>4, SameAfter
<1>8. CASE ~ IsSalary(T[i])
  <2> DEFINE A == Assign(E, P, i, T[i].period)
  <2>1. /\ Proved!AfterEdit(T, P, i, date, kind).txs = A.txs
        /\ Proved!AfterEdit(T, P, i, date, kind).periods = A.periods
    BY <1>5, <1>8, SameAsRequests DEF Proved!AfterEdit
  <2> HIDE DEF A
  <2>2. Reaching(p, E, P) = Both(A.txs, A.periods)
    BY <1>3, ReachingAssigns DEF A
  <2>3. QED
    BY <1>6, <1>8, <2>1, <2>2, SameAfter
<1>9. QED
  BY <1>7, <1>8

LEMMA DeleteEnds ==
  ASSUME NEW D, NEW T, T = TransactionsOf(D), NEW P, P = PeriodsOf(D),
         NEW i \in DOMAIN T, NEW E, E = Proved!Deleted(T, i),
         NEW R, R = Rebuild(E, P, T[i].date, {})
  PROVE  /\ IsSalary(T[i]) => Ends(D, Both(R.txs, R.periods))
         /\ ~ IsSalary(T[i]) => Ends(D, Both(E, P))
<1>1. Proved!IsSalary(T[i]) <=> IsSalary(T[i])
  BY DEF Proved!IsSalary, IsSalary
<1>2. \A A : (/\ A.txs = Requests!AfterDelete(T, P, i).txs
              /\ A.periods = Requests!AfterDelete(T, P, i).periods)
                => Ends(D, Both(A.txs, A.periods))
  BY DEF Ends, Both, IsStep
<1>3. CASE IsSalary(T[i])
  <2>1. /\ Proved!AfterDelete(T, P, i).txs = R.txs
        /\ Proved!AfterDelete(T, P, i).periods = R.periods
    BY <1>1, <1>3, SameAsRequests DEF Proved!AfterDelete
  <2>2. QED
    BY <1>2, <1>3, <2>1, SameAfter
<1>4. CASE ~ IsSalary(T[i])
  <2>1. /\ Proved!AfterDelete(T, P, i).txs = E
        /\ Proved!AfterDelete(T, P, i).periods = P
    BY <1>1, <1>4 DEF Proved!AfterDelete
  <2> DEFINE A == Both(E, P)
  <2>2. A.txs = E /\ A.periods = P
    BY DEF Both
  <2> HIDE DEF A
  <2>3. Ends(D, Both(A.txs, A.periods))
    BY <1>2, <2>1, <2>2, SameAfter
  <2>4. QED
    BY <1>4, <2>2, <2>3
<1>5. QED
  BY <1>3, <1>4

LEMMA InsertEnds ==
  ASSUME NEW D, NEW T, T = TransactionsOf(D), NEW P, P = PeriodsOf(D), Proved!IsTable(T),
         NEW i \in TxIds \ DOMAIN T, i # 0, NEW date \in Instants,
         NEW kind \in {"salary", "other"}, NEW E, E = Proved!Inserted(T, i, date, kind),
         NEW p, p.id = i, p.date = date, p.row.kind = kind, p.row.period = Null
  PROVE  Ends(D, Reaching(p, E, P))
<1> DEFINE A == Assign(E, P, i, Null)
<1>1. kind \in Proved!Kinds
  BY DEF Proved!Kinds
<1>2. /\ Proved!IsTable(E) /\ DOMAIN E = DOMAIN T \union {i}
      /\ E[i].date = date /\ E[i].kind = kind
  BY <1>1, Proved!InsertedRow, RowsAssumptions
<1>3. Requests!AfterInsert(T, P, i, date, kind) = A
  <2>1. Proved!AfterInsert(T, P, i, date, kind) = A
    BY SameAsRequests DEF Proved!AfterInsert
  <2>2. QED
    BY <2>1, SameAfter
<1> HIDE DEF A
<1>4. Ends(D, Both(A.txs, A.periods))
  BY <1>3 DEF Ends, Both, IsStep
<1>5. Reaching(p, E, P) = Both(A.txs, A.periods)
  BY <1>2, ReachingAssigns DEF A, KeyOf
<1>6. QED
  BY <1>4, <1>5

\* The rest of an edit, or of a removal, once the row of its transaction is written.
LEMMA LoneHasWritten ==
  ASSUME NEW V, AreTables(V), Kept(V),
         NEW q, IsRequest(q), q.at = "write", IsMeant(q, TransactionsOf(V)), ~ q.rebuilt,
         q.from \in Nat,
         NEW row, q.row = Absent => row = Absent,
         q.row # Absent => /\ row \in TransactionRow /\ row.date = q.row.date
                           /\ row.kind = q.row.kind /\ row.period = V[Row(q.id)].period,
         NEW p, p.at = Head(q.then), p.then = Tail(q.then), p.id = q.id, p.date = q.date,
         p.from = q.from, p.cover = q.cover, p.row = row, p.atomic = q.atomic,
         p.rebuilt = q.rebuilt,
         NEW rows, DOMAIN rows = {Row(q.id)}, rows[Row(q.id)] = row
  PROVE  AreRows(rows) /\ Lone(p, V, Over(rows, V)) /\ p.at \notin {"write", "current"}
<1> DEFINE T == TransactionsOf(V)
           P == PeriodsOf(V)
           U == Over(rows, V)
           N == TransactionsOf(U)
           i == q.id
<1>1. /\ i \in DOMAIN T /\ i # 0 /\ i \in TxIds /\ q.cover = {} /\ q.atomic
      /\ q.row # Absent => /\ q.date \in Instants /\ q.row.date = q.date
                           /\ q.row.kind \in {"salary", "other"}
  BY DEF IsMeant, IsRequest, HasRow
<1>2. /\ RefersToRows(V) /\ OneRowEach(V) /\ Proved!IsSequence(P) /\ Proved!Partition(P)
  BY DEF Kept, Proved!Consistent
<1>3. /\ Proved!IsTable(T) /\ V[Row(i)] \in TransactionRow
      /\ T[i].period = KeyOf(V[Row(i)].period)
      /\ i \in DOMAIN Transactions(V) /\ DOMAIN T = DOMAIN Transactions(V)
      /\ T = [j \in DOMAIN T |-> T[j]]
  BY <1>1, NamedTransactions
<1>4. row = Absent \/ row \in TransactionRow
  OBVIOUS
<1>5. row # Absent => /\ row.period = Null \/ row.period \in DOMAIN Periods(V)
                      /\ row.period = V[Row(i)].period
  BY <1>2, <1>3 DEF RefersToRows
<1>0. U = Over(rows, V) /\ T = TransactionsOf(V) /\ N = TransactionsOf(U) /\ P = PeriodsOf(V)
  OBVIOUS
<1> HIDE DEF T, P, U, N
<1>6. /\ AreRows(rows) /\ AreTables(U) /\ RefersToRows(U)
      /\ U[Row(i)] = row
      /\ Periods(U) = Periods(V) /\ PeriodsOf(U) = P
      /\ \A j : j \in DOMAIN N <=> IF j = i THEN row # Absent ELSE j \in DOMAIN T
      /\ row # Absent => N[i] = FiledWith(row, KeyOf(row.period))
      /\ \A j \in DOMAIN N \ {i} : N[j] = T[j]
  <2>1. row # Absent => row.period = Null \/ row.period \in DOMAIN Periods(V)
    BY <1>5
  <2>2. RefersToRows(V) /\ i \in TxIds
    BY <1>1, <1>2
  <2>3. QED
    BY <1>0, <1>4, <2>1, <2>2, OneTransactionWritten
<1>7. /\ OneRowEach(U) /\ Proved!IsSequence(PeriodsOf(U)) /\ Proved!Partition(PeriodsOf(U))
  BY <1>2, <1>6 DEF OneRowEach
<1>8. N = [j \in DOMAIN N |-> N[j]]
  BY <1>0, <1>6, NamedTransactions
<1>9. OneWrite(p, U)
  BY <1>1 DEF OneWrite
<1>10. p.from \in Nat /\ p.cover = {} /\ ~ p.rebuilt /\ p.id = i
  BY <1>1
<1>11. CASE q.row = Absent
  <2>1. N = Proved!Deleted(T, i)
    <3>1. DOMAIN N = DOMAIN T \ {i}
      BY <1>6, <1>11
    <3>2. N = [j \in DOMAIN T \ {i} |-> T[j]]
      BY <1>6, <1>8, <3>1
    <3>3. QED
      BY <3>2 DEF Proved!Deleted
  <2>2. /\ q.from = T[i].date
        /\ IsSalary(T[i]) => q.then = <<"rebuild", "commit">>
        /\ ~ IsSalary(T[i]) => q.then = <<"commit">>
    BY <1>0, <1>11 DEF IsMeant
  <2> DEFINE R == Rebuild(N, P, T[i].date, {})
  <2>3. /\ IsSalary(T[i]) => Ends(V, Both(R.txs, R.periods))
        /\ ~ IsSalary(T[i]) => Ends(V, Both(N, P))
    BY <1>0, <1>1, <2>1, DeleteEnds
  <2>4. CASE IsSalary(T[i])
    <3>1. p.at = "rebuild" /\ p.then = <<"commit">>
      <4>1. Head(<<"rebuild", "commit">>) = "rebuild"
        OBVIOUS
      <4>2. Tail(<<"rebuild", "commit">>) = <<"commit">>
        OBVIOUS
      <4>3. QED
        BY <2>2, <2>4, <4>1, <4>2
    <3>2. /\ p.then # <<"find", "commit">> /\ p.then # <<"locate", "commit">>
          /\ p.then # <<"rebuild", "locate", "commit">>
      <4>1. Len(<<"commit">>) = 1
        OBVIOUS
      <4>2. Len(<<"find", "commit">>) = 2 /\ Len(<<"locate", "commit">>) = 2
        OBVIOUS
      <4>3. Len(<<"rebuild", "locate", "commit">>) = 3
        OBVIOUS
      <4>4. QED
        BY <3>1, <4>1, <4>2, <4>3
    <3>3. ~ Mine(p)
      BY <3>1, <3>2 DEF Mine, Locating
    <3>4. Sound(p, U)
      BY <1>6, <1>7, <1>10, <3>1, <3>3 DEF Sound
    <3>5. \A W, Y : Rest(p, W, Y) = Both(W, Y)
      BY <3>2 DEF Rest
    <3>6. Rebuilding(p, V, N, P)
      BY <1>10, <2>2, <2>3, <2>4, <3>5 DEF Rebuilding
    <3>7. LeadsToStep(p, V, U)
      BY <1>0, <1>6, <3>1, <3>6 DEF LeadsToStep
    <3>8. QED
      BY <1>0, <1>6, <1>9, <3>1, <3>4, <3>7 DEF Lone
  <2>5. CASE ~ IsSalary(T[i])
    <3>1. p.at = "commit" /\ p.then = <<>>
      <4>1. Head(<<"commit">>) = "commit"
        OBVIOUS
      <4>2. Tail(<<"commit">>) = <<>>
        OBVIOUS
      <4>3. QED
        BY <2>2, <2>5, <4>1, <4>2
    <3>2. Ends(V, Both(TransactionsOf(U), PeriodsOf(U)))
      BY <1>0, <1>6, <2>3, <2>5
    <3>3. Lone(p, V, U)
      BY <1>6, <1>7, <1>10, <3>1, <3>2, LoneDone
    <3>4. QED
      BY <1>0, <1>6, <3>1, <3>3
  <2>6. QED
    BY <2>4, <2>5
<1>12. CASE q.row # Absent
  <2> DEFINE date == q.date
             kind == q.row.kind
  <2>1. /\ date \in Instants /\ kind \in {"salary", "other"}
        /\ row \in TransactionRow /\ row # Absent
        /\ row.date = date /\ row.kind = kind /\ row.period = V[Row(i)].period
    BY <1>1, <1>12, RebuildRowsAssumption
  <2>2. N[i] = [date |-> date, kind |-> kind, period |-> T[i].period]
    BY <1>3, <1>6, <2>1 DEF FiledWith, TransactionRow
  <2>3. /\ T[i] = [T[i] EXCEPT !.period = T[i].period]
        /\ DOMAIN T[i] = {"date", "kind", "period"}
    BY <1>0, <1>1, NamedTransactions
  <2>4. N = Proved!Edited(T, i, date, kind)
    <3> DEFINE E == Proved!Edited(T, i, date, kind)
    <3>1. /\ DOMAIN E = DOMAIN T /\ E = [j \in DOMAIN E |-> E[j]]
          /\ \A j \in DOMAIN T \ {i} : E[j] = T[j]
      BY DEF Proved!Edited
    <3>2. E[i] = [[T[i] EXCEPT !.date = date] EXCEPT !.kind = kind]
      BY <1>1 DEF Proved!Edited
    <3>3. E[i] = N[i]
      BY <2>2, <2>3, <3>2
    <3> HIDE DEF E
    <3>4. DOMAIN N = DOMAIN T
      BY <1>1, <1>6, <2>1
    <3>5. \A j \in DOMAIN T : E[j] = N[j]
      BY <1>6, <3>1, <3>3, <3>4
    <3>6. N = E
      BY <1>8, <3>1, <3>4, <3>5
    <3>7. QED
      BY <3>6 DEF E
  <2>5. /\ q.from = IF T[i].date < date THEN T[i].date ELSE date
        /\ IsSalary(T[i]) => q.then = <<"rebuild", "locate", "commit">>
        /\ ~ IsSalary(T[i]) => q.then = <<"locate", "commit">>
    BY <1>0, <1>12 DEF IsMeant
  <2>6. q.from <= date
    <3>1. T[i].date \in Nat
      BY <1>1, <1>3, Proved!DatesAreNaturals, RowsAssumptions
    <3>2. date \in Nat
      BY <2>1, InstantsAssumption
    <3> HIDE DEF date
    <3>3. QED
      BY <2>5, <3>1, <3>2
  <2> DEFINE R == Rebuild(N, P, q.from, {})
  <2>7. /\ IsSalary(T[i]) => Ends(V, Reaching(p, R.txs, R.periods))
        /\ ~ IsSalary(T[i]) => Ends(V, Reaching(p, N, P))
    <3> DEFINE from == q.from
               S == Rebuild(N, P, from, {})
    <3>1. /\ p.id = i /\ p.date = date /\ p.row.kind = kind /\ KeyOf(p.row.period) = T[i].period
          /\ from = IF T[i].date < date THEN T[i].date ELSE date
      BY <1>3, <2>1, <2>5
    <3> HIDE DEF date, kind, from
    <3>2. S = Rebuild(N, P, from, {})
      OBVIOUS
    <3> HIDE DEF S
    <3>3. /\ IsSalary(T[i]) => Ends(V, Reaching(p, S.txs, S.periods))
          /\ ~ IsSalary(T[i]) => Ends(V, Reaching(p, N, P))
      BY <1>0, <1>1, <1>3, <2>1, <2>4, <3>1, <3>2, EditEnds
    <3>4. QED
      BY <3>3 DEF S, from
  <2>8. U[Row(p.id)].kind = p.row.kind /\ p.row.period = U[Row(p.id)].period
    BY <1>6
  <2>9. CASE IsSalary(T[i])
    <3>1. p.at = "rebuild" /\ p.then = <<"locate", "commit">>
      <4>1. Head(<<"rebuild", "locate", "commit">>) = "rebuild"
        OBVIOUS
      <4>2. Tail(<<"rebuild", "locate", "commit">>) = <<"locate", "commit">>
        OBVIOUS
      <4>3. QED
        BY <2>5, <2>9, <4>1, <4>2
    <3>2. p.then # <<"find", "commit">>
      <4>1. <<"find", "commit">>[1] = "find" /\ <<"locate", "commit">>[1] = "locate"
        OBVIOUS
      <4>2. QED
        BY <3>1, <4>1
    <3>3. Sound(p, U)
      BY <1>6, <1>7, <1>10, <2>6, <2>8, <3>1 DEF Sound
    <3>4. \A W, Y : Rest(p, W, Y) = Reaching(p, W, Y)
      BY <3>1, <3>2 DEF Rest
    <3>5. Rebuilding(p, V, N, P)
      BY <1>10, <2>7, <2>9, <3>4 DEF Rebuilding
    <3>6. LeadsToStep(p, V, U)
      BY <1>0, <1>6, <3>1, <3>5 DEF LeadsToStep
    <3>7. QED
      BY <1>0, <1>6, <1>9, <3>1, <3>3, <3>6 DEF Lone
  <2>10. CASE ~ IsSalary(T[i])
    <3>1. p.at = "locate" /\ p.then = <<"commit">>
      <4>1. Head(<<"locate", "commit">>) = "locate"
        OBVIOUS
      <4>2. Tail(<<"locate", "commit">>) = <<"commit">>
        OBVIOUS
      <4>3. QED
        BY <2>5, <2>10, <4>1, <4>2
    <3>2. Sound(p, U)
      BY <1>6, <1>7, <1>10, <2>8, <3>1 DEF Sound
    <3>3. LeadsToStep(p, V, U)
      BY <1>0, <1>6, <2>7, <2>10, <3>1 DEF LeadsToStep
    <3>4. QED
      BY <1>0, <1>6, <1>9, <3>1, <3>2, <3>3 DEF Lone
  <2>11. QED
    BY <2>9, <2>10
<1>13. QED
  BY <1>11, <1>12

LEMMA LoneWritesTransaction ==
  ASSUME RebuildInv, LoneInv, OneByOne, NEW c \in Clients, WriteTransaction(c)
  PROVE  LoneInv' /\ Becoming(db, db')
<1> DEFINE q == tx[c]
           V == Seen(c)
           old == V[Row(q.id)]
           row == IF q.row = Absent THEN Absent
                  ELSE [old EXCEPT !.date = q.row.date, !.kind = q.row.kind]
           rows == [key \in {Row(q.id)} |-> row]
           p == [Proceed(q) EXCEPT !.row = row]
<1>1. q # Idle /\ q.at = "write" /\ old # Absent /\ Write(c, rows, p)
  BY DEF WriteTransaction, At
<1>2. Underway(q, db, V) /\ q.alone /\ DOMAIN q = Fields
  BY <1>1, OfLone
<1>3. /\ AreTables(V) /\ AreTables(db) /\ Sound(q, V) /\ LeadsToStep(q, db, V) /\ Kept(db)
      /\ IsRequest(q) /\ RightSoFar(q, V) /\ HasWritten(q, q.mine) /\ V = Over(q.mine, db)
  BY <1>2 DEF Underway, Lone
<1>4. V = db
  <2>1. DOMAIN q.mine = {} /\ db = [key \in Keys |-> db[key]]
    BY <1>1, <1>3 DEF Sound, AreTables
  <2>2. QED
    BY <1>3, <2>1, OverNothing
<1>5. /\ IsMeant(q, TransactionsOf(V)) /\ ~ q.rebuilt /\ q.from \in Nat
      /\ q.id # 0 /\ q.id \in TxIds /\ q.atomic
      /\ q.row # Absent => q.row.date \in Instants /\ q.row.kind \in {"salary", "other"}
  BY <1>1, <1>3 DEF LeadsToStep, RightSoFar, Sound, IsRequest, HasRow
<1>6. old \in TransactionRow
  BY <1>1, <1>3, <1>5, KeysApart DEF AreTables, AreRows, RowOf
<1>7. /\ q.row = Absent => row = Absent
      /\ q.row # Absent => /\ row \in TransactionRow /\ row.date = q.row.date
                           /\ row.kind = q.row.kind /\ row.period = old.period
  <2> DEFINE e == q.row
  <2>1. e # Absent => e.date \in Instants /\ e.kind \in {"salary", "other"}
    BY <1>5
  <2> HIDE DEF e, old
  <2>2. QED
    BY <1>6, <2>1 DEF TransactionRow, e
<1>8. DOMAIN rows = {Row(q.id)} /\ rows[Row(q.id)] = row
  OBVIOUS
<1> HIDE DEF row
<1>9. /\ DOMAIN p = Fields /\ p.at = Head(q.then) /\ p.then = Tail(q.then) /\ p.id = q.id
      /\ p.date = q.date /\ p.from = q.from /\ p.cover = q.cover /\ p.row = row
      /\ p.atomic = q.atomic /\ p.rebuilt = q.rebuilt /\ p.mine = q.mine /\ p.alone = q.alone
  <2> DEFINE r == Proceed(q)
  <2>1. /\ DOMAIN r = Fields
        /\ r.at = Head(q.then) /\ r.then = Tail(q.then) /\ r.id = q.id /\ r.date = q.date
        /\ r.from = q.from /\ r.cover = q.cover /\ r.mine = q.mine /\ r.atomic = q.atomic
        /\ r.rebuilt = q.rebuilt /\ r.alone = q.alone
    <3>1. DOMAIN q = Fields
      BY <1>2
    <3>2. QED
      BY <3>1, ProceedFields
  <2> HIDE DEF r
  <2>2. p = [r EXCEPT !.row = row]
    BY DEF r
  <2> HIDE DEF p
  <2>3. QED
    BY <2>1, <2>2 DEF Fields
<1>0. q = tx[c] /\ V = Seen(c) /\ old = V[Row(q.id)]
  OBVIOUS
<1> HIDE DEF q, V, old, rows, p
<1>10. AreRows(rows) /\ Lone(p, V, Over(rows, V)) /\ p.at \notin {"write", "current"}
  <2>1. Kept(V)
    BY <1>3, <1>4
  <2>2. q.row # Absent => /\ row \in TransactionRow /\ row.date = q.row.date
                          /\ row.kind = q.row.kind /\ row.period = V[Row(q.id)].period
    BY <1>0, <1>7
  <2>3. /\ p.at = Head(q.then) /\ p.then = Tail(q.then) /\ p.id = q.id /\ p.date = q.date
        /\ p.from = q.from /\ p.cover = q.cover /\ p.row = row /\ p.atomic = q.atomic
        /\ p.rebuilt = q.rebuilt
    BY <1>9
  <2>4. /\ AreTables(V) /\ IsRequest(q) /\ q.at = "write" /\ IsMeant(q, TransactionsOf(V))
        /\ ~ q.rebuilt /\ q.from \in Nat /\ DOMAIN rows = {Row(q.id)} /\ rows[Row(q.id)] = row
    BY <1>1, <1>3, <1>5, <1>8
  <2>5. q.row = Absent => row = Absent
    BY <1>7
  <2>6. QED
    BY <2>1, <2>2, <2>3, <2>4, <2>5, LoneHasWritten
<1>11. p.atomic /\ Lone(p, db, Over(rows, Seen(c)))
  BY <1>0, <1>4, <1>5, <1>9, <1>10
<1>12. QED
  BY <1>0, <1>1, <1>9, <1>10, <1>11, LoneWrites

\* The rows of a request become the committed ones.
LEMMA LoneCommits ==
  ASSUME RebuildInv, LoneInv, OneByOne, NEW c \in Clients, Commit(c)
  PROVE  LoneInv' /\ Becoming(db, db')
<1>1. /\ tx[c] # Idle /\ tx[c].at = "commit" /\ db' = Seen(c) /\ tx' = [tx EXCEPT ![c] = Idle]
      /\ sends' = sends /\ DOMAIN tx = Clients
  BY DEF Commit, At, RebuildInv
<1>2. Lone(tx[c], db, Seen(c)) /\ sends[c] # {}
  BY <1>1, OfLone DEF Underway
<1>3. /\ RefersToRows(Seen(c)) /\ OneRowEach(Seen(c))
      /\ Ends(db, Both(TransactionsOf(Seen(c)), PeriodsOf(Seen(c))))
  BY <1>1, <1>2 DEF Lone, Sound, LeadsToStep
<1>4. Becoming(db, db')
  BY <1>1, <1>3 DEF Becoming, Ends, Both
<1>5. tx'[c] = Idle /\ \A d \in Clients \ {c} : tx'[d] = tx[d]
  BY <1>1
<1>6. QED
  BY <1>1, <1>2, <1>4, <1>5, LoneGoesOn

LEMMA LoneRollsBack ==
  ASSUME RebuildInv, LoneInv, OneByOne, NEW c \in Clients, Rollback(c)
  PROVE  LoneInv' /\ Becoming(db, db')
<1>1. /\ tx[c] # Idle /\ db' = db /\ tx' = [tx EXCEPT ![c] = Idle]
      /\ sends' = sends /\ DOMAIN tx = Clients
  BY DEF Rollback, RebuildInv
<1>2. sends[c] # {}
  BY <1>1, OfLone
<1>3. Becoming(db, db')
  BY <1>1 DEF Becoming
<1>4. tx'[c] = Idle /\ \A d \in Clients \ {c} : tx'[d] = tx[d]
  BY <1>1
<1>5. QED
  BY <1>1, <1>2, <1>3, <1>4, LoneGoesOn

-----------------------------------------------------------------------------
(* A request on its own begins *)

LEMMA LoneBegins ==
  ASSUME RebuildInv, LoneInv, OneByOne, NEW c \in Clients, NEW kind, NEW q, Begin(c, kind, q),
         q = [f \in Fields |-> q[f]], q.alone = TRUE, Lone(q, db, Over(q.mine, db))
  PROVE  LoneInv' /\ Becoming(db, db')
<1>1. /\ sends[c] # {} /\ db' = db /\ sends' = sends
      /\ tx'[c] = [q EXCEPT !.alone = (Others(c) = {})]
      /\ \A d \in Clients \ {c} : tx[d] = Idle => tx'[d] = Idle
  BY DEF Begin
<1>2. \A d \in Clients \ {c} : tx[d] = Idle
  BY <1>1 DEF LoneInv, OneByOne
<1>3. (Others(c) = {}) = TRUE
  BY <1>2 DEF Others
<1>4. [q EXCEPT !.alone = TRUE] = q
  BY DEF Fields
<1>5. tx'[c] = q
  BY <1>1, <1>3, <1>4
<1>6. Becoming(db, db')
  BY <1>1 DEF Becoming
<1>7. \A d \in Clients \ {c} : tx'[d] = tx[d]
  BY <1>1, <1>2
<1>8. q.alone /\ Lone(q, db', Over(q.mine, db'))
  BY <1>1
<1>9. QED
  BY <1>1, <1>5, <1>6, <1>7, <1>8, LoneGoesOn

LEMMA LoneBeginsCreate ==
  ASSUME RebuildInv, LoneInv, OneByOne, NEW c \in Clients, NEW i \in TxIds,
         NEW date \in Instants, NEW kind \in {"salary", "other"}, BeginCreate(c, i, date, kind)
  PROVE  LoneInv' /\ Becoming(db, db')
<1> DEFINE row == [date |-> date, kind |-> kind, period |-> Null]
           mine == [key \in {Row(i)} |-> row]
           q == [NewRequest EXCEPT !.at = "locate", !.then = <<"commit">>, !.id = i, !.row = row,
                                   !.date = date, !.mine = mine]
           T == TransactionsOf(db)
           P == PeriodsOf(db)
           U == Over(mine, db)
           N == TransactionsOf(U)
<1>1. Begin(c, "create", q) /\ db[Row(i)] = Absent
  BY DEF BeginCreate
<1>2. row \in TransactionRow /\ row.date = date /\ row.kind = kind /\ row.period = Null
  BY DEF TransactionRow
<1>3. row # Absent
  BY <1>2, RebuildRowsAssumption
<1> HIDE DEF row
<1>5. DOMAIN mine = {Row(i)} /\ mine[Row(i)] = row
  OBVIOUS
<1> HIDE DEF mine
<1>6. /\ q = [f \in Fields |-> q[f]]
      /\ q.at = "locate" /\ q.then = <<"commit">> /\ q.id = i /\ q.row = row
      /\ q.date = date /\ q.mine = mine /\ q.atomic = TRUE /\ q.rebuilt = FALSE
      /\ q.cover = {} /\ q.from = 0 /\ q.alone = TRUE
  BY DEF NewRequest, Fields
<1>7. /\ AreTables(db) /\ RefersToRows(db) /\ OneRowEach(db)
      /\ Proved!IsSequence(P) /\ Proved!Partition(P)
  BY DEF RebuildInv, LoneInv, Kept, Proved!Consistent
<1>8. /\ Proved!IsTable(T) /\ DOMAIN T = DOMAIN Transactions(db)
  BY <1>7, NamedTransactions
<1>9. i \notin DOMAIN T /\ i # 0
  BY <1>1, <1>8, RequestIdsAssumption DEF Transactions
<1>0. T = TransactionsOf(db) /\ P = PeriodsOf(db) /\ U = Over(mine, db) /\ N = TransactionsOf(U)
  OBVIOUS
<1> HIDE DEF q, T, P, U, N
<1>10. /\ AreRows(mine) /\ AreTables(U) /\ RefersToRows(U)
       /\ U[Row(i)] = row
       /\ Periods(U) = Periods(db) /\ PeriodsOf(U) = P
       /\ \A j : j \in DOMAIN N <=> IF j = i THEN row # Absent ELSE j \in DOMAIN T
       /\ row # Absent => N[i] = FiledWith(row, KeyOf(row.period))
       /\ \A j \in DOMAIN N \ {i} : N[j] = T[j]
  <2>1. /\ row = Absent \/ row \in TransactionRow
        /\ row # Absent => row.period = Null \/ row.period \in DOMAIN Periods(db)
    BY <1>2
  <2>2. QED
    BY <1>0, <1>5, <1>7, <2>1, OneTransactionWritten
<1>11. N = Proved!Inserted(T, i, date, kind)
  <2>1. DOMAIN N = DOMAIN T \union {i}
    BY <1>3, <1>10
  <2>2. N[i] = [date |-> date, kind |-> kind, period |-> Null]
    BY <1>3, <1>10 DEF FiledWith, KeyOf, row
  <2>3. N = [j \in DOMAIN N |-> N[j]]
    BY <1>0, <1>10, NamedTransactions
  <2>4. N = [j \in DOMAIN T \union {i} |->
               IF j = i THEN [date |-> date, kind |-> kind, period |-> Null] ELSE T[j]]
    BY <1>10, <2>1, <2>2, <2>3
  <2>5. QED
    BY <2>4 DEF Proved!Inserted
<1>12. Ends(db, Reaching(q, N, P))
  <2>1. i \in TxIds \ DOMAIN T
    BY <1>9
  <2>2. q.id = i /\ q.date = date /\ q.row.kind = kind /\ q.row.period = Null
    BY <1>2, <1>6
  <2>3. QED
    BY <1>0, <1>8, <1>9, <1>11, <2>1, <2>2, InsertEnds
<1>13. Sound(q, U)
  <2>1. OneRowEach(U) /\ Proved!IsSequence(PeriodsOf(U)) /\ Proved!Partition(PeriodsOf(U))
    BY <1>7, <1>10 DEF OneRowEach
  <2>2. U[Row(q.id)].kind = q.row.kind /\ q.row.period = U[Row(q.id)].period
    BY <1>6, <1>10
  <2>3. QED
    BY <1>6, <1>10, <2>1, <2>2 DEF Sound
<1>14. LeadsToStep(q, db, U)
  BY <1>0, <1>6, <1>10, <1>12 DEF LeadsToStep
<1>15. OneWrite(q, U)
  BY <1>6 DEF OneWrite
<1>16. Lone(q, db, Over(q.mine, db))
  BY <1>0, <1>6, <1>13, <1>14, <1>15 DEF Lone
<1>17. QED
  BY <1>1, <1>6, <1>16, LoneBegins

\* What is kept of the committed rows, of a request that has written none.
LEMMA LoneFromKept ==
  ASSUME RebuildInv, LoneInv, OneByOne, NEW q, q.mine = <<>>, q.from \in Nat, ~ Mine(q),
         q.at \in {"write", "current", "rebuild"}, q.at = "current" => q.date \in Instants
  PROVE  Over(q.mine, db) = db /\ Sound(q, db)
<1>1. AreTables(db) /\ Kept(db)
  BY DEF RebuildInv, LoneInv
<1>2. DOMAIN q.mine = {}
  OBVIOUS
<1>3. Over(q.mine, db) = db
  BY <1>1, <1>2, OverNothing DEF AreTables
<1>4. Sound(q, db)
  BY <1>1, <1>2 DEF Sound, Kept, Proved!Consistent
<1>5. QED
  BY <1>3, <1>4

\* The transaction an edit or a removal is about to write.
LEMMA StoredTransaction ==
  ASSUME RebuildInv, NEW i \in TxIds, db[Row(i)] # Absent, NEW T, T = TransactionsOf(db)
  PROVE  /\ i \in DOMAIN T /\ T[i].date = db[Row(i)].date /\ T[i].date \in Nat
         /\ IsSalary(T[i]) <=> IsSalary(db[Row(i)])
<1>1. AreTables(db)
  BY DEF RebuildInv
<1>2. i \in DOMAIN Transactions(db)
  BY DEF Transactions
<1>3. i \in DOMAIN T
  BY <1>1, <1>2, NamedTransactions
<1>4. db[Row(i)] \in TransactionRow /\ T[i].date = db[Row(i)].date /\ T[i].kind = db[Row(i)].kind
  BY <1>1, <1>3, NamedTransactions
<1>5. QED
  BY <1>3, <1>4, InstantsAssumption DEF TransactionRow, IsSalary

LEMMA LoneBeginsWrite ==
  ASSUME RebuildInv, LoneInv, OneByOne, NEW c \in Clients, NEW kind, NEW q, Begin(c, kind, q),
         q = [f \in Fields |-> q[f]], q.alone = TRUE, q.at = "write", q.mine = <<>>,
         q.from \in Nat, q.atomic = TRUE, IsMeant(q, TransactionsOf(db))
  PROVE  LoneInv' /\ Becoming(db, db')
<1>1. ~ Mine(q)
  BY DEF Mine
<1>2. Over(q.mine, db) = db /\ Sound(q, db)
  BY <1>1, LoneFromKept
<1>3. LeadsToStep(q, db, db) /\ OneWrite(q, db)
  BY DEF LeadsToStep, OneWrite
<1>4. Lone(q, db, Over(q.mine, db))
  BY <1>2, <1>3 DEF Lone
<1>5. QED
  BY <1>4, LoneBegins

LEMMA LoneBeginsUpdate ==
  ASSUME RebuildInv, LoneInv, OneByOne, NEW c \in Clients, NEW i \in TxIds,
         NEW date \in Instants, NEW kind \in {"salary", "other"}, BeginUpdate(c, i, date, kind)
  PROVE  LoneInv' /\ Becoming(db, db')
<1> DEFINE old == db[Row(i)]
           row == [date |-> date, kind |-> kind]
           q == [NewRequest EXCEPT
                    !.at = "write", !.id = i, !.date = date, !.row = row,
                    !.from = IF old.date < date THEN old.date ELSE date,
                    !.then = IF IsSalary(old) THEN <<"rebuild", "locate", "commit">>
                             ELSE <<"locate", "commit">>]
           T == TransactionsOf(db)
<1>1. Begin(c, "update", q) /\ old # Absent
  BY DEF BeginUpdate
<1>2. row # Absent
  BY RebuildRowsAssumption DEF RowEdit
<1>3. /\ i \in DOMAIN T /\ T[i].date = old.date /\ T[i].date \in Nat
      /\ IsSalary(T[i]) <=> IsSalary(old)
  BY <1>1, StoredTransaction
<1> HIDE DEF row, old, T
<1>4. /\ q = [f \in Fields |-> q[f]]
      /\ q.at = "write" /\ q.id = i /\ q.row = row /\ q.date = date /\ q.mine = <<>>
      /\ q.from = (IF old.date < date THEN old.date ELSE date)
      /\ q.then = (IF IsSalary(old) THEN <<"rebuild", "locate", "commit">>
                   ELSE <<"locate", "commit">>)
      /\ q.atomic = TRUE /\ q.cover = {} /\ q.alone = TRUE
  BY DEF NewRequest, Fields
<1> HIDE DEF q
<1>5. q.from \in Nat
  BY <1>3, <1>4, InstantsAssumption
<1>6. IsMeant(q, T)
  <2>1. q.from = IF T[q.id].date < q.date THEN T[q.id].date ELSE q.date
    BY <1>3, <1>4
  <2>2. q.then = IF IsSalary(T[q.id]) THEN <<"rebuild", "locate", "commit">>
                 ELSE <<"locate", "commit">>
    BY <1>3, <1>4
  <2>3. QED
    BY <1>2, <1>3, <1>4, <2>1, <2>2 DEF IsMeant
<1>7. QED
  BY <1>1, <1>4, <1>5, <1>6, LoneBeginsWrite DEF T

LEMMA LoneBeginsRemove ==
  ASSUME RebuildInv, LoneInv, OneByOne, NEW c \in Clients, NEW i \in TxIds, BeginRemove(c, i)
  PROVE  LoneInv' /\ Becoming(db, db')
<1> DEFINE old == db[Row(i)]
           q == [NewRequest EXCEPT
                    !.at = "write", !.id = i, !.from = old.date,
                    !.then = IF IsSalary(old) THEN <<"rebuild", "commit">> ELSE <<"commit">>]
           T == TransactionsOf(db)
<1>1. Begin(c, "remove", q) /\ old # Absent
  BY DEF BeginRemove
<1>2. /\ i \in DOMAIN T /\ T[i].date = old.date /\ T[i].date \in Nat
      /\ IsSalary(T[i]) <=> IsSalary(old)
  BY <1>1, StoredTransaction
<1> HIDE DEF old, T
<1>3. /\ q = [f \in Fields |-> q[f]]
      /\ q.at = "write" /\ q.id = i /\ q.row = Absent /\ q.mine = <<>> /\ q.from = old.date
      /\ q.then = (IF IsSalary(old) THEN <<"rebuild", "commit">> ELSE <<"commit">>)
      /\ q.atomic = TRUE /\ q.cover = {} /\ q.alone = TRUE
  BY DEF NewRequest, Fields
<1> HIDE DEF q
<1>4. IsMeant(q, T)
  <2>1. q.from = T[q.id].date
    BY <1>2, <1>3
  <2>2. q.then = IF IsSalary(T[q.id]) THEN <<"rebuild", "commit">> ELSE <<"commit">>
    BY <1>2, <1>3
  <2>3. QED
    BY <1>2, <1>3, <2>1, <2>2 DEF IsMeant
<1>5. QED
  BY <1>1, <1>2, <1>3, <1>4, LoneBeginsWrite DEF T

LEMMA LoneBeginsCurrent ==
  ASSUME RebuildInv, LoneInv, OneByOne, NEW c \in Clients, NEW now \in Instants,
         NEW atomic \in BOOLEAN, BeginCurrent(c, now, atomic)
  PROVE  LoneInv' /\ Becoming(db, db')
<1> DEFINE q == [NewRequest EXCEPT !.at = "current", !.then = <<"commit">>,
                                   !.date = now, !.atomic = atomic]
<1>1. Begin(c, "current", q)
  BY DEF BeginCurrent
<1>2. /\ q = [f \in Fields |-> q[f]]
      /\ q.at = "current" /\ q.id = 0 /\ q.then = <<"commit">> /\ q.date = now
      /\ q.mine = <<>> /\ q.from = 0 /\ q.alone = TRUE
  BY DEF NewRequest, Fields
<1> HIDE DEF q
<1>3. Over(q.mine, db) = db /\ Sound(q, db)
  <2>1. q.from \in Nat /\ ~ Mine(q)
    BY <1>2 DEF Mine
  <2>2. QED
    BY <1>2, <2>1, LoneFromKept
<1>4. LeadsToStep(q, db, db)
  BY <1>2 DEF LeadsToStep
<1>5. OneWrite(q, db)
  <2>1. q.then # <<"locate", "commit">>
    <3>1. Len(<<"commit">>) = 1
      OBVIOUS
    <3>2. Len(<<"locate", "commit">>) = 2
      OBVIOUS
    <3>3. QED
      BY <1>2, <3>1, <3>2
  <2>2. QED
    BY <1>2, <2>1 DEF OneWrite
<1>6. Lone(q, db, Over(q.mine, db))
  BY <1>3, <1>4, <1>5 DEF Lone
<1>7. QED
  BY <1>1, <1>2, <1>6, LoneBegins

LEMMA LoneBeginsMigrate ==
  ASSUME RebuildInv, LoneInv, OneByOne, NEW c \in Clients, BeginMigrate(c)
  PROVE  LoneInv' /\ Becoming(db, db')
<1> DEFINE q == [NewRequest EXCEPT !.at = "rebuild", !.then = <<"commit">>]
           T == TransactionsOf(db)
           P == PeriodsOf(db)
<1>1. Begin(c, "migrate", q)
  BY DEF BeginMigrate
<1>2. /\ q = [f \in Fields |-> q[f]]
      /\ q.at = "rebuild" /\ q.id = 0 /\ q.then = <<"commit">> /\ q.cover = {}
      /\ q.mine = <<>> /\ q.from = 0 /\ q.alone = TRUE /\ q.atomic = TRUE
  BY DEF NewRequest, Fields
<1> HIDE DEF q
<1>3. Over(q.mine, db) = db /\ Sound(q, db)
  <2>1. q.from \in Nat /\ ~ Mine(q)
    BY <1>2 DEF Mine
  <2>2. QED
    BY <1>2, <2>1, LoneFromKept
<1>4. Rebuilding(q, db, T, P)
  <2>1. q.then # <<"locate", "commit">> /\ q.then # <<"find", "commit">>
    <3>1. Len(<<"commit">>) = 1
      OBVIOUS
    <3>2. Len(<<"locate", "commit">>) = 2 /\ Len(<<"find", "commit">>) = 2
      OBVIOUS
    <3>3. QED
      BY <1>2, <3>1, <3>2
  <2>2. \A U, Q : Rest(q, U, Q) = Both(U, Q)
    BY <2>1 DEF Rest
  <2> DEFINE R == Rebuild(T, P, 0, {})
  <2>3. Ends(db, Both(R.txs, R.periods))
    BY DEF Ends, Both, IsStep
  <2>4. R = Rebuild(T, P, q.from, q.cover)
    BY <1>2
  <2> HIDE DEF R
  <2>5. Ends(db, Rest(q, R.txs, R.periods))
    BY <2>2, <2>3
  <2> HIDE DEF T, P
  <2>6. QED
    BY <2>4, <2>5 DEF Rebuilding
<1>5. LeadsToStep(q, db, db)
  BY <1>2, <1>4 DEF LeadsToStep
<1>6. OneWrite(q, db)
  BY <1>2 DEF OneWrite
<1>7. Lone(q, db, Over(q.mine, db))
  BY <1>3, <1>5, <1>6 DEF Lone
<1>8. QED
  BY <1>1, <1>2, <1>7, LoneBegins

-----------------------------------------------------------------------------
(* Every request, one at a time *)

\* Tables as buildPeriodSpecs leaves them are kept.
LEMMA InitKept ==
  ASSUME InitRebuild
  PROVE  Kept(db)
<1>0. PICK ids \in SUBSET TxIds, cover \in SUBSET Instants : \E T \in [ids -> RowEdit] :
        BuiltRows(T, DesiredPeriods(T, cover))
  BY InitBuilds
<1>1. PICK T \in [ids -> RowEdit] : BuiltRows(T, DesiredPeriods(T, cover))
  BY <1>0
<1> DEFINE P == DesiredPeriods(T, cover)
           N == TransactionsOf(db)
           S == Periods(db)
<1>2. /\ \A i \in ids : T[i].date \in Instants /\ T[i].kind \in {"salary", "other"}
      /\ DOMAIN T = ids /\ ids \subseteq TxIds /\ cover \in SUBSET Nat
  BY InstantsAssumption DEF RowEdit
<1>3. AreTables(db)
  BY InitRebuildInv DEF RebuildInv
<1>4. P = DesiredPeriods(T, cover) /\ N = TransactionsOf(db) /\ S = Periods(db)
  OBVIOUS
<1>5. P = [k \in DOMAIN P |-> P[k]]
  BY DEF DesiredPeriods
<1> HIDE DEF P, N, S
<1>6. /\ \A i \in ids : db[Row(i)] = [date |-> T[i].date, kind |-> T[i].kind,
                                      period |-> <<"period", PeriodForDate(P, T[i].date), Before>>]
      /\ \A i \in TxIds \ ids : db[Row(i)] = Absent
      /\ \A r \in PeriodRows :
            db[r] = IF r[3] = Before /\ r[2] \in DOMAIN P THEN P[r[2]] ELSE Absent
      /\ Proved!IsSequence(P) /\ Proved!Partition(P)
      /\ \A k \in DOMAIN P : k \in TxIds \union {Bootstrap} /\ P[k] \in PeriodRow
      /\ \A i \in ids : /\ PeriodForDate(P, T[i].date) \in CoveringKeys(P, T[i].date)
                        /\ <<"period", PeriodForDate(P, T[i].date), Before>> \in PeriodRows
  BY <1>1, <1>2, <1>4 DEF BuiltRows
<1>7. \A i \in ids : PeriodForDate(P, T[i].date) \in DOMAIN P
  BY <1>6 DEF CoveringKeys
<1>8. ASSUME NEW i \in ids
       PROVE  /\ db[Row(i)] # Absent
              /\ db[Row(i)].date = T[i].date /\ db[Row(i)].kind = T[i].kind
              /\ db[Row(i)].period = <<"period", PeriodForDate(P, T[i].date), Before>>
              /\ db[Row(i)].period \in PeriodRows
  <2> DEFINE r == <<"period", PeriodForDate(P, T[i].date), Before>>
  <2>1. r \in PeriodRows
    BY <1>6
  <2>2. db[Row(i)] = [date |-> T[i].date, kind |-> T[i].kind, period |-> r]
    BY <1>6
  <2> HIDE DEF r
  <2>3. db[Row(i)] \in TransactionRow
    BY <1>2, <2>1, <2>2 DEF TransactionRow
  <2>4. db[Row(i)] # Absent
    BY <2>3, RebuildRowsAssumption
  <2>5. db[Row(i)].date = T[i].date /\ db[Row(i)].kind = T[i].kind /\ db[Row(i)].period = r
    BY <2>2
  <2>6. QED
    BY <2>1, <2>4, <2>5 DEF r
<1>9. DOMAIN Transactions(db) = ids /\ DOMAIN N = ids
  <2>1. \A i \in TxIds : i \in ids <=> db[Row(i)] # Absent
    BY <1>6, <1>8
  <2>2. DOMAIN Transactions(db) = ids
    BY <1>2, <2>1 DEF Transactions
  <2>3. QED
    BY <1>3, <1>4, <2>2, NamedTransactions
<1>10. /\ Proved!IsTable(N)
       /\ \A i \in ids : /\ N[i].date = T[i].date /\ N[i].kind = T[i].kind
                         /\ N[i].period = KeyOf(db[Row(i)].period)
  <2>1. /\ Proved!IsTable(N)
        /\ \A i \in DOMAIN N : /\ N[i].date = db[Row(i)].date /\ N[i].kind = db[Row(i)].kind
                               /\ N[i].period = KeyOf(db[Row(i)].period)
    BY <1>3, <1>4, NamedTransactions
  <2>2. QED
    BY <1>8, <1>9, <2>1
<1>11. Proved!FollowsSalaries(N, P)
  <2>1. P = DesiredPeriods(N, cover)
    BY <1>2, <1>4, <1>9, <1>10, DesiredByDates
  <2>2. QED
    BY <1>2, <1>10, <2>1, SameDesired, Proved!DesiredIsPartition, RowsAssumptions
<1>12. \A r : r \in DOMAIN S <=> r \in PeriodRows /\ r[3] = Before /\ r[2] \in DOMAIN P
  <2>1. \A k \in DOMAIN P : P[k] # Absent
    BY <1>6, RebuildRowsAssumption
  <2>2. QED
    BY <1>3, <1>6, <1>4, <2>1, TableRows
<1>13. \A k \in DOMAIN P : <<"period", k, Before>> \in DOMAIN S
  <2>1. \A k \in DOMAIN P : <<"period", k, Before>> \in PeriodRows
    BY <1>6, PeriodRowParts
  <2>2. QED
    BY <1>12, <2>1
<1>14. IsRowwise(S, P)
  <2>1. \A r \in DOMAIN S : r[2] \in DOMAIN P /\ S[r] = P[r[2]]
    BY <1>3, <1>6, <1>4, <1>12, TableRows
  <2>2. \A k \in DOMAIN P : \E r \in DOMAIN S : r[2] = k
    BY <1>13
  <2>3. \A r, s \in DOMAIN S : r[2] = s[2] => r = s
    BY <1>12 DEF PeriodRows
  <2>4. DOMAIN S \subseteq PeriodRows
    BY <1>12
  <2>5. QED
    BY <2>1, <2>2, <2>3, <2>4 DEF IsRowwise
<1>15. PeriodsOf(db) = P
  BY <1>3, <1>4, <1>5, <1>14, RowwisePeriods
<1>16. RefersToRows(db)
  <2> SUFFICES ASSUME NEW i \in ids PROVE db[Row(i)].period \in DOMAIN S
    BY <1>4, <1>9 DEF RefersToRows
  <2>1. QED
    BY <1>7, <1>8, <1>13
<1>17. OneRowEach(db)
  BY <1>4, <1>14 DEF OneRowEach, IsRowwise
<1>18. ASSUME NEW i \in DOMAIN N PROVE Proved!InItsPeriod(N[i], P)
  <2>1. i \in ids
    BY <1>9
  <2>2. N[i].period = PeriodForDate(P, T[i].date)
    BY <1>8, <1>10, <2>1, RebuildRowsAssumption DEF KeyOf
  <2>3. N[i].period \in Proved!CoveringKeys(P, N[i].date)
    <3>1. PeriodForDate(P, T[i].date) \in CoveringKeys(P, T[i].date) /\ N[i].date = T[i].date
      BY <1>6, <1>10, <2>1
    <3>2. QED
      BY <2>2, <3>1, SameCovering
  <2>4. QED
    BY <2>3 DEF Proved!CoveringKeys, Proved!InItsPeriod
<1>19. DOMAIN N # {} => DOMAIN P # {}
  BY <1>7, <1>9
<1>20. Proved!Consistent(N, P)
  BY <1>6, <1>10, <1>11, <1>18 DEF Proved!Consistent
<1>21. QED
  BY <1>4, <1>15, <1>16, <1>17, <1>19, <1>20 DEF Kept

LEMMA InitLone == InitRebuild => LoneInv
<1> SUFFICES ASSUME InitRebuild PROVE LoneInv
  OBVIOUS
<1>1. \A c \in Clients : tx[c] = Idle
  BY DEF InitRebuild
<1>2. QED
  BY <1>1, InitKept DEF LoneInv

\* Nobody takes up sending requests.
LEMMA SendsStay == [NextRebuild]_rebuildVars => sends' = sends
<1> USE DEF Read, Write
<1>1. ASSUME NEW c \in Clients, Request(c) PROVE sends' = sends
  BY <1>1 DEF Request, BeginCreate, BeginUpdate, BeginRemove, BeginCurrent, BeginMigrate, Begin
<1>2. ASSUME NEW c \in Clients, Statement(c) PROVE sends' = sends
  <2>1. CASE WriteTransaction(c)
    BY <2>1 DEF WriteTransaction
  <2>2. CASE FindOpen(c) \/ LocateDate(c) \/ FindPeriod(c)
    BY <2>2 DEF FindOpen, LocateDate, FindPeriod
  <2>3. CASE AssignPeriod(c)
    BY <2>3 DEF AssignPeriod
  <2>4. CASE ReadSalaries(c) \/ ReadOldest(c) \/ ReadExisting(c)
    BY <2>4 DEF ReadSalaries, ReadOldest, ReadExisting
  <2>5. CASE WritePeriod(c)
    BY <2>5 DEF WritePeriod
  <2>6. CASE ReadPeriods(c) \/ Reassign(c)
    BY <2>6 DEF ReadPeriods, Reassign
  <2>7. CASE Commit(c)
    BY <2>7 DEF Commit
  <2>8. QED
    BY <1>2, <2>1, <2>2, <2>3, <2>4, <2>5, <2>6, <2>7 DEF Statement
<1>3. ASSUME NEW c \in Clients, Rollback(c) PROVE sends' = sends
  BY <1>3 DEF Rollback
<1>4. QED
  BY <1>1, <1>2, <1>3 DEF NextRebuild, rebuildVars

\* A request on its own goes on, and what it commits is a step.
LEMMA NextLone ==
  ASSUME RebuildInv, LoneInv, [NextRebuild]_rebuildVars
  PROVE  LoneInv' /\ (OneByOne => Becoming(db, db'))
<1>1. sends' = sends
  BY SendsStay
<1>2. OneByOne' <=> OneByOne
  BY <1>1 DEF OneByOne
<1>3. CASE ~ OneByOne
  BY <1>2, <1>3 DEF LoneInv
<1>4. CASE OneByOne
  <2> USE <1>4
  <2>1. CASE UNCHANGED rebuildVars
    <3>1. db' = db /\ tx' = tx
      BY <2>1 DEF rebuildVars
    <3>2. LoneInv'
      <4>1. \A c \in Clients : Seen(c)' = Seen(c)
        BY <3>1 DEF Seen
      <4>2. \A c \in Clients : tx[c] # Idle =>
               sends[c] # {} /\ tx[c].alone /\ Lone(tx[c], db, Seen(c))
        BY DEF LoneInv
      <4>3. \A c \in Clients : tx'[c] # Idle =>
               sends'[c] # {} /\ tx'[c].alone /\ Lone(tx'[c], db', Seen(c)')
        BY <1>1, <3>1, <4>1, <4>2
      <4>4. Kept(db')
        BY <3>1 DEF LoneInv
      <4>5. QED
        BY <4>3, <4>4 DEF LoneInv
    <3>3. QED
      BY <3>1, <3>2 DEF Becoming
  <2>2. ASSUME NEW c \in Clients, Request(c) PROVE LoneInv' /\ Becoming(db, db')
    BY <2>2, LoneBeginsCreate, LoneBeginsUpdate, LoneBeginsRemove, LoneBeginsCurrent,
       LoneBeginsMigrate DEF Request
  <2>3. ASSUME NEW c \in Clients, Statement(c) PROVE LoneInv' /\ Becoming(db, db')
    BY <2>3, LoneWritesTransaction, LoneFindsOpen, LoneLocates, LoneFinds, LoneAssigns,
       LoneReadsSalaries, LoneReadsOldest, LoneReadsExisting, LoneWritesPeriod,
       LoneReadsPeriods, LoneReassigns, LoneCommits DEF Statement
  <2>4. ASSUME NEW c \in Clients, Rollback(c) PROVE LoneInv' /\ Becoming(db, db')
    BY <2>4, LoneRollsBack
  <2>5. QED
    BY <2>1, <2>2, <2>3, <2>4 DEF NextRebuild
<1>5. QED
  BY <1>3, <1>4

\* PeriodRebuild implements TransactionPeriods when nobody else sends requests:
\* the statements of a request commit what one action of TransactionPeriods says
\* or, rolled back at any of them, nothing.  So what is proved of its requests
\* holds of the rows that rebuild() reads and writes one after the other.
THEOREM RequestsAlwaysSteps == RebuildSpec => RequestsAreSteps
<1>1. RebuildInv /\ LoneInv /\ [NextRebuild]_rebuildVars
        => LoneInv' /\ [OneByOne => [Requests!Next]_(Requests!vars)]_rebuildVars
  <2> SUFFICES ASSUME RebuildInv, LoneInv, [NextRebuild]_rebuildVars
               PROVE  LoneInv' /\ (OneByOne => [Requests!Next]_(Requests!vars))
    OBVIOUS
  <2>1. LoneInv' /\ (OneByOne => Becoming(db, db'))
    BY NextLone
  <2>2. ASSUME OneByOne PROVE [Requests!Next]_(Requests!vars)
    <3>1. Becoming(db, db')
      BY <2>1, <2>2
    <3>2. AreTables(db)
      BY DEF RebuildInv
    <3>3. CASE db' = db
      BY <3>3 DEF Requests!vars
    <3>4. CASE IsStep(TransactionsOf(db), PeriodsOf(db), TransactionsOf(db'), PeriodsOf(db'))
      BY <3>2, <3>4, StepsAreRequests
    <3>5. QED
      BY <3>1, <3>3, <3>4 DEF Becoming
  <2>3. QED
    BY <2>1, <2>2
<1>2. QED
  BY <1>1, InitLone, RebuildsKeepInv, PTL DEF RebuildSpec, RequestsAreSteps
=============================================================================
