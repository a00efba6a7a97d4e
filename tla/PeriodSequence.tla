--------------------------- MODULE PeriodSequence ---------------------------
(***************************************************************************)
(* The financial periods of one user as a value: what                      *)
(* `FinancialPeriodService` derives from the table of transactions, and    *)
(* what one call of `rebuild` or of `assignTransactionToPeriod` does to    *)
(* the tables `transactions` and `financial_periods`.                      *)
(*                                                                         *)
(*   instant       a natural number, counted from a midnight in Bogota;    *)
(*                 a day lasts DayLength instants                          *)
(*   transactions  a function from the ids in the table to records with    *)
(*                 (at least) the fields date, kind and period             *)
(*   periods       a function from the key of each stored period to its    *)
(*                 start and its end.  The key is the id of the salary     *)
(*                 that anchors it, or Bootstrap; rebuild() keeps at most  *)
(*                 one row per key and gives a row that stays under its    *)
(*                 key the same id, so the key stands for the id too.      *)
(*                                                                         *)
(* The label of a period is a function of its start and its end and is     *)
(* left out.                                                               *)
(***************************************************************************)
EXTENDS Integers, FiniteSetsExt

CONSTANTS
    DayLength,  \* instants in a day
    Bootstrap,  \* key of the period no salary anchors (anchorTxId = null)
    Null,       \* SQL NULL: the end of the open period, no period assigned
    TxIds,      \* ids a transaction can be given
    Instants    \* instants a transaction can be dated, and a request made

ASSUME DayLengthAssumption == DayLength \in Nat \ {0}
ASSUME KeysAssumption == Bootstrap \notin Nat /\ Null \notin Nat /\ Null # Bootstrap
ASSUME TxIdsAssumption == TxIds \subseteq Nat
ASSUME InstantsAssumption == Instants \subseteq Nat

-----------------------------------------------------------------------------
(* Time *)

\* Mutant: a day that starts one instant before midnight.
StartOfEarlierInstant(date) == date - (date % DayLength) - 1

\* Midnight, in Bogota, of the day of an instant.
StartOfFinancialDay(date) == date - (date % DayLength)

-----------------------------------------------------------------------------
(* The sequence the salaries ask for *)

IsSalary(tx) == tx.kind = "salary"

Salaries(T) == {i \in DOMAIN T : IsSalary(T[i])}

\* orderBy: [{ transactionDate: 'asc' }, { id: 'asc' }]
Precedes(T, i, j) == \/ T[i].date < T[j].date
                     \/ T[i].date = T[j].date /\ i < j

SameDay(T, i, j) == StartOfFinancialDay(T[i].date) = StartOfFinancialDay(T[j].date)

\* Mutant: a period for every salary, two for a day with two salaries.
EverySalary(T) == Salaries(T)

\* One salary per day opens a period: the first of its day.
Anchors(T) == {i \in Salaries(T) :
                 \A j \in Salaries(T) \ {i} : SameDay(T, i, j) => Precedes(T, i, j)}

\* The dates the sequence has to reach back to: those of the transactions and
\* `cover`, a set with the date rebuild() was asked to cover, or empty.
DatesToReach(T, cover) == {T[i].date : i \in DOMAIN T} \union cover

NeedsBootstrap(T, cover) ==
    LET dates == DatesToReach(T, cover)
    IN  /\ dates # {}
        /\ \A i \in Anchors(T) :
              StartOfFinancialDay(Min(dates)) < StartOfFinancialDay(T[i].date)

DesiredKeys(T, cover) ==
    Anchors(T) \union (IF NeedsBootstrap(T, cover) THEN {Bootstrap} ELSE {})

DesiredStart(T, cover, k) ==
    StartOfFinancialDay(IF k = Bootstrap THEN Min(DatesToReach(T, cover)) ELSE T[k].date)

\* The earliest of the starts after s, Null when there is none.
NextStart(starts, s) ==
    LET later == {n \in starts : s < n}
    IN  IF later = {} THEN Null ELSE Min(later)

\* buildPeriodSpecs: every period ends where the next one starts.
DesiredPeriods(T, cover) ==
    LET start == [k \in DesiredKeys(T, cover) |-> DesiredStart(T, cover, k)]
    IN  [k \in DesiredKeys(T, cover) |->
            [start |-> start[k], end |-> NextStart(Range(start), start[k])]]

-----------------------------------------------------------------------------
(* Reading the stored sequence *)

\* [startDate, endDate) holds the date.
Covers(p, date) == p.start <= date /\ (p.end = Null \/ date < p.end)

CoveringKeys(P, date) == {k \in DOMAIN P : Covers(P[k], date)}

\* findPeriodForDate when some period covers the date: the latest of them.
PeriodForDate(P, date) ==
    CHOOSE k \in CoveringKeys(P, date) :
        \A j \in CoveringKeys(P, date) : P[j].start <= P[k].start

-----------------------------------------------------------------------------
(* rebuild *)

\* The keys whose row is deleted, updated or created when P becomes Q.
TouchedKeys(P, Q) ==
    {k \in DOMAIN P \union DOMAIN Q :
        ~ (k \in DOMAIN P /\ k \in DOMAIN Q /\ P[k] = Q[k])}

\* The earliest date whose period may have changed.
Boundary(P, Q, from) ==
    Min({StartOfFinancialDay(from)}
        \union {P[k].start : k \in TouchedKeys(P, Q) \intersect DOMAIN P}
        \union {Q[k].start : k \in TouchedKeys(P, Q) \intersect DOMAIN Q})

\* Mutant: skips the period that holds the boundary.
ReassigningLaterStarts(Q, boundary, date) ==
    {k \in CoveringKeys(Q, date) : boundary < Q[k].start}

\* The final updateMany loop: the rows of Q it visits for a date.
Reassigning(Q, boundary, date) ==
    {k \in CoveringKeys(Q, date) : Q[k].end = Null \/ boundary < Q[k].end}

\* transactions.period_id after the rows of P \ Q are deleted (the foreign key
\* is ON DELETE SET NULL) and the loop has reassigned what it visits.
Reassigned(T, P, Q, boundary) ==
    [i \in DOMAIN T |->
        [T[i] EXCEPT !.period =
            LET hits == Reassigning(Q, boundary, T[i].date)
            IN  IF hits # {} THEN CHOOSE k \in hits : TRUE
                ELSE IF T[i].period \in DOMAIN P \ DOMAIN Q THEN Null
                ELSE T[i].period]]

\* rebuild(from, coverDate): both tables afterwards, and the date it returns.
RebuildTo(T, P, Q, boundary) ==
    [txs |-> Reassigned(T, P, Q, boundary), periods |-> Q, boundary |-> boundary]

Rebuild(T, P, from, cover) ==
    LET Q == DesiredPeriods(T, cover)
    IN  RebuildTo(T, P, Q, Boundary(P, Q, from))

-----------------------------------------------------------------------------
(* locate, assignTransactionToPeriod *)

\* What locate returns of a result with the tables and a boundary.
LocatedIn(R, date) ==
    [txs |-> R.txs, periods |-> R.periods,
     period |-> PeriodForDate(R.periods, date),
     affectedFrom |-> Min({R.boundary, date})]

\* Mutant: a salary dated in a stored period is filed there and opens none.
LocateWithoutOpening(T, P, date, opens) ==
    IF CoveringKeys(P, date) # {}
    THEN LocatedIn([txs |-> T, periods |-> P, boundary |-> date], date)
    ELSE LocatedIn(Rebuild(T, P, date, {date}), date)

\* The period of a date.  The date of a salary (opens), and one that no period
\* covers yet, rebuild the sequence first.
Locate(T, P, date, opens) ==
    IF ~ opens /\ CoveringKeys(P, date) # {}
    THEN [txs |-> T, periods |-> P,
          period |-> PeriodForDate(P, date), affectedFrom |-> date]
    ELSE LocatedIn(Rebuild(T, P, date, {date}), date)

\* Sets the period of transaction i.  `read` is the periodId of the object the
\* caller holds, which a rebuild may since have changed in the table.
Placed(L, i, read) ==
    IF read = L.period THEN L ELSE [L EXCEPT !.txs[i].period = L.period]

Assign(T, P, i, read) == Placed(Locate(T, P, T[i].date, IsSalary(T[i])), i, read)

=============================================================================
