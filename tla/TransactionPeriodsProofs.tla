---------------------- MODULE TransactionPeriodsProofs ----------------------
(***************************************************************************)
(* What is proved of TransactionPeriods for every value of its constants:  *)
(* the stored periods always partition the time, follow the salaries of    *)
(* the table, every transaction is in the period of its date, and a step   *)
(* that touches no salary moves no other row.                              *)
(***************************************************************************)
EXTENDS TransactionPeriods, WellFoundedInduction, TLAPS

-----------------------------------------------------------------------------
(* Minima and days *)

\* A set of naturals that is not empty has a least element.
LEMMA LeastElement ==
  ASSUME NEW S \in SUBSET Nat, S # {}
  PROVE  \E m \in S : \A n \in S : m <= n
<1>1. PICK m \in S : \A n \in S : ~ (<<n, m>> \in OpToRel(<, Nat))
  BY NatLessThanWellFounded, WFMin
<1>2. \A n \in S : ~ (n < m)
  BY <1>1 DEF OpToRel
<1>3. QED
  BY <1>2

\* Min of such a set is that element.
LEMMA MinIsLeast ==
  ASSUME NEW S \in SUBSET Nat, S # {}
  PROVE  Min(S) \in S /\ \A n \in S : Min(S) <= n
BY LeastElement DEF Min

\* The elements of such a set up to a bound have a greatest one.
LEMMA GreatestUpTo ==
  ASSUME NEW S \in SUBSET Nat, NEW bound \in Nat, NEW s \in S, s <= bound
  PROVE  \E m \in S : m <= bound /\ \A n \in S : n <= bound => n <= m
<1> DEFINE Gaps == {bound - n : n \in {x \in S : x <= bound}}
<1>1. Gaps \in SUBSET Nat
  OBVIOUS
<1>2. bound - s \in Gaps
  OBVIOUS
<1>3. PICK g \in Gaps : \A h \in Gaps : g <= h
  BY <1>1, <1>2, LeastElement
<1>4. PICK m \in S : m <= bound /\ g = bound - m
  OBVIOUS
<1>5. ASSUME NEW n \in S, n <= bound
      PROVE  n <= m
  <2>1. bound - n \in Gaps
    BY <1>5
  <2>2. QED
    BY <1>3, <1>4, <1>5, <2>1
<1>6. QED
  BY <1>4, <1>5

\* Midnight is not after the instant it is the midnight of.
LEMMA StartOfDayBounds ==
  ASSUME NEW date \in Nat
  PROVE  /\ StartOfFinancialDay(date) \in Nat
         /\ StartOfFinancialDay(date) <= date
BY DayLengthAssumption DEF StartOfFinancialDay

\* Midnight is the midnight of its own day.
LEMMA StartOfDayIdempotent ==
  ASSUME NEW date \in Nat
  PROVE  StartOfFinancialDay(StartOfFinancialDay(date)) = StartOfFinancialDay(date)
<1> DEFINE q == date \div DayLength
<1>1. q \in Nat /\ date = DayLength * q + (date % DayLength)
  BY DayLengthAssumption
<1>2. date - (date % DayLength) = DayLength * q
  BY <1>1, DayLengthAssumption
<1>3. (DayLength * q) % DayLength = 0
  BY <1>1, DayLengthAssumption
<1>4. DayLength * q \in Nat
  BY <1>1, DayLengthAssumption
<1>5. QED
  BY <1>2, <1>3, <1>4, StartOfDayBounds DEF StartOfFinancialDay

\* NextStart is the least start after s, or Null when there is none.
LEMMA NextStartIsNext ==
  ASSUME NEW starts \in SUBSET Nat, NEW s \in Nat
  PROVE  /\ NextStart(starts, s) \in Nat \union {Null}
         /\ NextStart(starts, s) = Null => \A n \in starts : n <= s
         /\ NextStart(starts, s) # Null =>
               /\ NextStart(starts, s) \in starts
               /\ s < NextStart(starts, s)
               /\ \A n \in starts : s < n => NextStart(starts, s) <= n
<1> DEFINE later == {n \in starts : s < n}
<1>1. CASE later = {}
  BY <1>1 DEF NextStart
<1>2. CASE later # {}
  <2>1. Min(later) \in later /\ \A n \in later : Min(later) <= n
    BY <1>2, MinIsLeast
  <2>2. NextStart(starts, s) = Min(later)
    BY <1>2 DEF NextStart
  <2>3. QED
    BY <2>1, <2>2, KeysAssumption
<1>3. QED
  BY <1>1, <1>2

-----------------------------------------------------------------------------
(* The sequence buildPeriodSpecs asks for *)

\* The dates of a table are naturals, and a set of such dates has a minimum.
LEMMA DatesAreNaturals ==
  ASSUME NEW T, IsTable(T), NEW cover \in SUBSET Nat
  PROVE  /\ DatesToReach(T, cover) \in SUBSET Nat
         /\ Salaries(T) \subseteq DOMAIN T
         /\ Anchors(T) \subseteq Salaries(T)
         /\ DOMAIN T \subseteq Nat
         /\ \A i \in DOMAIN T : T[i].date \in Nat
BY InstantsAssumption, TxIdsAssumption
   DEF IsTable, Transaction, DatesToReach, Salaries, Anchors

\* Every desired period starts at a midnight.
LEMMA DesiredStartIsMidnight ==
  ASSUME NEW T, IsTable(T), NEW cover \in SUBSET Nat,
         NEW k \in DesiredKeys(T, cover)
  PROVE  /\ DesiredStart(T, cover, k) \in Nat
         /\ StartOfFinancialDay(DesiredStart(T, cover, k)) = DesiredStart(T, cover, k)
<1>1. CASE k = Bootstrap
  <2>1. NeedsBootstrap(T, cover)
    BY <1>1, DatesAreNaturals, KeysAssumption DEF DesiredKeys
  <2>2. Min(DatesToReach(T, cover)) \in Nat
    BY <2>1, DatesAreNaturals, MinIsLeast DEF NeedsBootstrap
  <2>3. QED
    BY <1>1, <2>2, StartOfDayBounds, StartOfDayIdempotent DEF DesiredStart
<1>2. CASE k # Bootstrap
  <2>1. T[k].date \in Nat
    BY <1>2, DatesAreNaturals DEF DesiredKeys
  <2>2. QED
    BY <1>2, <2>1, StartOfDayBounds, StartOfDayIdempotent DEF DesiredStart
<1>3. QED
  BY <1>1, <1>2

\* The rows buildPeriodSpecs returns.
LEMMA DesiredRows ==
  ASSUME NEW T, IsTable(T), NEW cover \in SUBSET Nat
  PROVE  LET Q == DesiredPeriods(T, cover)
         IN  /\ DOMAIN Q = DesiredKeys(T, cover)
             /\ {Q[j].start : j \in DOMAIN Q} \in SUBSET Nat
             /\ \A k \in DOMAIN Q :
                   /\ Q[k].start = DesiredStart(T, cover, k)
                   /\ Q[k].end = NextStart({Q[j].start : j \in DOMAIN Q}, Q[k].start)
                   /\ Q[k] \in Period
<1> DEFINE Q == DesiredPeriods(T, cover)
           keys == DesiredKeys(T, cover)
           start == [k \in keys |-> DesiredStart(T, cover, k)]
<1>1. Q = [k \in keys |-> [start |-> start[k], end |-> NextStart(Range(start), start[k])]]
  BY DEF DesiredPeriods
<1>2. DOMAIN Q = keys
  BY <1>1
<1>3. \A k \in keys : Q[k].start = start[k] /\ start[k] = DesiredStart(T, cover, k)
  BY <1>1
<1>4. Range(start) = {Q[j].start : j \in DOMAIN Q}
  BY <1>2, <1>3 DEF Range
<1>5. Range(start) \in SUBSET Nat
  BY DesiredStartIsMidnight DEF Range
<1>6. \A k \in keys : NextStart(Range(start), start[k]) \in Nat \union {Null}
  BY <1>3, <1>5, NextStartIsNext, DesiredStartIsMidnight
<1>7. \A k \in keys : Q[k] \in Period
  BY <1>1, <1>3, <1>6, DesiredStartIsMidnight DEF Period
<1>8. \A k \in keys : Q[k].end = NextStart(Range(start), start[k])
  BY <1>1
<1>9. QED
  BY <1>2, <1>3, <1>4, <1>5, <1>7, <1>8

\* Two desired periods never start together: one anchor per day, and the
\* bootstrap period starts before every anchored one.
LEMMA DesiredStartsDiffer ==
  ASSUME NEW T, IsTable(T), NEW cover \in SUBSET Nat,
         NEW j \in DesiredKeys(T, cover), NEW k \in DesiredKeys(T, cover),
         DesiredStart(T, cover, j) = DesiredStart(T, cover, k)
  PROVE  j = k
<1> DEFINE day(i) == StartOfFinancialDay(T[i].date)
           first  == StartOfFinancialDay(Min(DatesToReach(T, cover)))
<1>1. \A i \in Anchors(T) : i \in Nat /\ i # Bootstrap /\ day(i) \in Nat /\ T[i].date \in Nat
  BY DatesAreNaturals, KeysAssumption, StartOfDayBounds
<1>2. ASSUME NEW a \in Anchors(T), NEW b \in Anchors(T), day(a) = day(b)
      PROVE  a = b
  <2> SUFFICES ASSUME a # b
               PROVE  FALSE
    OBVIOUS
  <2>1. Precedes(T, a, b) /\ Precedes(T, b, a)
    BY <1>2 DEF Anchors, SameDay
  <2>2. QED
    BY <1>1, <2>1 DEF Precedes
<1>3. NeedsBootstrap(T, cover) => first \in Nat /\ \A i \in Anchors(T) : first < day(i)
  BY DatesAreNaturals, MinIsLeast, StartOfDayBounds DEF NeedsBootstrap
<1>4. \A i \in Anchors(T) : DesiredStart(T, cover, i) = day(i)
  BY <1>1 DEF DesiredStart
<1>5. DesiredStart(T, cover, Bootstrap) = first
  BY DEF DesiredStart
<1>6. Bootstrap \in DesiredKeys(T, cover) => NeedsBootstrap(T, cover)
  BY <1>1 DEF DesiredKeys
<1>7. \A i \in DesiredKeys(T, cover) : i \in Anchors(T) \/ i = Bootstrap
  BY DEF DesiredKeys
<1> HIDE DEF day, first
<1>8. ASSUME Bootstrap \in DesiredKeys(T, cover), NEW i \in Anchors(T)
      PROVE  DesiredStart(T, cover, Bootstrap) # DesiredStart(T, cover, i)
  <2>1. first \in Nat /\ day(i) \in Nat /\ first < day(i)
    BY <1>1, <1>3, <1>6, <1>8
  <2>2. first # day(i)
    BY <2>1
  <2>3. QED
    BY <1>4, <1>5, <2>2
<1>9. QED
  BY <1>2, <1>4, <1>7, <1>8

\* So the desired periods partition the time from the first start on, and
\* follow the salaries.
LEMMA DesiredIsPartition ==
  ASSUME NEW T, IsTable(T), NEW cover \in SUBSET Nat
  PROVE  /\ IsSequence(DesiredPeriods(T, cover))
         /\ Partition(DesiredPeriods(T, cover))
         /\ FollowsSalaries(T, DesiredPeriods(T, cover))
<1> DEFINE Q == DesiredPeriods(T, cover)
<1>1. \A i \in Anchors(T) : i \in TxIds /\ i # Bootstrap
  BY DatesAreNaturals, KeysAssumption, TxIdsAssumption DEF IsTable
<1>2. IsSequence(Q)
  BY <1>1, DesiredRows DEF IsSequence, DesiredKeys, Keys
<1>3. Partition(Q)
  <2>1. /\ DOMAIN Q = DesiredKeys(T, cover)
        /\ \A k \in DOMAIN Q :
              /\ Q[k].start = DesiredStart(T, cover, k)
              /\ Q[k].end = NextStart({Q[j].start : j \in DOMAIN Q}, Q[k].start)
    BY DesiredRows
  <2> HIDE DEF Q
  <2>2. ASSUME NEW k \in DOMAIN Q
        PROVE  StartOfFinancialDay(Q[k].start) = Q[k].start
    BY <2>1, DesiredStartIsMidnight
  <2>3. ASSUME NEW k \in DOMAIN Q, NEW j \in DOMAIN Q, Q[j].start = Q[k].start
        PROVE  j = k
    BY <2>1, <2>3, DesiredStartsDiffer
  <2>4. QED
    BY <2>1, <2>2, <2>3 DEF Partition
<1>4. FollowsSalaries(T, Q)
  <2>1. DOMAIN Q \ {Bootstrap} = Anchors(T)
    BY <1>1, DesiredRows DEF DesiredKeys
  <2>2. \A i \in Anchors(T) : Q[i].start = StartOfFinancialDay(T[i].date)
    BY <1>1, <2>1, DesiredRows DEF DesiredStart
  <2>3. QED
    BY <2>1, <2>2 DEF FollowsSalaries
<1>5. QED
  BY <1>2, <1>3, <1>4

\* In a partition, a date not before some start is covered.
LEMMA PartitionCovers ==
  ASSUME NEW P, IsSequence(P), Partition(P), NEW date \in Nat,
         NEW k \in DOMAIN P, P[k].start <= date
  PROVE  CoveringKeys(P, date) # {}
<1> DEFINE starts == {P[j].start : j \in DOMAIN P}
<1>1. starts \in SUBSET Nat
  BY DEF IsSequence, Period
<1>2. P[k].start \in starts
  OBVIOUS
<1>3. PICK s \in starts : s <= date /\ \A n \in starts : n <= date => n <= s
  BY <1>1, <1>2, GreatestUpTo
<1>4. PICK j \in DOMAIN P : P[j].start = s
  BY <1>3
<1>5. P[j].end = NextStart(starts, s)
  BY <1>4 DEF Partition
<1> HIDE DEF starts
<1>6. P[j].end = Null \/ date < P[j].end
  <2> SUFFICES ASSUME P[j].end # Null
               PROVE  date < P[j].end
    OBVIOUS
  <2>1. PICK e \in starts : e = P[j].end /\ s < e
    BY <1>1, <1>3, <1>5, NextStartIsNext
  <2>2. e \in Nat /\ s \in Nat /\ ~ (e <= date)
    BY <1>1, <1>3, <2>1
  <2>3. QED
    BY <2>1, <2>2
<1>7. QED
  BY <1>3, <1>4, <1>6 DEF CoveringKeys, Covers

\* The desired periods cover every date they were to reach back to.
LEMMA DesiredReaches ==
  ASSUME NEW T, IsTable(T), NEW cover \in SUBSET Nat,
         NEW date \in DatesToReach(T, cover)
  PROVE  CoveringKeys(DesiredPeriods(T, cover), date) # {}
<1> DEFINE Q == DesiredPeriods(T, cover)
           dates == DatesToReach(T, cover)
<1>1. date \in Nat /\ Min(dates) \in dates /\ Min(dates) \in Nat /\ Min(dates) <= date
  BY DatesAreNaturals, MinIsLeast
<1>2. StartOfFinancialDay(Min(dates)) \in Nat /\ StartOfFinancialDay(Min(dates)) <= date
  BY <1>1, StartOfDayBounds
<1>3. \E k \in DOMAIN Q : Q[k].start <= date
  <2>1. CASE NeedsBootstrap(T, cover)
    <3>1. Bootstrap \in DOMAIN Q
      BY <2>1, DesiredRows DEF DesiredKeys
    <3>2. Q[Bootstrap].start = StartOfFinancialDay(Min(dates))
      BY <3>1, DesiredRows DEF DesiredStart
    <3>3. QED
      BY <1>2, <3>1, <3>2
  <2>2. CASE ~ NeedsBootstrap(T, cover)
    <3>1. PICK i \in Anchors(T) :
             ~ (StartOfFinancialDay(Min(dates)) < StartOfFinancialDay(T[i].date))
      BY <2>2 DEF NeedsBootstrap
    <3>2. i \in DOMAIN Q /\ Q[i].start = StartOfFinancialDay(T[i].date)
      BY DesiredIsPartition DEF FollowsSalaries
    <3>3. StartOfFinancialDay(T[i].date) \in Nat
      BY DatesAreNaturals, StartOfDayBounds
    <3>4. QED
      BY <1>1, <1>2, <3>1, <3>2, <3>3
  <2>3. QED
    BY <2>1, <2>2
<1>4. QED
  BY <1>1, <1>3, DesiredIsPartition, PartitionCovers

-----------------------------------------------------------------------------
(* rebuild *)

\* findPeriodForDate returns a period that covers the date, if there is one.
LEMMA PeriodForDateCovers ==
  ASSUME NEW P, IsSequence(P), NEW date \in Nat, CoveringKeys(P, date) # {}
  PROVE  PeriodForDate(P, date) \in CoveringKeys(P, date)
<1> DEFINE C == CoveringKeys(P, date)
           starts == {P[k].start : k \in C}
<1>1. \A k \in C : P[k].start \in Nat /\ P[k].start <= date
  BY DEF IsSequence, Period, CoveringKeys, Covers
<1>2. starts \in SUBSET Nat /\ \A s \in starts : s <= date
  BY <1>1
<1>3. PICK s \in starts : TRUE
  OBVIOUS
<1>4. PICK m \in starts : \A n \in starts : n <= date => n <= m
  BY <1>2, <1>3, GreatestUpTo
<1>5. PICK k \in C : P[k].start = m
  BY <1>4
<1>6. \A j \in C : P[j].start <= P[k].start
  BY <1>2, <1>4, <1>5
<1>7. QED
  BY <1>5, <1>6 DEF PeriodForDate

\* The anchors depend on the ids and the dates of the salaries only.
LEMMA AnchorsOfSameSalaries ==
  ASSUME NEW T, NEW U, Salaries(T) = Salaries(U),
         \A i \in Salaries(T) : T[i].date = U[i].date
  PROVE  Anchors(T) = Anchors(U)
BY DEF Anchors, SameDay, Precedes

\* The boundary is not after `from`, nor after any start, old or new, of a
\* period that rebuild() changes.
LEMMA BoundaryBounds ==
  ASSUME NEW P, IsSequence(P), NEW Q, IsSequence(Q), NEW from \in Nat
  PROVE  /\ Boundary(P, Q, from) \in Nat
         /\ Boundary(P, Q, from) <= from
         /\ \A k \in TouchedKeys(P, Q) :
               /\ k \in DOMAIN P => Boundary(P, Q, from) <= P[k].start
               /\ k \in DOMAIN Q => Boundary(P, Q, from) <= Q[k].start
<1> DEFINE touched == TouchedKeys(P, Q)
           D == {StartOfFinancialDay(from)}
                \union {P[k].start : k \in touched \intersect DOMAIN P}
                \union {Q[k].start : k \in touched \intersect DOMAIN Q}
<1>1. StartOfFinancialDay(from) \in Nat /\ StartOfFinancialDay(from) <= from
  BY StartOfDayBounds
<1>2. D \in SUBSET Nat /\ StartOfFinancialDay(from) \in D
  BY <1>1 DEF IsSequence, Period
<1>3. \A k \in touched : /\ k \in DOMAIN P => P[k].start \in D
                         /\ k \in DOMAIN Q => Q[k].start \in D
  OBVIOUS
<1>4. Boundary(P, Q, from) = Min(D)
  BY DEF Boundary
<1> HIDE DEF D, touched
<1>5. Min(D) \in D /\ \A n \in D : Min(D) <= n
  BY <1>2, MinIsLeast
<1>6. Min(D) <= from
  <2>1. Min(D) \in Nat /\ Min(D) <= StartOfFinancialDay(from)
    BY <1>2, <1>5
  <2>2. QED
    BY <1>1, <2>1
<1>7. QED
  BY <1>2, <1>3, <1>4, <1>5, <1>6 DEF touched

\* rebuild() writes nothing of a transaction but its period, so that the
\* anchors stay the same.
LEMMA RebuildKeepsRows ==
  ASSUME NEW T, IsTable(T), NEW P, NEW from, NEW cover \in SUBSET Nat
  PROVE  LET R == Rebuild(T, P, from, cover)
         IN  /\ R.periods = DesiredPeriods(T, cover)
             /\ DOMAIN R.txs = DOMAIN T
             /\ \A i \in DOMAIN T : R.txs[i].date = T[i].date /\ R.txs[i].kind = T[i].kind
             /\ IsTable(R.txs)
             /\ Anchors(R.txs) = Anchors(T)
<1> DEFINE Q == DesiredPeriods(T, cover)
           b == Boundary(P, Q, from)
           U == Reassigned(T, P, Q, b)
<1>1. Rebuild(T, P, from, cover).txs = U /\ Rebuild(T, P, from, cover).periods = Q
  BY DEF Rebuild, RebuildTo
<1>2. DOMAIN U = DOMAIN T
  BY DEF Reassigned
<1>3. \A i \in DOMAIN T : U[i].date = T[i].date /\ U[i].kind = T[i].kind
  BY DEF Reassigned, IsTable, Transaction
<1>4. ASSUME NEW i \in DOMAIN T
      PROVE  U[i] \in Transaction
  <2> DEFINE hits == Reassigning(Q, b, T[i].date)
             new == IF hits # {} THEN CHOOSE k \in hits : TRUE
                    ELSE IF T[i].period \in DOMAIN P \ DOMAIN Q THEN Null
                    ELSE T[i].period
  <2>1. U[i] = [T[i] EXCEPT !.period = new]
    BY DEF Reassigned
  <2>2. hits \subseteq Keys
    BY DesiredIsPartition DEF Reassigning, CoveringKeys, IsSequence
  <2> HIDE DEF hits
  <2>3. new \in Keys \union {Null}
    BY <2>2 DEF IsTable, Transaction
  <2>4. QED
    BY <2>1, <2>3 DEF IsTable, Transaction
<1>5. Salaries(U) = Salaries(T) /\ \A i \in Salaries(T) : U[i].date = T[i].date
  BY <1>2, <1>3 DEF Salaries, IsSalary
<1>6. QED
  BY <1>1, <1>2, <1>3, <1>4, <1>5, AnchorsOfSameSalaries DEF IsTable

\* After rebuild() every transaction is in the period of its date, provided
\* that before it each one was, or is dated `from` or later: the rows the loop
\* does not visit are those of periods rebuild() has not changed.
LEMMA RebuildPlaces ==
  ASSUME NEW T, IsTable(T), NEW P, IsSequence(P),
         NEW from \in Nat, NEW cover \in SUBSET Nat,
         NEW i \in DOMAIN T,
         DOMAIN P = {} \/ from <= T[i].date \/ InItsPeriod(T[i], P)
  PROVE  LET R == Rebuild(T, P, from, cover)
         IN  InItsPeriod(R.txs[i], R.periods)
<1> DEFINE Q == DesiredPeriods(T, cover)
           b == Boundary(P, Q, from)
           U == Reassigned(T, P, Q, b)
           date == T[i].date
           hits == Reassigning(Q, b, date)
<1>1. Rebuild(T, P, from, cover).txs = U /\ Rebuild(T, P, from, cover).periods = Q
  BY DEF Rebuild, RebuildTo
<1>2. date \in Nat /\ T[i] \in Transaction
  BY DatesAreNaturals DEF IsTable
<1>3. IsSequence(Q) /\ CoveringKeys(Q, date) # {}
  BY DesiredIsPartition, DesiredReaches DEF DatesToReach
<1>4. /\ b \in Nat /\ b <= from
      /\ \A k \in TouchedKeys(P, Q) : /\ k \in DOMAIN P => b <= P[k].start
                                      /\ k \in DOMAIN Q => b <= Q[k].start
  BY <1>3, BoundaryBounds
<1>5. U[i].date = date
  BY <1>2 DEF Reassigned, Transaction
<1>6. CASE hits # {}
  <2>1. U[i].period \in hits
    BY <1>2, <1>6 DEF Reassigned, Transaction
  <2>2. QED
    BY <1>1, <1>5, <2>1 DEF Reassigning, CoveringKeys, InItsPeriod
<1>7. CASE hits = {}
  <2>1. PICK k \in DOMAIN Q : Covers(Q[k], date) /\ Q[k].end # Null /\ ~ (b < Q[k].end)
    BY <1>3, <1>7 DEF Reassigning, CoveringKeys
  <2>2. date < b /\ Q[k].start <= date /\ Q[k].start \in Nat
    <3>1. Q[k].end \in Nat /\ Q[k].start \in Nat
      BY <1>3, <2>1 DEF IsSequence, Period
    <3>2. QED
      BY <1>2, <1>4, <2>1, <3>1 DEF Covers
  <2>3. ~ (from <= date)
    BY <1>2, <1>4, <2>2
  <2>4. DOMAIN P # {}
    BY <1>2, <1>4, <2>1, <2>2 DEF TouchedKeys
  <2>5. InItsPeriod(T[i], P)
    BY <2>3, <2>4
  <2> DEFINE old == T[i].period
  <2>6. old \in DOMAIN P /\ P[old].start <= date /\ P[old].start \in Nat
    BY <2>5 DEF InItsPeriod, Covers, IsSequence, Period
  <2>7. old \notin TouchedKeys(P, Q)
    BY <1>2, <1>4, <2>2, <2>6
  <2>8. old \in DOMAIN Q /\ Q[old] = P[old]
    BY <2>6, <2>7 DEF TouchedKeys
  <2>9. U[i].period = old
    BY <1>2, <1>7, <2>8 DEF Reassigned, Transaction
  <2>10. QED
    BY <1>1, <1>5, <2>5, <2>8, <2>9 DEF InItsPeriod
<1>8. QED
  BY <1>6, <1>7

-----------------------------------------------------------------------------
(* The inductive invariant *)

\* What every request keeps of the two tables.
Consistent(T, P) ==
    /\ IsTable(T)
    /\ IsSequence(P)
    /\ Partition(P)
    /\ DOMAIN P # {} => /\ \A i \in DOMAIN T : InItsPeriod(T[i], P)
                        /\ FollowsSalaries(T, P)

Inv == Consistent(txs, periods)

\* rebuild() leaves consistent tables, whatever it had to repair: the rows it
\* may find out of place are those dated `from` or later.
LEMMA RebuildIsConsistent ==
  ASSUME NEW T, IsTable(T), NEW P, IsSequence(P),
         NEW from \in Nat, NEW cover \in SUBSET Nat,
         DOMAIN P = {} \/ \A i \in DOMAIN T : from <= T[i].date \/ InItsPeriod(T[i], P)
  PROVE  LET R == Rebuild(T, P, from, cover)
         IN  /\ Consistent(R.txs, R.periods)
             /\ \A i \in DOMAIN T : InItsPeriod(R.txs[i], R.periods)
             /\ FollowsSalaries(R.txs, R.periods)
<1> DEFINE R == Rebuild(T, P, from, cover)
<1>1. /\ R.periods = DesiredPeriods(T, cover)
      /\ DOMAIN R.txs = DOMAIN T
      /\ \A i \in DOMAIN T : R.txs[i].date = T[i].date
      /\ IsTable(R.txs)
      /\ Anchors(R.txs) = Anchors(T)
  BY RebuildKeepsRows
<1>2. \A i \in DOMAIN T : InItsPeriod(R.txs[i], R.periods)
  BY RebuildPlaces
<1>3. IsSequence(R.periods) /\ Partition(R.periods) /\ FollowsSalaries(T, R.periods)
  BY <1>1, DesiredIsPartition
<1> HIDE DEF R
<1>4. FollowsSalaries(R.txs, R.periods)
  <2>1. \A i \in Anchors(T) : R.txs[i].date = T[i].date
    BY <1>1, DatesAreNaturals
  <2>2. QED
    BY <1>1, <1>3, <2>1 DEF FollowsSalaries
<1>5. QED
  BY <1>1, <1>2, <1>3, <1>4 DEF Consistent, R

\* locate() finds a period for the date it is asked for: its last check, which
\* would answer 500 ("No financial period covers ... after rebuilding"), never
\* fails.
THEOREM LocateFinds ==
  ASSUME NEW T, IsTable(T), NEW P, IsSequence(P), NEW date \in Nat, NEW opens \in BOOLEAN
  PROVE  LET L == Locate(T, P, date, opens)
         IN  L.period \in CoveringKeys(L.periods, date)
<1>1. CASE ~ opens /\ CoveringKeys(P, date) # {}
  BY <1>1, PeriodForDateCovers DEF Locate, LocatedIn
<1>2. CASE ~ (~ opens /\ CoveringKeys(P, date) # {})
  <2> DEFINE Q == Rebuild(T, P, date, {date}).periods
  <2>1. Q = DesiredPeriods(T, {date})
    BY RebuildKeepsRows
  <2>2. IsSequence(Q) /\ CoveringKeys(Q, date) # {}
    BY <2>1, DesiredIsPartition, DesiredReaches DEF DatesToReach
  <2>3. Locate(T, P, date, opens).periods = Q
        /\ Locate(T, P, date, opens).period = PeriodForDate(Q, date)
    BY <1>2 DEF Locate, LocatedIn
  <2>4. QED
    BY <2>2, <2>3, PeriodForDateCovers
<1>3. QED
  BY <1>1, <1>2

\* Fixing the period of one row to one that covers its date disturbs nothing.
LEMMA PlacingIsConsistent ==
  ASSUME NEW T, NEW P, NEW i \in DOMAIN T, IsTable(T), IsSequence(P), Partition(P),
         FollowsSalaries(T, P),
         \A j \in DOMAIN T \ {i} : InItsPeriod(T[j], P),
         NEW k \in CoveringKeys(P, T[i].date)
  PROVE  Consistent([T EXCEPT ![i].period = k], P)
<1> DEFINE U == [T EXCEPT ![i].period = k]
<1>1. DOMAIN U = DOMAIN T /\ \A j \in DOMAIN T \ {i} : U[j] = T[j]
  OBVIOUS
<1>2. U[i] = [T[i] EXCEPT !.period = k] /\ T[i] \in Transaction /\ k \in Keys
  BY DEF IsTable, CoveringKeys, IsSequence
<1>3. /\ U[i] \in Transaction /\ U[i].period = k
      /\ U[i].date = T[i].date /\ U[i].kind = T[i].kind
  BY <1>2 DEF Transaction
<1> HIDE DEF U
<1>4. IsTable(U)
  BY <1>1, <1>3 DEF IsTable
<1>5. \A j \in DOMAIN U : InItsPeriod(U[j], P)
  BY <1>1, <1>3 DEF InItsPeriod, CoveringKeys
<1>6. Salaries(T) = Salaries(U) /\ \A j \in Salaries(T) : T[j].date = U[j].date
  BY <1>1, <1>3 DEF Salaries, IsSalary
<1>7. FollowsSalaries(U, P)
  BY <1>6, AnchorsOfSameSalaries DEF FollowsSalaries, Anchors
<1>8. QED
  BY <1>4, <1>5, <1>7 DEF Consistent, U

\* assignTransactionToPeriod() leaves consistent tables when every other row
\* was in place and either the row opens a period or the periods already
\* follow the salaries.  The periodId the caller read may be out of date, but
\* then the row must be in place already.
LEMMA AssignIsConsistent ==
  ASSUME NEW T, IsTable(T), NEW P, IsSequence(P), Partition(P),
         NEW i \in DOMAIN T, NEW read,
         DOMAIN P = {} \/ \A j \in DOMAIN T \ {i} : InItsPeriod(T[j], P),
         read = T[i].period \/ InItsPeriod(T[i], P),
         DOMAIN P = {} \/ IsSalary(T[i]) \/ FollowsSalaries(T, P)
  PROVE  Consistent(Assign(T, P, i, read).txs, Assign(T, P, i, read).periods)
<1> DEFINE date == T[i].date
           opens == IsSalary(T[i])
           L == Locate(T, P, date, opens)
           A == Assign(T, P, i, read)
<1>1. date \in Nat /\ opens \in BOOLEAN
  BY DatesAreNaturals DEF IsSalary
<1>2. L.period \in CoveringKeys(L.periods, date)
  BY <1>1, LocateFinds
<1>3. CASE ~ opens /\ CoveringKeys(P, date) # {}
  <2>1. L.txs = T /\ L.periods = P
    BY <1>3 DEF Locate, LocatedIn
  <2>2. DOMAIN P # {}
    BY <1>3 DEF CoveringKeys
  <2>3. FollowsSalaries(T, P) /\ \A j \in DOMAIN T \ {i} : InItsPeriod(T[j], P)
    BY <1>3, <2>2
  <2>4. CASE read = L.period
    <3>1. A.txs = T /\ A.periods = P
      BY <2>1, <2>4 DEF Assign, Placed
    <3>2. InItsPeriod(T[i], P)
      BY <1>2, <2>1, <2>4 DEF InItsPeriod, CoveringKeys
    <3>3. QED
      BY <2>3, <3>1, <3>2 DEF Consistent
  <2>5. CASE read # L.period
    <3>1. A = [L EXCEPT !.txs[i].period = L.period]
      BY <2>5 DEF Assign, Placed
    <3>2. A.txs = [T EXCEPT ![i].period = L.period] /\ A.periods = P
      BY <1>3, <2>1, <3>1 DEF Locate, LocatedIn
    <3>3. L.period \in CoveringKeys(P, T[i].date)
      BY <1>2, <2>1
    <3> HIDE DEF L
    <3>4. Consistent([T EXCEPT ![i].period = L.period], P)
      BY <2>3, <3>3, PlacingIsConsistent
    <3>5. QED
      BY <3>2, <3>4
  <2>6. QED
    BY <2>4, <2>5
<1>4. CASE ~ (~ opens /\ CoveringKeys(P, date) # {})
  <2> DEFINE R == Rebuild(T, P, date, {date})
  <2>1. L.txs = R.txs /\ L.periods = R.periods
    BY <1>4 DEF Locate, LocatedIn
  <2>2. /\ Consistent(R.txs, R.periods)
        /\ \A j \in DOMAIN T : InItsPeriod(R.txs[j], R.periods)
        /\ FollowsSalaries(R.txs, R.periods)
    <3>1. DOMAIN P = {} \/ \A j \in DOMAIN T : date <= T[j].date \/ InItsPeriod(T[j], P)
      BY <1>1
    <3>2. QED
      BY <1>1, <3>1, RebuildIsConsistent
  <2>3. DOMAIN R.txs = DOMAIN T /\ R.txs[i].date = date
    BY RebuildKeepsRows, <1>1
  <2>4. CASE read = L.period
    BY <2>1, <2>2, <2>4 DEF Assign, Placed
  <2>5. CASE read # L.period
    <3>1. A = [L EXCEPT !.txs[i].period = L.period]
      BY <2>5 DEF Assign, Placed
    <3>2. A.txs = [R.txs EXCEPT ![i].period = L.period] /\ A.periods = R.periods
      BY <1>4, <2>1, <3>1 DEF Locate, LocatedIn
    <3>3. L.period \in CoveringKeys(R.periods, R.txs[i].date) /\ i \in DOMAIN R.txs
      BY <1>2, <2>1, <2>3
    <3> HIDE DEF L, R
    <3>4. \A j \in DOMAIN R.txs \ {i} : InItsPeriod(R.txs[j], R.periods)
      BY <2>2, <2>3
    <3>5. Consistent([R.txs EXCEPT ![i].period = L.period], R.periods)
      BY <2>2, <3>3, <3>4, PlacingIsConsistent DEF Consistent
    <3>6. QED
      BY <3>2, <3>5
  <2>6. QED
    BY <2>4, <2>5
<1>5. QED
  BY <1>3, <1>4

-----------------------------------------------------------------------------
(* The requests keep it *)

\* A row added, edited or deleted leaves a table, and changes the anchors only
\* when it is, or was, the row of a salary.
LEMMA InsertedRow ==
  ASSUME NEW T, IsTable(T), NEW i \in TxIds \ DOMAIN T,
         NEW date \in Instants, NEW kind \in Kinds
  PROVE  LET U == Inserted(T, i, date, kind)
         IN  /\ IsTable(U)
             /\ DOMAIN U = DOMAIN T \union {i}
             /\ U[i].period = Null /\ U[i].date = date /\ U[i].kind = kind
             /\ \A j \in DOMAIN T : U[j] = T[j]
             /\ kind # "salary" => Salaries(U) = Salaries(T)
<1> DEFINE U == Inserted(T, i, date, kind)
<1>1. /\ DOMAIN U = DOMAIN T \union {i}
      /\ U[i] = [date |-> date, kind |-> kind, period |-> Null]
      /\ \A j \in DOMAIN T : U[j] = T[j]
  BY DEF Inserted
<1>2. U[i] \in Transaction
  BY <1>1 DEF Transaction
<1> HIDE DEF U
<1>3. IsTable(U)
  BY <1>1, <1>2 DEF IsTable
<1>4. kind # "salary" => Salaries(U) = Salaries(T)
  BY <1>1 DEF Salaries, IsSalary
<1>5. QED
  BY <1>1, <1>3, <1>4 DEF U

LEMMA EditedRow ==
  ASSUME NEW T, IsTable(T), NEW i \in DOMAIN T,
         NEW date \in Instants, NEW kind \in Kinds
  PROVE  LET U == Edited(T, i, date, kind)
         IN  /\ IsTable(U)
             /\ DOMAIN U = DOMAIN T
             /\ U[i].period = T[i].period /\ U[i].date = date /\ U[i].kind = kind
             /\ \A j \in DOMAIN T \ {i} : U[j] = T[j]
             /\ kind # "salary" /\ T[i].kind # "salary" => Salaries(U) = Salaries(T)
<1> DEFINE U == Edited(T, i, date, kind)
<1>1. /\ DOMAIN U = DOMAIN T
      /\ U[i] = [T[i] EXCEPT !.date = date, !.kind = kind]
      /\ \A j \in DOMAIN T \ {i} : U[j] = T[j]
  BY DEF Edited
<1>2. /\ U[i] \in Transaction
      /\ U[i].period = T[i].period /\ U[i].date = date /\ U[i].kind = kind
  BY <1>1 DEF Transaction, IsTable
<1> HIDE DEF U
<1>3. IsTable(U)
  BY <1>1, <1>2 DEF IsTable
<1>4. kind # "salary" /\ T[i].kind # "salary" => Salaries(U) = Salaries(T)
  <2>1. ASSUME kind # "salary", T[i].kind # "salary", NEW j \in DOMAIN T
        PROVE  U[j].kind = "salary" <=> T[j].kind = "salary"
    BY <1>1, <1>2, <2>1
  <2>2. QED
    BY <1>1, <2>1 DEF Salaries, IsSalary
<1>5. QED
  BY <1>1, <1>2, <1>3, <1>4 DEF U

LEMMA DeletedRow ==
  ASSUME NEW T, IsTable(T), NEW i \in DOMAIN T
  PROVE  LET U == Deleted(T, i)
         IN  /\ IsTable(U)
             /\ DOMAIN U = DOMAIN T \ {i}
             /\ \A j \in DOMAIN U : U[j] = T[j]
             /\ T[i].kind # "salary" => Salaries(U) = Salaries(T)
BY DEF Deleted, IsTable, Salaries, IsSalary

\* Periods that followed the salaries still do when the salaries stay.
LEMMA SameSalariesFollowed ==
  ASSUME NEW T, NEW U, NEW P, Salaries(T) = Salaries(U),
         \A i \in Salaries(T) : U[i] = T[i],
         FollowsSalaries(T, P)
  PROVE  FollowsSalaries(U, P)
BY AnchorsOfSameSalaries DEF FollowsSalaries, Anchors

LEMMA InsertIsConsistent ==
  ASSUME NEW T, NEW P, Consistent(T, P), NEW i \in TxIds \ DOMAIN T,
         NEW date \in Instants, NEW kind \in Kinds
  PROVE  LET A == AfterInsert(T, P, i, date, kind)
         IN  Consistent(A.txs, A.periods)
<1> DEFINE U == Inserted(T, i, date, kind)
<1>1. IsTable(T) /\ IsSequence(P) /\ Partition(P)
  BY DEF Consistent
<1>2. /\ IsTable(U)
      /\ DOMAIN U = DOMAIN T \union {i}
      /\ U[i].period = Null /\ U[i].kind = kind
      /\ \A j \in DOMAIN T : U[j] = T[j]
      /\ kind # "salary" => Salaries(U) = Salaries(T)
  BY <1>1, InsertedRow
<1>3. AfterInsert(T, P, i, date, kind) = Assign(U, P, i, Null)
  BY DEF AfterInsert
<1>4. \A j \in Salaries(T) : j # i
  BY DEF Salaries
<1> HIDE DEF U
<1>5. DOMAIN P = {} \/ \A j \in DOMAIN U \ {i} : InItsPeriod(U[j], P)
  BY <1>2 DEF Consistent
<1>6. DOMAIN P = {} \/ IsSalary(U[i]) \/ FollowsSalaries(U, P)
  <2> SUFFICES ASSUME DOMAIN P # {}, kind # "salary"
               PROVE  FollowsSalaries(U, P)
    BY <1>2 DEF IsSalary
  <2>1. Salaries(T) = Salaries(U) /\ \A j \in Salaries(T) : U[j] = T[j]
    BY <1>2, <1>4 DEF Salaries
  <2>2. QED
    BY <2>1, SameSalariesFollowed DEF Consistent
<1>7. QED
  BY <1>1, <1>2, <1>3, <1>5, <1>6, AssignIsConsistent

LEMMA EditIsConsistent ==
  ASSUME NEW T, NEW P, Consistent(T, P), NEW i \in DOMAIN T,
         NEW date \in Instants, NEW kind \in Kinds
  PROVE  LET A == AfterEdit(T, P, i, date, kind)
         IN  Consistent(A.txs, A.periods)
<1> DEFINE E == Edited(T, i, date, kind)
           from == Earlier(T[i].date, date)
           R == Rebuild(E, P, from, {})
           read == T[i].period
<1>1. IsTable(T) /\ IsSequence(P) /\ Partition(P)
  BY DEF Consistent
<1>2. /\ IsTable(E)
      /\ DOMAIN E = DOMAIN T
      /\ E[i].period = read /\ E[i].date = date /\ E[i].kind = kind
      /\ \A j \in DOMAIN T \ {i} : E[j] = T[j]
      /\ kind # "salary" /\ T[i].kind # "salary" => Salaries(E) = Salaries(T)
  BY <1>1, EditedRow
<1>3. from \in Nat /\ from <= date
  BY <1>1, DatesAreNaturals, InstantsAssumption DEF Earlier
<1>4. CASE IsSalary(T[i])
  <2>1. /\ AfterEdit(T, P, i, date, kind).txs = Assign(R.txs, R.periods, i, read).txs
        /\ AfterEdit(T, P, i, date, kind).periods = Assign(R.txs, R.periods, i, read).periods
    BY <1>4 DEF AfterEdit
  <2> HIDE DEF E, from
  <2>2. DOMAIN P = {} \/ \A j \in DOMAIN E : from <= E[j].date \/ InItsPeriod(E[j], P)
    BY <1>2, <1>3 DEF Consistent
  <2>3. /\ Consistent(R.txs, R.periods)
        /\ \A j \in DOMAIN E : InItsPeriod(R.txs[j], R.periods)
        /\ FollowsSalaries(R.txs, R.periods)
    BY <1>1, <1>2, <1>3, <2>2, RebuildIsConsistent
  <2>4. DOMAIN R.txs = DOMAIN E
    BY <1>2, RebuildKeepsRows
  <2> HIDE DEF R, read
  <2>5. Consistent(Assign(R.txs, R.periods, i, read).txs,
                   Assign(R.txs, R.periods, i, read).periods)
    BY <1>2, <2>3, <2>4, AssignIsConsistent DEF Consistent
  <2>6. QED
    BY <2>1, <2>5
<1>5. CASE ~ IsSalary(T[i])
  <2>1. /\ AfterEdit(T, P, i, date, kind).txs = Assign(E, P, i, read).txs
        /\ AfterEdit(T, P, i, date, kind).periods = Assign(E, P, i, read).periods
    BY <1>5 DEF AfterEdit
  <2> HIDE DEF E
  <2>2. DOMAIN P = {} \/ \A j \in DOMAIN E \ {i} : InItsPeriod(E[j], P)
    BY <1>2 DEF Consistent
  <2>3. DOMAIN P = {} \/ IsSalary(E[i]) \/ FollowsSalaries(E, P)
    <3> SUFFICES ASSUME DOMAIN P # {}, kind # "salary"
                 PROVE  FollowsSalaries(E, P)
      BY <1>2 DEF IsSalary
    <3>1. Salaries(T) = Salaries(E) /\ \A j \in Salaries(T) : E[j] = T[j]
      BY <1>2, <1>5 DEF Salaries, IsSalary
    <3>2. QED
      BY <3>1, SameSalariesFollowed DEF Consistent
  <2>4. QED
    BY <1>1, <1>2, <2>1, <2>2, <2>3, AssignIsConsistent
<1>6. QED
  BY <1>4, <1>5

LEMMA DeleteIsConsistent ==
  ASSUME NEW T, NEW P, Consistent(T, P), NEW i \in DOMAIN T
  PROVE  LET A == AfterDelete(T, P, i)
         IN  Consistent(A.txs, A.periods)
<1> DEFINE D == Deleted(T, i)
           R == Rebuild(D, P, T[i].date, {})
<1>1. IsTable(T) /\ IsSequence(P) /\ Partition(P) /\ T[i].date \in Nat
  BY DatesAreNaturals DEF Consistent
<1>2. /\ IsTable(D)
      /\ \A j \in DOMAIN D : j \in DOMAIN T /\ D[j] = T[j]
      /\ DOMAIN D = DOMAIN T \ {i}
      /\ T[i].kind # "salary" => Salaries(D) = Salaries(T)
  BY <1>1, DeletedRow
<1>3. CASE IsSalary(T[i])
  <2>1. /\ AfterDelete(T, P, i).txs = R.txs
        /\ AfterDelete(T, P, i).periods = R.periods
    BY <1>3 DEF AfterDelete
  <2> HIDE DEF D
  <2>2. DOMAIN P = {} \/ \A j \in DOMAIN D : T[i].date <= D[j].date \/ InItsPeriod(D[j], P)
    BY <1>2 DEF Consistent
  <2>3. Consistent(R.txs, R.periods)
    BY <1>1, <1>2, <2>2, RebuildIsConsistent
  <2>4. QED
    BY <2>1, <2>3
<1>4. CASE ~ IsSalary(T[i])
  <2>1. AfterDelete(T, P, i).txs = D /\ AfterDelete(T, P, i).periods = P
    BY <1>4 DEF AfterDelete
  <2> HIDE DEF D
  <2>2. DOMAIN P # {} => FollowsSalaries(D, P)
    <3>1. Salaries(T) = Salaries(D) /\ \A j \in Salaries(T) : D[j] = T[j]
      BY <1>2, <1>4 DEF Salaries, IsSalary
    <3>2. QED
      BY <3>1, SameSalariesFollowed DEF Consistent
  <2>3. DOMAIN P # {} => \A j \in DOMAIN D : InItsPeriod(D[j], P)
    BY <1>2 DEF Consistent
  <2>4. QED
    BY <1>1, <1>2, <2>1, <2>2, <2>3 DEF Consistent
<1>5. QED
  BY <1>3, <1>4

LEMMA LocateIsConsistent ==
  ASSUME NEW T, NEW P, Consistent(T, P), NEW date \in Nat
  PROVE  LET L == Locate(T, P, date, FALSE)
         IN  Consistent(L.txs, L.periods)
<1>1. CASE CoveringKeys(P, date) # {}
  BY <1>1 DEF Locate, LocatedIn
<1>2. CASE CoveringKeys(P, date) = {}
  <2> DEFINE R == Rebuild(T, P, date, {date})
  <2>1. /\ Locate(T, P, date, FALSE).txs = R.txs
        /\ Locate(T, P, date, FALSE).periods = R.periods
    BY <1>2 DEF Locate, LocatedIn
  <2>2. Consistent(R.txs, R.periods)
    BY RebuildIsConsistent DEF Consistent
  <2>3. QED
    BY <2>1, <2>2
<1>3. QED
  BY <1>1, <1>2

-----------------------------------------------------------------------------
(* The theorems *)

LEMMA InitInv == Init => Inv
<1> SUFFICES ASSUME Init
             PROVE  Inv
  OBVIOUS
<1>1. DOMAIN periods = {}
  BY DEF Init
<1>2. IsTable(txs)
  BY DEF Init, IsTable, Transaction
<1>3. QED
  BY <1>1, <1>2 DEF Inv, Consistent, IsSequence, Partition

\* Every request leaves the tables consistent.
LEMMA NextInv == Inv /\ [Next]_vars => Inv'
<1> SUFFICES ASSUME Inv, [Next]_vars
             PROVE  Consistent(txs', periods')
  BY DEF Inv
<1> USE DEF Inv
<1>1. ASSUME NEW i \in TxIds, NEW date \in Instants, NEW kind \in Kinds,
             CreateTransaction(i, date, kind)
      PROVE  Consistent(txs', periods')
  <2>1. i \in TxIds \ DOMAIN txs
    BY <1>1 DEF CreateTransaction
  <2>2. QED
    BY <1>1, <2>1, InsertIsConsistent DEF CreateTransaction, Becomes
<1>2. ASSUME NEW i \in TxIds, NEW date \in Instants, NEW kind \in Kinds,
             UpdateTransaction(i, date, kind)
      PROVE  Consistent(txs', periods')
  BY <1>2, EditIsConsistent DEF UpdateTransaction, Becomes
<1>3. ASSUME NEW i \in TxIds, NEW date \in Instants, RecordMovement(i, date)
      PROVE  Consistent(txs', periods')
  <2>1. i \in TxIds \ DOMAIN txs /\ "managed" \in Kinds
    BY <1>3 DEF RecordMovement, Kinds
  <2>2. QED
    BY <1>3, <2>1, InsertIsConsistent DEF RecordMovement, Becomes
<1>4. ASSUME NEW i \in TxIds, NEW date \in Instants, MoveMovement(i, date)
      PROVE  Consistent(txs', periods')
  <2>1. "managed" \in Kinds
    BY DEF Kinds
  <2>2. QED
    BY <1>4, <2>1, EditIsConsistent DEF MoveMovement, Becomes
<1>5. ASSUME NEW i \in TxIds, RemoveTransaction(i) \/ DropMovement(i)
      PROVE  Consistent(txs', periods')
  BY <1>5, DeleteIsConsistent DEF RemoveTransaction, DropMovement, Becomes
<1>6. ASSUME NEW now \in Instants, GetCurrentPeriod(now)
      PROVE  Consistent(txs', periods')
  BY <1>6, InstantsAssumption, LocateIsConsistent DEF GetCurrentPeriod, Becomes
<1>7. ASSUME MigratePeriods
      PROVE  Consistent(txs', periods')
  BY <1>7, RebuildIsConsistent DEF MigratePeriods, Becomes, Consistent
<1>8. CASE UNCHANGED vars
  BY <1>8 DEF vars
<1>9. QED
  BY <1>1, <1>2, <1>3, <1>4, <1>5, <1>6, <1>7, <1>8 DEF Next

\* The tables stay consistent.
THEOREM Consistency == Spec => []Inv
BY InitInv, NextInv, PTL DEF Spec

\* Type correctness.
THEOREM TypeCorrect == Spec => []TypeOK
<1>1. Inv => TypeOK
  BY DEF Inv, Consistent, TypeOK
<1>2. QED
  BY <1>1, Consistency, PTL

\* The periods always partition the time from the first start on: what a read
\* by date finds is the one period of that date.
THEOREM PeriodsAlwaysPartition == Spec => []PeriodsPartition
<1>1. Inv => PeriodsPartition
  BY DEF Inv, Consistent, PeriodsPartition
<1>2. QED
  BY <1>1, Consistency, PTL

\* Every transaction is always stored with the period of its date.
THEOREM TransactionsAlwaysInTheirPeriod == Spec => []TransactionsInTheirPeriod
<1>1. Inv => TransactionsInTheirPeriod
  BY DEF Inv, Consistent, TransactionsInTheirPeriod, Migrated
<1>2. QED
  BY <1>1, Consistency, PTL

\* The anchored periods are always the ones the salaries of the table ask for.
THEOREM AnchorsAlwaysFollowSalaries == Spec => []AnchorsFollowSalaries
<1>1. Inv => AnchorsFollowSalaries
  BY DEF Inv, Consistent, AnchorsFollowSalaries, Migrated
<1>2. QED
  BY <1>1, Consistency, PTL

-----------------------------------------------------------------------------
(* What a step leaves alone *)

\* The bootstrap period comes before the others.
BootstrapFirst(P) ==
    Bootstrap \in DOMAIN P =>
        \A k \in DOMAIN P \ {Bootstrap} : P[Bootstrap].start < P[k].start

\* Periods that a rebuild of a table with these ids may leave.
DerivedFor(ids, P) ==
    \E T : \E cover \in SUBSET Nat :
        /\ IsTable(T) /\ DOMAIN T = ids
        /\ P = DesiredPeriods(T, cover)

DesiredSequence == Inv /\ BootstrapFirst(periods)

\* What is derived has its bootstrap first, and is empty only for no rows.
LEMMA DerivedPeriods ==
  ASSUME NEW ids, NEW P, DerivedFor(ids, P)
  PROVE  BootstrapFirst(P) /\ (ids # {} => DOMAIN P # {})
<1>0. PICK T : \E cover \in SUBSET Nat :
         IsTable(T) /\ DOMAIN T = ids /\ P = DesiredPeriods(T, cover)
  BY DEF DerivedFor
<1>1. PICK cover \in SUBSET Nat :
         IsTable(T) /\ DOMAIN T = ids /\ P = DesiredPeriods(T, cover)
  BY <1>0
<1>2. /\ DOMAIN P = DesiredKeys(T, cover)
      /\ \A k \in DOMAIN P : P[k].start = DesiredStart(T, cover, k)
  BY <1>1, DesiredRows
<1>3. \A i \in Anchors(T) : i # Bootstrap
  BY <1>1, DatesAreNaturals, KeysAssumption
<1>4. BootstrapFirst(P)
  BY <1>2, <1>3 DEF BootstrapFirst, DesiredKeys, DesiredStart, NeedsBootstrap
<1>5. ASSUME NEW i \in ids
      PROVE  DOMAIN P # {}
  <2>1. CoveringKeys(P, T[i].date) # {}
    BY <1>1, DesiredReaches DEF DatesToReach
  <2>2. QED
    BY <2>1 DEF CoveringKeys
<1>6. QED
  BY <1>4, <1>5

\* Assigning keeps the rows, and the periods or derives them.
LEMMA AssignDerives ==
  ASSUME NEW T, IsTable(T), NEW P, NEW i \in DOMAIN T, NEW read
  PROVE  LET A == Assign(T, P, i, read)
         IN  /\ DOMAIN A.txs = DOMAIN T
             /\ A.periods = P \/ DerivedFor(DOMAIN T, A.periods)
<1> DEFINE date == T[i].date
           L == Locate(T, P, date, IsSalary(T[i]))
           A == Assign(T, P, i, read)
           R == Rebuild(T, P, date, {date})
<1>1. date \in Nat
  BY DatesAreNaturals
<1>2. DOMAIN R.txs = DOMAIN T /\ R.periods = DesiredPeriods(T, {date})
  BY <1>1, RebuildKeepsRows
<1>3. DerivedFor(DOMAIN T, R.periods)
  BY <1>1, <1>2 DEF DerivedFor
<1>4. \/ L.txs = T /\ L.periods = P
      \/ L.txs = R.txs /\ L.periods = R.periods
  BY DEF Locate, LocatedIn
<1>5. A = L \/ A = [L EXCEPT !.txs[i].period = L.period]
  BY DEF Assign, Placed
<1>6. {"txs", "periods"} \subseteq DOMAIN L
  BY DEF Locate, LocatedIn
<1>7. DOMAIN A.txs = DOMAIN L.txs /\ A.periods = L.periods
  <2> HIDE DEF L, A
  <2>1. QED
    BY <1>5, <1>6
<1>8. QED
  <2> HIDE DEF L, A, R
  <2>1. QED
    BY <1>2, <1>3, <1>4, <1>7 DEF A

\* A step keeps the periods or derives them from the rows it leaves.
LEMMA StepDerives ==
  ASSUME Inv, [Next]_vars
  PROVE  periods' = periods \/ DerivedFor(DOMAIN txs', periods')
<1>1. IsTable(txs)
  BY DEF Inv, Consistent
<1>2. ASSUME NEW i \in TxIds \ DOMAIN txs, NEW date \in Instants, NEW kind \in Kinds,
             Becomes(AfterInsert(txs, periods, i, date, kind))
      PROVE  periods' = periods \/ DerivedFor(DOMAIN txs', periods')
  <2>1. IsTable(Inserted(txs, i, date, kind))
    BY <1>1, InsertedRow
  <2>2. i \in DOMAIN Inserted(txs, i, date, kind)
    BY DEF Inserted
  <2>3. QED
    BY <1>2, <2>1, <2>2, AssignDerives DEF Becomes, AfterInsert
<1>3. ASSUME NEW i \in DOMAIN txs, NEW date \in Instants, NEW kind \in Kinds,
             Becomes(AfterEdit(txs, periods, i, date, kind))
      PROVE  periods' = periods \/ DerivedFor(DOMAIN txs', periods')
  <2> DEFINE E == Edited(txs, i, date, kind)
             from == Earlier(txs[i].date, date)
             R == IF IsSalary(txs[i]) THEN Rebuild(E, periods, from, {})
                  ELSE [txs |-> E, periods |-> periods, boundary |-> from]
             A == Assign(R.txs, R.periods, i, txs[i].period)
  <2>1. IsTable(E) /\ DOMAIN E = DOMAIN txs
    BY <1>1, EditedRow
  <2>2. /\ IsTable(R.txs) /\ DOMAIN R.txs = DOMAIN txs
        /\ R.periods = periods \/ R.periods = DesiredPeriods(E, {})
    <3>1. CASE IsSalary(txs[i])
      BY <2>1, <3>1, RebuildKeepsRows
    <3>2. CASE ~ IsSalary(txs[i])
      BY <2>1, <3>2
    <3>3. QED
      BY <3>1, <3>2
  <2>3. R.periods = periods \/ DerivedFor(DOMAIN txs, R.periods)
    BY <2>1, <2>2 DEF DerivedFor
  <2>4. txs' = A.txs /\ periods' = A.periods
    BY <1>3 DEF Becomes, AfterEdit
  <2> HIDE DEF R
  <2>5. QED
    BY <2>2, <2>3, <2>4, AssignDerives
<1>4. ASSUME NEW i \in DOMAIN txs, Becomes(AfterDelete(txs, periods, i))
      PROVE  periods' = periods \/ DerivedFor(DOMAIN txs', periods')
  <2> DEFINE D == Deleted(txs, i)
             R == Rebuild(D, periods, txs[i].date, {})
  <2>1. IsTable(D)
    BY <1>1, DeletedRow
  <2>2. DOMAIN R.txs = DOMAIN D /\ R.periods = DesiredPeriods(D, {})
    BY <2>1, RebuildKeepsRows
  <2>3. \/ periods' = periods
        \/ txs' = R.txs /\ periods' = R.periods
    BY <1>4 DEF Becomes, AfterDelete
  <2>4. QED
    BY <2>1, <2>2, <2>3 DEF DerivedFor
<1>5. ASSUME NEW now \in Instants, GetCurrentPeriod(now)
      PROVE  periods' = periods \/ DerivedFor(DOMAIN txs', periods')
  <2> DEFINE R == Rebuild(txs, periods, now, {now})
  <2>1. now \in Nat
    BY InstantsAssumption
  <2>2. DOMAIN R.txs = DOMAIN txs /\ R.periods = DesiredPeriods(txs, {now})
    BY <1>1, <2>1, RebuildKeepsRows
  <2>3. periods' = periods \/ (txs' = R.txs /\ periods' = R.periods)
    BY <1>5 DEF GetCurrentPeriod, Becomes, Locate, LocatedIn
  <2>4. QED
    BY <1>1, <2>1, <2>2, <2>3 DEF DerivedFor
<1>6. ASSUME MigratePeriods
      PROVE  periods' = periods \/ DerivedFor(DOMAIN txs', periods')
  <2> DEFINE R == Rebuild(txs, periods, 0, {})
  <2>1. DOMAIN R.txs = DOMAIN txs /\ R.periods = DesiredPeriods(txs, {})
    BY <1>1, RebuildKeepsRows
  <2>2. QED
    BY <1>1, <1>6, <2>1 DEF MigratePeriods, Becomes, DerivedFor
<1>7. "managed" \in Kinds
  BY DEF Kinds
<1>8. CASE UNCHANGED vars
  BY <1>8 DEF vars
<1>9. QED
  BY <1>2, <1>3, <1>4, <1>5, <1>6, <1>7, <1>8
     DEF Next, CreateTransaction, UpdateTransaction, RecordMovement, MoveMovement,
         RemoveTransaction, DropMovement

\* The tables stay consistent, with the bootstrap period first.
LEMMA SequenceIsDesired == Spec => []DesiredSequence
<1>1. Init => BootstrapFirst(periods)
  BY DEF Init, BootstrapFirst
<1>2. Inv /\ BootstrapFirst(periods) /\ [Next]_vars => BootstrapFirst(periods)'
  BY StepDerives, DerivedPeriods DEF BootstrapFirst
<1>3. QED
  BY <1>1, <1>2, InitInv, NextInv, PTL DEF Spec, DesiredSequence

\* Of the starts after one of an anchored period, none is the bootstrap's.
LEMMA AnchoredEnds ==
  ASSUME NEW P, IsSequence(P), Partition(P), BootstrapFirst(P),
         NEW k \in DOMAIN P \ {Bootstrap}
  PROVE  P[k].end = NextStart({P[j].start : j \in DOMAIN P \ {Bootstrap}}, P[k].start)
<1> DEFINE all == {P[j].start : j \in DOMAIN P}
           anchored == {P[j].start : j \in DOMAIN P \ {Bootstrap}}
<1>1. P[k].end = NextStart(all, P[k].start)
  BY DEF Partition
<1>2. \A j \in DOMAIN P : P[j].start \in Nat
  BY DEF IsSequence, Period
<1>3. ASSUME NEW j \in DOMAIN P, P[k].start < P[j].start
      PROVE  j # Bootstrap
  BY <1>2, <1>3 DEF BootstrapFirst
<1>4. {n \in all : P[k].start < n} = {n \in anchored : P[k].start < n}
  BY <1>3
<1>5. QED
  BY <1>1, <1>4 DEF NextStart

\* The anchored periods of two such sequences are the same if they have the
\* same anchors and start with them at the same instants.
LEMMA AnchoredRowsStay ==
  ASSUME NEW P, IsSequence(P), Partition(P), BootstrapFirst(P),
         NEW Q, IsSequence(Q), Partition(Q), BootstrapFirst(Q),
         DOMAIN P \ {Bootstrap} = DOMAIN Q \ {Bootstrap},
         \A k \in DOMAIN P \ {Bootstrap} : P[k].start = Q[k].start
  PROVE  \A k \in DOMAIN P \ {Bootstrap} : k \in DOMAIN Q /\ Q[k] = P[k]
<1> SUFFICES ASSUME NEW k \in DOMAIN P \ {Bootstrap}
             PROVE  Q[k] = P[k]
  OBVIOUS
<1>1. {P[j].start : j \in DOMAIN P \ {Bootstrap}} = {Q[j].start : j \in DOMAIN Q \ {Bootstrap}}
  OBVIOUS
<1>2. P[k].end = Q[k].end
  <2> DEFINE startsP == {P[j].start : j \in DOMAIN P \ {Bootstrap}}
             startsQ == {Q[j].start : j \in DOMAIN Q \ {Bootstrap}}
  <2>1. P[k].end = NextStart(startsP, P[k].start)
    BY AnchoredEnds
  <2>2. Q[k].end = NextStart(startsQ, Q[k].start)
    BY AnchoredEnds
  <2>3. P[k].start = Q[k].start
    OBVIOUS
  <2> HIDE DEF startsP, startsQ
  <2>4. QED
    BY <1>1, <2>1, <2>2, <2>3 DEF startsP, startsQ
<1>3. P[k] \in Period /\ Q[k] \in Period
  BY DEF IsSequence
<1>4. QED
  BY <1>2, <1>3 DEF Period

\* Two periods of a partition never cover the same date.
LEMMA CoveredOnce ==
  ASSUME NEW P, IsSequence(P), Partition(P), NEW date \in Nat,
         NEW j \in CoveringKeys(P, date), NEW k \in CoveringKeys(P, date)
  PROVE  j = k
<1> DEFINE starts == {P[m].start : m \in DOMAIN P}
<1>1. starts \in SUBSET Nat /\ P[j].start \in starts /\ P[k].start \in starts
  BY DEF IsSequence, Period, CoveringKeys
<1>2. ASSUME NEW a \in CoveringKeys(P, date), NEW b \in CoveringKeys(P, date),
             P[a].start < P[b].start
      PROVE  FALSE
  <2>1. a \in DOMAIN P /\ b \in DOMAIN P /\ P[b].start <= date
    BY DEF CoveringKeys, Covers
  <2>2. P[a].end = NextStart(starts, P[a].start)
    BY <2>1 DEF Partition
  <2>3. P[a].start \in Nat /\ P[b].start \in starts /\ P[b].start \in Nat
    BY <1>1, <2>1
  <2> HIDE DEF starts
  <2>4. ~ (P[b].start <= P[a].start)
    BY <1>2, <2>3
  <2>5. P[a].end # Null /\ P[a].end \in Nat /\ P[a].end <= P[b].start
    BY <1>1, <1>2, <2>2, <2>3, <2>4, NextStartIsNext
  <2>6. date < P[a].end
    BY <2>5 DEF CoveringKeys, Covers
  <2>7. QED
    BY <2>1, <2>3, <2>5, <2>6
<1>3. P[j].start = P[k].start
  <2>1. P[j].start \in Nat /\ P[k].start \in Nat
    BY <1>1
  <2>2. ~ (P[j].start < P[k].start) /\ ~ (P[k].start < P[j].start)
    BY <1>2
  <2>3. QED
    BY <2>1, <2>2
<1>4. QED
  BY <1>3 DEF Partition, CoveringKeys

\* What a step that touches no salary leaves alone, over tables that are
\* consistent before and after it.
LEMMA OthersStay ==
  ASSUME DesiredSequence, DesiredSequence', [Next]_vars, ~ SalariesChange, Migrated
  PROVE  /\ \A k \in DOMAIN periods \ {Bootstrap} :
               k \in DOMAIN periods' /\ periods'[k] = periods[k]
         /\ \A i \in DOMAIN txs \intersect DOMAIN txs' :
               txs[i].date = txs'[i].date => txs'[i].period = txs[i].period
<1>1. /\ IsTable(txs) /\ IsSequence(periods) /\ Partition(periods)
      /\ BootstrapFirst(periods)
      /\ FollowsSalaries(txs, periods)
      /\ \A i \in DOMAIN txs : InItsPeriod(txs[i], periods)
  BY DEF DesiredSequence, Inv, Consistent, Migrated
<1>2. /\ IsTable(txs') /\ IsSequence(periods') /\ Partition(periods')
      /\ BootstrapFirst(periods')
      /\ DOMAIN periods' # {} =>
            /\ FollowsSalaries(txs', periods')
            /\ \A i \in DOMAIN txs' : InItsPeriod(txs'[i], periods')
  BY DEF DesiredSequence, Inv, Consistent
<1>3. /\ Salaries(txs) = Salaries(txs')
      /\ \A i \in Salaries(txs) : txs[i].date = txs'[i].date
  BY DEF SalariesChange
<1>4. Anchors(txs) = Anchors(txs')
  BY <1>3, AnchorsOfSameSalaries
<1>5. CASE DOMAIN periods' = {}
  <2>1. DOMAIN txs' = {}
    BY <1>5, StepDerives, DerivedPeriods DEF DesiredSequence, Migrated
  <2>2. Anchors(txs') = {}
    BY <2>1 DEF Anchors, Salaries
  <2>3. DOMAIN periods \ {Bootstrap} = {}
    BY <1>1, <1>4, <2>2 DEF FollowsSalaries
  <2>4. QED
    BY <2>1, <2>3
<1>6. CASE DOMAIN periods' # {}
  <2>1. DOMAIN periods \ {Bootstrap} = DOMAIN periods' \ {Bootstrap}
    BY <1>1, <1>2, <1>4, <1>6 DEF FollowsSalaries
  <2>2. \A k \in DOMAIN periods \ {Bootstrap} : periods[k].start = periods'[k].start
    <3>1. \A k \in Anchors(txs) : k \in Salaries(txs)
      BY <1>1, DatesAreNaturals
    <3>2. QED
      BY <1>1, <1>2, <1>3, <1>4, <1>6, <3>1 DEF FollowsSalaries
  <2>3. \A k \in DOMAIN periods \ {Bootstrap} :
           k \in DOMAIN periods' /\ periods'[k] = periods[k]
    BY <1>1, <1>2, <2>1, <2>2, AnchoredRowsStay
  <2>4. ASSUME NEW i \in DOMAIN txs \intersect DOMAIN txs', txs[i].date = txs'[i].date
        PROVE  txs'[i].period = txs[i].period
    <3> DEFINE date == txs[i].date
               old == txs[i].period
               new == txs'[i].period
    <3>1. date \in Nat
      BY <1>1, DatesAreNaturals
    <3>2. old \in CoveringKeys(periods, date) /\ new \in CoveringKeys(periods', date)
      BY <1>1, <1>2, <1>6, <2>4 DEF InItsPeriod, CoveringKeys
    <3> HIDE DEF date, old, new
    <3>3. CASE old # Bootstrap
      <4>1. old \in CoveringKeys(periods', date)
        BY <2>3, <3>2, <3>3 DEF CoveringKeys
      <4>2. QED
        BY <1>2, <3>1, <3>2, <4>1, CoveredOnce DEF old, new
    <3>4. CASE new # Bootstrap
      <4>1. new \in CoveringKeys(periods, date)
        BY <2>1, <2>3, <3>2, <3>4 DEF CoveringKeys
      <4>2. QED
        BY <1>1, <3>1, <3>2, <4>1, CoveredOnce DEF old, new
    <3>5. QED
      BY <3>3, <3>4 DEF old, new
  <2>5. QED
    BY <2>3, <2>4
<1>7. QED
  BY <1>5, <1>6

\* A step that touches no salary never moves an anchored period, nor another
\* transaction from one period to another.
THEOREM OnlySalariesAlwaysMoveOthers == Spec => OnlySalariesMoveOthers
<1>1. /\ DesiredSequence /\ DesiredSequence' /\ [Next]_vars
      => [(~ SalariesChange /\ Migrated) =>
            /\ \A k \in DOMAIN periods \ {Bootstrap} :
                  k \in DOMAIN periods' /\ periods'[k] = periods[k]
            /\ \A i \in DOMAIN txs \intersect DOMAIN txs' :
                  txs[i].date = txs'[i].date => txs'[i].period = txs[i].period]_vars
  BY OthersStay
<1>2. QED
  BY <1>1, SequenceIsDesired, PTL DEF Spec, OnlySalariesMoveOthers

\* The administrator's migration changes no row of tables the requests have
\* kept, and no anchored period.
LEMMA MigrationKeeps ==
  ASSUME DesiredSequence, DesiredSequence', [Next]_vars, MigratePeriods, Migrated
  PROVE  /\ DOMAIN txs' = DOMAIN txs /\ \A i \in DOMAIN txs : txs'[i] = txs[i]
         /\ \A k \in DOMAIN periods \ {Bootstrap} :
               k \in DOMAIN periods' /\ periods'[k] = periods[k]
<1>1. IsTable(txs) /\ IsTable(txs')
  BY DEF DesiredSequence, Inv, Consistent
<1>2. /\ DOMAIN txs' = DOMAIN txs
      /\ \A i \in DOMAIN txs : txs'[i].date = txs[i].date /\ txs'[i].kind = txs[i].kind
  BY <1>1, RebuildKeepsRows DEF MigratePeriods, Becomes
<1>3. ~ SalariesChange
  BY <1>2 DEF SalariesChange, Salaries, IsSalary
<1>4. \A i \in DOMAIN txs : txs'[i].period = txs[i].period
  BY <1>2, <1>3, OthersStay
<1>5. ASSUME NEW i \in DOMAIN txs
      PROVE  txs'[i] = txs[i]
  <2>1. txs[i] \in Transaction /\ txs'[i] \in Transaction
    BY <1>1, <1>2 DEF IsTable
  <2>2. QED
    BY <1>2, <1>4, <2>1 DEF Transaction
<1>6. QED
  BY <1>2, <1>3, <1>5, OthersStay

\* Running the migration over tables the requests have kept reassigns nothing.
THEOREM MigrationAlwaysKeepsAssignments == Spec => MigrationKeepsAssignments
<1>1. /\ DesiredSequence /\ DesiredSequence' /\ [Next]_vars
      => [(MigratePeriods /\ Migrated) =>
            /\ DOMAIN txs' = DOMAIN txs /\ \A i \in DOMAIN txs : txs'[i] = txs[i]
            /\ \A k \in DOMAIN periods \ {Bootstrap} :
                  k \in DOMAIN periods' /\ periods'[k] = periods[k]]_vars
  BY MigrationKeeps
<1>2. QED
  BY <1>1, SequenceIsDesired, PTL DEF Spec, MigrationKeepsAssignments

=============================================================================
