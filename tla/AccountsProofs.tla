----------------------------- MODULE AccountsProofs -----------------------------
(***************************************************************************)
(* What is proved of Accounts for any number of clients, accounts and      *)
(* adjustments, any products and edits and any days of the cards: types,   *)
(* the newest adjustment explains the anchor; and of requests that come    *)
(* one by one, the chain of the history, what a reversion restores and the *)
(* attributes that fit together; and that money moved between accounts     *)
(* leaves the net worth.                                                   *)
(*                                                                         *)
(* The invariant is about requests under way: what each has read and is    *)
(* going to write.  Of several at once only their types are known; a       *)
(* request that is alone still holds what the account is when it writes.   *)
(*                                                                         *)
(* And of the days of a card, for every year and every cycle: months carry *)
(* over, a day that a month lacks is its last, and dates are ordered by    *)
(* their month and then by their day.                                      *)
(***************************************************************************)
EXTENDS Accounts, FiniteTheorems, TLAPS

-----------------------------------------------------------------------------
(* The days of a card: months *)

IsMonth(ym) == ym.year \in Nat /\ ym.month \in 1 .. 12

\* Quotient and remainder, as the provers need them.
LEMMA DividedByTwelve ==
  ASSUME NEW index \in Nat
  PROVE  /\ index \div 12 \in Nat
         /\ index % 12 \in 0 .. 11
         /\ (index \div 12) * 12 + (index % 12) = index
<1>1. index \div 12 \in Int /\ index % 12 \in 0 .. 11
  OBVIOUS
<1>2. index = 12 * (index \div 12) + (index % 12)
  OBVIOUS
<1>3. QED
  BY <1>1, <1>2

\* Moving by months counts them, across years.
LEMMA ShiftedMonth ==
  ASSUME NEW ym, IsMonth(ym), NEW delta \in Int, monthIndex(ym) + delta >= 0
  PROVE  /\ IsMonth(shiftMonth(ym, delta))
         /\ monthIndex(shiftMonth(ym, delta)) = monthIndex(ym) + delta
<1> DEFINE index == monthIndex(ym) + delta
<1>1. index \in Nat
  BY DEF IsMonth, monthIndex
<1>2. shiftMonth(ym, delta) = [year |-> index \div 12, month |-> (index % 12) + 1]
  BY DEF shiftMonth
<1> HIDE DEF index
<1>3. /\ index \div 12 \in Nat /\ index % 12 \in 0 .. 11
      /\ (index \div 12) * 12 + (index % 12) = index
  BY <1>1, DividedByTwelve
<1>4. IsMonth(shiftMonth(ym, delta)) /\ monthIndex(shiftMonth(ym, delta)) = index
  BY <1>2, <1>3 DEF IsMonth, monthIndex
<1>5. QED
  BY <1>4 DEF index

\* A month is told by its number.
LEMMA SameMonth ==
  ASSUME NEW a, NEW b, IsMonth(a), IsMonth(b), monthIndex(a) = monthIndex(b)
  PROVE  a.year = b.year /\ a.month = b.month
BY DEF IsMonth, monthIndex

\* The day of a month, or its last one.
LEMMA ClampedInMonth ==
  ASSUME NEW ym, IsMonth(ym), NEW day \in 1 .. 31
  PROVE  LET date == clampedDay(ym, day)
             last == daysInMonth(ym.year, ym.month)
         IN  /\ IsMonth(date) /\ monthIndex(date) = monthIndex(ym)
             /\ ym.year # 0 => IsCalendarDate(date)
             /\ date.day \in 1 .. 31
             /\ last \in 28 .. 31
             /\ date.day = IF day <= last THEN day ELSE last
<1> DEFINE last == daysInMonth(ym.year, ym.month)
           least == IF day <= last THEN day ELSE last
<1>1. last \in 28 .. 31
  BY DEF daysInMonth
<1>2. Min({day, last}) = least
  <2>1. least \in {day, last} /\ least <= day /\ least <= last /\ least \in Int
    BY <1>1
  <2>2. \A x \in {day, last} : (\A y \in {day, last} : x <= y) => x = least
    BY <1>1, <2>1
  <2>3. QED
    BY <2>1, <2>2 DEF Min
<1>3. clampedDay(ym, day) = [year |-> ym.year, month |-> ym.month, day |-> least]
  BY <1>2 DEF clampedDay, Date
<1>4. QED
  BY <1>1, <1>3 DEF IsMonth, monthIndex, IsCalendarDate, Dates

\* Dates are ordered by their months, then by their days.
LEMMA OrderOfDates ==
  ASSUME NEW a, NEW b, IsMonth(a), IsMonth(b), a.day \in Int, b.day \in Int
  PROVE  NotAfter(a, b) <=> \/ monthIndex(a) < monthIndex(b)
                            \/ monthIndex(a) = monthIndex(b) /\ a.day <= b.day
BY DEF NotAfter, compareDates, IsMonth, monthIndex

-----------------------------------------------------------------------------
(* Days *)

\* The day after a calendar date is one too: the end of the month and of the
\* year carry over.
LEMMA NextDayIsCalendarDate ==
  ASSUME NEW date, IsCalendarDate(date)
  PROVE  IsCalendarDate(NextDay(date))
<1>1. /\ date.year \in Nat \ {0} /\ date.month \in 1 .. 12
      /\ date.day \in 1 .. daysInMonth(date.year, date.month)
      /\ \A y, m : daysInMonth(y, m) \in {28, 29, 30, 31}
  BY DEF IsCalendarDate, Dates, daysInMonth
<1>2. CASE date.day < daysInMonth(date.year, date.month)
  <2>1. NextDay(date) = [year |-> date.year, month |-> date.month, day |-> date.day + 1]
    BY <1>2 DEF NextDay, Date
  <2>2. QED
    BY <1>1, <1>2, <2>1 DEF IsCalendarDate, Dates
<1>3. CASE ~(date.day < daysInMonth(date.year, date.month))
  <2> DEFINE index == date.year * 12 + (date.month - 1) + 1
  <2>1. NextDay(date) = [year |-> index \div 12, month |-> (index % 12) + 1, day |-> 1]
    BY <1>3 DEF NextDay, Date, shiftMonth, monthIndex
  <2>2. index \in Nat /\ index >= 12
    BY <1>1
  <2>3. index \div 12 \in Nat \ {0} /\ (index % 12) + 1 \in 1 .. 12
    BY <2>2
  <2>4. 1 \in 1 .. daysInMonth(index \div 12, (index % 12) + 1)
    BY <1>1
  <2>5. QED
    BY <2>1, <2>3, <2>4 DEF IsCalendarDate, Dates
<1>4. QED
  BY <1>2, <1>3

\* Days go on, and so do years.
LEMMA YearOfNextDay ==
  ASSUME NEW date, IsCalendarDate(date)
  PROVE  NextDay(date).year >= date.year
<1>1. date.year \in Nat /\ date.month \in 1 .. 12 /\ IsMonth(date)
  BY DEF IsCalendarDate, Dates, IsMonth
<1>2. CASE date.day < daysInMonth(date.year, date.month)
  BY <1>1, <1>2 DEF NextDay, Date
<1>3. CASE ~(date.day < daysInMonth(date.year, date.month))
  <2>1. /\ IsMonth(shiftMonth(date, 1))
        /\ monthIndex(shiftMonth(date, 1)) = monthIndex(date) + 1
    BY <1>1, ShiftedMonth DEF monthIndex
  <2>2. NextDay(date).year = shiftMonth(date, 1).year
    BY <1>3 DEF NextDay, Date
  <2> DEFINE next == shiftMonth(date, 1)
  <2> HIDE DEF next
  <2>3. /\ next.year \in Nat /\ next.month \in 1 .. 12
        /\ next.year * 12 + (next.month - 1) = date.year * 12 + (date.month - 1) + 1
    BY <2>1 DEF next, IsMonth, monthIndex
  <2>4. next.year >= date.year
    BY <1>1, <2>3
  <2>5. QED
    BY <2>2, <2>4 DEF next
<1>4. QED
  BY <1>2, <1>3

\* The two months before a day after the first year have a year.
LEMMA MonthsBefore ==
  ASSUME NEW date, IsCalendarDate(date), date.year > 1, NEW delta \in -2 .. 0
  PROVE  IsMonth(shiftMonth(date, delta)) /\ monthIndex(shiftMonth(date, delta)) >= 12
<1>1. /\ IsMonth(date) /\ date.year \in Nat /\ date.month \in 1 .. 12
      /\ monthIndex(date) = date.year * 12 + (date.month - 1)
  BY DEF IsCalendarDate, Dates, IsMonth, monthIndex
<1>2. monthIndex(date) \in Nat /\ monthIndex(date) >= 24
  BY <1>1
<1>3. QED
  BY <1>1, <1>2, ShiftedMonth

-----------------------------------------------------------------------------
(* The card *)

IsCycle(cycle) == cycle.statementDay \in 1 .. 31 /\ cycle.paymentDueDay \in 1 .. 31

LEMMA DayIsInMonth ==
  ASSUME NEW date, IsCalendarDate(date)
  PROVE  /\ IsMonth(date) /\ monthIndex(date) \in Int /\ monthIndex(date) >= 12
         /\ date.day \in 1 .. daysInMonth(date.year, date.month) /\ date.day \in 1 .. 31
BY DEF IsCalendarDate, Dates, IsMonth, monthIndex, daysInMonth

LEMMA IndexIsInt ==
  ASSUME NEW ym, IsMonth(ym)
  PROVE  monthIndex(ym) \in Nat
BY DEF IsMonth, monthIndex

\* The day of a month depends on no more than the month.
LEMMA ClampedAlike ==
  ASSUME NEW a, NEW b, IsMonth(a), IsMonth(b), monthIndex(a) = monthIndex(b), NEW day
  PROVE  clampedDay(a, day) = clampedDay(b, day)
BY SameMonth DEF clampedDay, Date

\* The next cut is this month's, or else next month's.
LEMMA NextCut ==
  ASSUME NEW asked, IsCalendarDate(asked), NEW day \in 1 .. 31
  PROVE  LET this == clampedDay(asked, day)
             next == statementOnOrAfter(day, asked)
         IN  /\ IsMonth(next) /\ next.day \in 1 .. 31
             /\ NotAfter(asked, this) => next = this /\ monthIndex(next) = monthIndex(asked)
             /\ ~NotAfter(asked, this) => monthIndex(next) = monthIndex(asked) + 1
<1>1. IsMonth(asked) /\ monthIndex(asked) + 1 >= 0
  BY DayIsInMonth
<1>2. /\ IsMonth(shiftMonth(asked, 1))
      /\ monthIndex(shiftMonth(asked, 1)) = monthIndex(asked) + 1
  BY <1>1, ShiftedMonth
<1>3. QED
  BY <1>1, <1>2, ClampedInMonth DEF statementOnOrAfter

\* A cut is paid on a day of the month after it.
LEMMA PaymentOfCut ==
  ASSUME NEW cycle, IsCycle(cycle), NEW cut, IsMonth(cut),
         NEW ym, IsMonth(ym), monthIndex(ym) = monthIndex(cut) + 1
  PROVE  PaymentFor(cycle, cut) = clampedDay(ym, cycle.paymentDueDay)
<1>1. IsMonth(shiftMonth(cut, 1)) /\ monthIndex(shiftMonth(cut, 1)) = monthIndex(cut) + 1
  BY ShiftedMonth, IndexIsInt
<1>2. QED
  BY <1>1, ClampedAlike DEF PaymentFor

\* Of a card that pays before it cuts again, no payment from today on comes
\* before the one that is shown.
LEMMA NextPaymentIsEarliest ==
  ASSUME NEW asked, IsCalendarDate(asked), NEW cycle, IsCycle(cycle),
         cycle.paymentDueDay <= cycle.statementDay,
         NEW delta \in -2 .. 0,
         NotAfter(asked, PaymentFor(cycle, shiftMonth(asked, delta)))
  PROVE  NotAfter(nextPaymentDate(cycle, asked), PaymentFor(cycle, shiftMonth(asked, delta)))
<1> DEFINE m      == monthIndex(asked)
           pay    == cycle.paymentDueDay
           coming == shiftMonth(asked, 1)
           before == shiftMonth(asked, -1)
           now    == clampedDay(asked, pay)
           later  == clampedDay(coming, pay)
           past   == clampedDay(before, pay)
           cut    == statementOnOrAfter(cycle.statementDay, asked)
           date   == PaymentFor(cycle, shiftMonth(asked, delta))
<1>1. /\ IsMonth(asked) /\ m \in Int /\ m >= 12
      /\ asked.day \in 1 .. daysInMonth(asked.year, asked.month) /\ asked.day \in 1 .. 31
  BY DayIsInMonth
<1>2. /\ IsMonth(coming) /\ monthIndex(coming) = m + 1
      /\ IsMonth(before) /\ monthIndex(before) = m - 1
      /\ IsMonth(shiftMonth(asked, delta)) /\ monthIndex(shiftMonth(asked, delta)) = m + delta
  BY <1>1, ShiftedMonth
<1>3. /\ IsMonth(now) /\ monthIndex(now) = m /\ now.day \in 1 .. 31
      /\ IsMonth(later) /\ monthIndex(later) = m + 1 /\ later.day \in 1 .. 31
      /\ IsMonth(past) /\ monthIndex(past) = m - 1 /\ past.day \in 1 .. 31
  BY <1>1, <1>2, ClampedInMonth DEF IsCycle
<1> HIDE DEF m, now, later, past, coming, before, cut, date
<1>4. ~NotAfter(asked, past) /\ NotAfter(asked, later)
  BY <1>1, <1>3, OrderOfDates DEF m
<1>5. date = (IF delta = -2 THEN past ELSE IF delta = -1 THEN now ELSE later)
  <2>1. CASE delta = -2
    BY <1>1, <1>2, <2>1, PaymentOfCut DEF date, past, m
  <2>2. CASE delta = -1
    BY <1>1, <1>2, <2>2, PaymentOfCut DEF date, now, m
  <2>3. CASE delta = 0
    BY <1>1, <1>2, <2>3, PaymentOfCut DEF date, later, m
  <2>4. QED
    BY <2>1, <2>2, <2>3
<1>6. NotAfter(now, later) /\ NotAfter(now, now) /\ NotAfter(later, later)
  BY <1>1, <1>3, OrderOfDates
<1>7. CASE NotAfter(asked, clampedDay(asked, cycle.statementDay))
  <2>1. IsMonth(cut) /\ monthIndex(cut) = m
    BY <1>7, NextCut DEF cut, m, IsCycle
  <2>2. IsMonth(shiftMonth(cut, -1)) /\ monthIndex(shiftMonth(cut, -1)) = m - 1
    BY <1>1, <2>1, ShiftedMonth
  <2>3. PaymentFor(cycle, shiftMonth(cut, -1)) = now /\ PaymentFor(cycle, cut) = later
    BY <1>1, <1>2, <2>1, <2>2, PaymentOfCut DEF now, later, m
  <2>4. nextPaymentDate(cycle, asked) = IF NotAfter(asked, now) THEN now ELSE later
    BY <2>3 DEF nextPaymentDate, cut
  <2>5. QED
    BY <1>4, <1>5, <1>6, <2>4 DEF date
<1>8. CASE ~NotAfter(asked, clampedDay(asked, cycle.statementDay))
  <2>1. IsMonth(cut) /\ monthIndex(cut) = m + 1
    BY <1>8, NextCut DEF cut, m, IsCycle
  <2>2. IsMonth(shiftMonth(cut, -1)) /\ monthIndex(shiftMonth(cut, -1)) = m
    <3>1. monthIndex(cut) + -1 = m /\ m >= 0
      BY <1>1, <2>1
    <3>2. QED
      BY <2>1, <3>1, ShiftedMonth
  <2>3. PaymentFor(cycle, shiftMonth(cut, -1)) = later
    BY <1>1, <1>2, <2>2, PaymentOfCut DEF later, m
  <2>4. nextPaymentDate(cycle, asked) = later
    BY <1>4, <2>3 DEF nextPaymentDate, cut
  <2>5. ~NotAfter(asked, now)
    <3> DEFINE this == clampedDay(asked, cycle.statementDay)
               end  == daysInMonth(asked.year, asked.month)
    <3>1. /\ IsMonth(this) /\ monthIndex(this) = m /\ this.day \in 1 .. 31
          /\ this.day = IF cycle.statementDay <= end THEN cycle.statementDay ELSE end
      BY <1>1, ClampedInMonth DEF m, IsCycle
    <3>2. end \in 28 .. 31 /\ now.day = IF pay <= end THEN pay ELSE end
      BY <1>1, ClampedInMonth DEF now, IsCycle
    <3>3. now.day <= this.day
      BY <3>1, <3>2 DEF IsCycle
    <3>4. ~(asked.day <= this.day)
      BY <1>1, <1>8, <3>1, OrderOfDates DEF m
    <3>5. QED
      BY <1>1, <1>3, <3>1, <3>3, <3>4, OrderOfDates DEF m
  <2>6. QED
    BY <1>4, <1>5, <1>6, <2>4, <2>5 DEF date
<1>9. QED
  BY <1>7, <1>8

\* A month from the twelfth on is of a year from 1 on.
LEMMA YearOfMonth ==
  ASSUME NEW ym, IsMonth(ym), monthIndex(ym) >= 12
  PROVE  ym.year # 0
BY DEF IsMonth, monthIndex

-----------------------------------------------------------------------------
(* The installments *)

\* What is billed by today is what counting months up to the last cut gives.
LEMMA BilledByTheMonth ==
  ASSUME NEW asked, IsCalendarDate(asked), asked.year > 1, NEW cycle, IsCycle(cycle),
         NEW first, IsMonth(first), monthIndex(first) >= 12, NEW k \in Nat \ {0}
  PROVE  LET cut  == StatementDate(cycle, first, k)
             next == statementOnOrAfter(cycle.statementDay, asked)
             last == monthIndex(next) - (IF next = asked THEN 0 ELSE 1)
         IN  /\ IsCalendarDate(cut)
             /\ NotAfter(cut, asked) <=> monthIndex(first) + k - 1 <= last
<1> DEFINE m     == monthIndex(asked)
           month == shiftMonth(first, k - 1)
           cut   == clampedDay(month, cycle.statementDay)
           this  == clampedDay(asked, cycle.statementDay)
           next  == statementOnOrAfter(cycle.statementDay, asked)
           n     == monthIndex(first) + k - 1
<1>1. /\ IsMonth(asked) /\ m \in Int /\ asked.day \in 1 .. 31
      /\ monthIndex(first) \in Nat
  BY DayIsInMonth, IndexIsInt
<1>2. IsMonth(month) /\ monthIndex(month) = n /\ n \in Nat
  BY <1>1, ShiftedMonth
<1>3. month.year # 0
  BY <1>1, <1>2, YearOfMonth
<1>4. /\ IsCalendarDate(cut) /\ IsMonth(cut) /\ monthIndex(cut) = n /\ cut.day \in 1 .. 31
      /\ IsMonth(this) /\ monthIndex(this) = m /\ this.day \in 1 .. 31
  BY <1>1, <1>2, <1>3, ClampedInMonth DEF IsCycle
<1>5. n = m => cut = this
  BY <1>1, <1>2, ClampedAlike
<1>6. StatementDate(cycle, first, k) = cut
  BY DEF StatementDate
<1> HIDE DEF m, n, month, cut, this, next
<1>7. NotAfter(cut, asked) <=> n < m \/ (n = m /\ this.day <= asked.day)
  BY <1>1, <1>4, <1>5, OrderOfDates DEF m
<1>8. NotAfter(asked, this) <=> asked.day <= this.day
  BY <1>1, <1>4, OrderOfDates DEF m
<1>9. CASE NotAfter(asked, this)
  <2>1. next = this
    BY <1>9, NextCut DEF next, this, IsCycle
  <2>2. next = asked <=> asked.day = this.day
    <3>1. asked \in Dates /\ this = [year |-> this.year, month |-> this.month, day |-> this.day]
      BY DEF IsCalendarDate, this, clampedDay, Date
    <3>2. this.year = asked.year /\ this.month = asked.month
      BY <1>1, <1>4, SameMonth DEF m
    <3>3. QED
      BY <2>1, <3>1, <3>2 DEF Dates
  <2>3. QED
    BY <1>1, <1>2, <1>4, <1>6, <1>7, <1>8, <1>9, <2>1, <2>2 DEF next, n
<1>10. CASE ~NotAfter(asked, this)
  <2>1. monthIndex(next) = m + 1
    BY <1>10, NextCut DEF next, this, m, IsCycle
  <2>2. next # asked
    BY <1>1, <2>1 DEF m
  <2>3. QED
    BY <1>1, <1>2, <1>4, <1>6, <1>7, <1>8, <1>10, <2>1, <2>2 DEF next, n
<1>11. QED
  BY <1>9, <1>10

\* What is before a day is before every later one.
LEMMA BeforeLater ==
  ASSUME NEW a, NEW b, NEW c, IsMonth(a), IsMonth(b), IsMonth(c),
         a.day \in Int, b.day \in Int, c.day \in Int,
         ~NotAfter(b, a), NotAfter(b, c)
  PROVE  ~NotAfter(c, a)
<1>1. monthIndex(a) \in Int /\ monthIndex(b) \in Int /\ monthIndex(c) \in Int
  BY IndexIsInt
<1>2. QED
  BY <1>1, OrderOfDates

\* Tomorrow is after today.
LEMMA NextDayIsLater ==
  ASSUME NEW date, IsCalendarDate(date)
  PROVE  NotAfter(date, NextDay(date))
<1>1. IsMonth(date) /\ date.day \in Int /\ monthIndex(date) \in Int /\ monthIndex(date) >= 12
  BY DayIsInMonth
<1>2. IsMonth(NextDay(date)) /\ NextDay(date).day \in Int
  BY NextDayIsCalendarDate, DayIsInMonth
<1>3. CASE date.day < daysInMonth(date.year, date.month)
  <2>1. NextDay(date) = [year |-> date.year, month |-> date.month, day |-> date.day + 1]
    BY <1>3 DEF NextDay, Date
  <2>2. monthIndex(NextDay(date)) = monthIndex(date) /\ NextDay(date).day = date.day + 1
    BY <2>1 DEF monthIndex
  <2>3. QED
    BY <1>1, <1>2, <2>2, OrderOfDates
<1>4. CASE ~(date.day < daysInMonth(date.year, date.month))
  <2>1. /\ NextDay(date).year = shiftMonth(date, 1).year
        /\ NextDay(date).month = shiftMonth(date, 1).month
    BY <1>4 DEF NextDay, Date
  <2>2. monthIndex(NextDay(date)) = monthIndex(shiftMonth(date, 1))
    BY <2>1 DEF monthIndex
  <2>3. monthIndex(shiftMonth(date, 1)) = monthIndex(date) + 1
    BY <1>1, ShiftedMonth
  <2>4. QED
    BY <1>1, <1>2, <2>2, <2>3, OrderOfDates
<1>5. QED
  BY <1>3, <1>4

\* The day of the salary that a period expects, a month after its start.
Expected(start) == clampedDay(shiftMonth(start, 1), start.day)

LEMMA ExpectedNextMonth ==
  ASSUME NEW start, IsMonth(start), start.day \in 1 .. 31
  PROVE  /\ IsMonth(Expected(start)) /\ Expected(start).day \in 1 .. 31
         /\ monthIndex(Expected(start)) = monthIndex(start) + 1
<1>1. monthIndex(start) \in Nat
  BY IndexIsInt
<1>2. IsMonth(shiftMonth(start, 1)) /\ monthIndex(shiftMonth(start, 1)) = monthIndex(start) + 1
  BY <1>1, ShiftedMonth
<1>3. QED
  BY <1>2, ClampedInMonth DEF Expected

\* A period that starts later expects its salary no earlier, whatever the months.
LEMMA ExpectedInOrder ==
  ASSUME NEW a, IsMonth(a), a.day \in 1 .. 31, NEW b, IsMonth(b), b.day \in 1 .. 31,
         NotAfter(a, b)
  PROVE  NotAfter(Expected(a), Expected(b))
<1>1. monthIndex(a) \in Nat /\ monthIndex(b) \in Nat
  BY IndexIsInt
<1>2. /\ IsMonth(Expected(a)) /\ Expected(a).day \in 1 .. 31
      /\ monthIndex(Expected(a)) = monthIndex(a) + 1
      /\ IsMonth(Expected(b)) /\ Expected(b).day \in 1 .. 31
      /\ monthIndex(Expected(b)) = monthIndex(b) + 1
  BY ExpectedNextMonth
<1>3. CASE monthIndex(a) < monthIndex(b)
  BY <1>1, <1>2, <1>3, OrderOfDates
<1>4. CASE monthIndex(a) = monthIndex(b) /\ a.day <= b.day
  <2> DEFINE ma == shiftMonth(a, 1)
             mb == shiftMonth(b, 1)
  <2>1. /\ IsMonth(ma) /\ monthIndex(ma) = monthIndex(a) + 1
        /\ IsMonth(mb) /\ monthIndex(mb) = monthIndex(b) + 1
    BY <1>1, ShiftedMonth
  <2> HIDE DEF ma, mb
  <2>2. ma.year = mb.year /\ ma.month = mb.month
    BY <1>4, <2>1, SameMonth
  <2> DEFINE last == daysInMonth(ma.year, ma.month)
  <2>3. /\ last \in 28 .. 31
        /\ clampedDay(ma, a.day).day = IF a.day <= last THEN a.day ELSE last
    BY <2>1, ClampedInMonth
  <2>4. clampedDay(mb, b.day).day = IF b.day <= last THEN b.day ELSE last
    BY <2>1, <2>2, ClampedInMonth
  <2>5. Expected(a) = clampedDay(ma, a.day) /\ Expected(b) = clampedDay(mb, b.day)
    BY DEF Expected, ma, mb
  <2> HIDE DEF last
  <2>6. Expected(a).day <= Expected(b).day
    BY <1>4, <2>3, <2>4, <2>5
  <2>7. QED
    BY <1>2, <1>4, <2>6, OrderOfDates
<1>5. QED
  BY <1>1, <1>3, <1>4, OrderOfDates

\* The range of an open period ends on the day of the salary expected or tomorrow,
\* and before neither.
LEMMA RangeEnd ==
  ASSUME NEW start, IsMonth(start), start.day \in 1 .. 31, NEW asked, IsCalendarDate(asked)
  PROVE  LET end == periodRangeEnd(start, asked)
         IN  /\ end \in {Expected(start), NextDay(asked)}
             /\ IsMonth(end) /\ end.day \in Int
             /\ NotAfter(Expected(start), end) /\ NotAfter(NextDay(asked), end)
<1> DEFINE expected == Expected(start)
           tomorrow == NextDay(asked)
<1>1. /\ IsMonth(tomorrow) /\ tomorrow.day \in Int
      /\ IsMonth(expected) /\ expected.day \in Int
  BY NextDayIsCalendarDate, DayIsInMonth, ExpectedNextMonth
<1>2. periodRangeEnd(start, asked) = IF NotAfter(tomorrow, expected) THEN expected ELSE tomorrow
  BY DEF periodRangeEnd, Expected
<1> HIDE DEF expected, tomorrow
<1>3. monthIndex(tomorrow) \in Int /\ monthIndex(expected) \in Int
  BY <1>1, IndexIsInt
<1>4. /\ NotAfter(expected, expected) /\ NotAfter(tomorrow, tomorrow)
      /\ NotAfter(tomorrow, expected) \/ NotAfter(expected, tomorrow)
  BY <1>1, <1>3, OrderOfDates
<1>5. QED
  BY <1>1, <1>2, <1>4 DEF expected, tomorrow

\* What the open period is charged stays charged, a salary coming today or not.
LEMMA ChargeStays ==
  ASSUME NEW asked, IsCalendarDate(asked), NEW start, IsMonth(start), start.day \in 1 .. 31,
         NotAfter(start, asked),
         NEW due, IsMonth(due), due.day \in 1 .. 31,
         inRange(due, start, periodRangeEnd(start, asked))
  PROVE  /\ inRange(due, start, periodRangeEnd(start, NextDay(asked)))
         /\ inRange(due, start, asked) \/ inRange(due, asked, periodRangeEnd(asked, asked))
<1> DEFINE tomorrow == NextDay(asked)
           end      == periodRangeEnd(start, asked)
           waited   == periodRangeEnd(start, tomorrow)
           opened   == periodRangeEnd(asked, asked)
<1>1. IsCalendarDate(tomorrow) /\ IsCalendarDate(NextDay(tomorrow))
  BY NextDayIsCalendarDate
<1>2. /\ IsMonth(asked) /\ asked.day \in 1 .. 31
      /\ IsMonth(tomorrow) /\ tomorrow.day \in Int
      /\ IsMonth(NextDay(tomorrow)) /\ NextDay(tomorrow).day \in Int
  BY <1>1, DayIsInMonth
<1>3. /\ IsMonth(Expected(start)) /\ Expected(start).day \in Int
      /\ IsMonth(Expected(asked)) /\ Expected(asked).day \in Int
  BY <1>2, ExpectedNextMonth
<1>4. /\ end \in {Expected(start), tomorrow}
      /\ IsMonth(waited) /\ waited.day \in Int
      /\ NotAfter(Expected(start), waited) /\ NotAfter(NextDay(tomorrow), waited)
      /\ IsMonth(opened) /\ opened.day \in Int
      /\ NotAfter(Expected(asked), opened) /\ NotAfter(tomorrow, opened)
  BY <1>1, <1>2, RangeEnd
<1>5. NotAfter(tomorrow, NextDay(tomorrow)) /\ NotAfter(Expected(start), Expected(asked))
  BY <1>1, <1>2, NextDayIsLater, ExpectedInOrder
<1>6. NotAfter(start, due) /\ ~NotAfter(end, due)
  BY DEF inRange
<1> HIDE DEF tomorrow, end, waited, opened
<1>7. ~NotAfter(waited, due)
  <2>1. CASE end = Expected(start)
    BY <1>3, <1>4, <1>6, <2>1, BeforeLater
  <2>2. CASE end = tomorrow
    <3>1. ~NotAfter(NextDay(tomorrow), due)
      BY <1>2, <1>5, <1>6, <2>2, BeforeLater
    <3>2. QED
      BY <1>2, <1>4, <3>1, BeforeLater
  <2>3. QED
    BY <1>4, <2>1, <2>2
<1>8. ~NotAfter(opened, due)
  <2>1. CASE end = Expected(start)
    <3>1. ~NotAfter(Expected(asked), due)
      BY <1>3, <1>5, <1>6, <2>1, BeforeLater
    <3>2. QED
      BY <1>3, <1>4, <3>1, BeforeLater
  <2>2. CASE end = tomorrow
    BY <1>2, <1>4, <1>6, <2>2, BeforeLater
  <2>3. QED
    BY <1>4, <2>1, <2>2
<1>9. NotAfter(asked, due) \/ ~NotAfter(asked, due)
  OBVIOUS
<1>10. QED
  BY <1>6, <1>7, <1>8, <1>9 DEF inRange, waited, opened, tomorrow

-----------------------------------------------------------------------------
(* The invariant *)

UpdateRequest == [op : {"update"}, account : AccountIds, patch : Patches]

AnchorRequest == [op : {"applyAnchor"}, account : AccountIds, adjustment : Adjustment]

Requests == UpdateRequest \union AnchorRequest \union {Idle}

\* The requests under way are of accounts that exist and of clients in scope.
RequestsOK ==
    /\ requests \in [Clients -> Requests]
    /\ \A c \in Clients : requests[c] # Idle =>
          c \in scope.clients /\ Exists(requests[c].account)

TypeInv ==
    /\ TypeOK
    /\ RequestsOK
    /\ scope \in Scopes

-----------------------------------------------------------------------------
(* Types *)

\* A field that is not sent keeps its value, and the others are of their type.
LEMMA PatchedIsProduct ==
  ASSUME NEW product \in Product, NEW patch \in Patches
  PROVE  Patched(product, patch) \in Product
<1>1. patch \in [type : AccountTypes \union {Unchanged},
                 hasDebitCard : BOOLEAN \union {Unchanged},
                 hasDigits : BOOLEAN \union {Unchanged},
                 creditLimit : Limits \union {NoLimit, Unchanged},
                 cycle : Cycles \union {NoCycle, Unchanged}]
  BY PatchesAssumption
<1> DEFINE f(x) == IF patch[x] = Unchanged THEN product[x] ELSE patch[x]
<1>2. /\ f("type") \in AccountTypes
      /\ f("hasDebitCard") \in BOOLEAN
      /\ f("hasDigits") \in BOOLEAN
      /\ f("creditLimit") \in Limits \union {NoLimit}
      /\ f("cycle") \in Cycles \union {NoCycle}
  BY <1>1 DEF Product
<1>3. Patched(product, patch) = [x \in ProductFields |-> f(x)]
  BY DEF Patched
<1>4. QED
  BY <1>2, <1>3 DEF Product, ProductFields

LEMMA InitTypeInv == Init => TypeInv
<1> SUFFICES ASSUME Init PROVE TypeInv
  OBVIOUS
<1>1. IsCalendarDate(today)
  BY ScopesAssumption DEF Init
<1>2. anchors \in [AccountIds -> Anchor] /\ history \in [AccountIds -> Seq(Adjustment)]
  BY NumbersAssumption DEF Init, Anchor, NoAnchor
<1>3. TypeOK
  BY <1>1, <1>2 DEF Init, TypeOK
<1>4. RequestsOK
  BY DEF Init, RequestsOK, Requests
<1>5. QED
  BY <1>1, <1>3, <1>4 DEF Init, TypeInv

\* A request that takes no step to write keeps what the others have read.
LEMMA TypeOfSingle ==
  ASSUME TypeInv, Single, UNCHANGED <<today, scope>>
  PROVE  TypeInv'
<1>1. /\ scope.accounts \subseteq AccountIds /\ scope.bodies \subseteq Product
      /\ scope.types \subseteq MovementTypes /\ scope.amounts \subseteq Amounts
  BY ScopesAssumption, BodiesAssumption DEF TypeInv
<1>2. ASSUME NEW a \in scope.accounts, NEW body \in scope.bodies, Create(a, body)
      PROVE  TypeInv'
  <2>1. products' \in [AccountIds -> Product \union {NotCreated}]
    BY <1>1, <1>2 DEF Create, TypeInv, TypeOK
  <2>2. \A b \in AccountIds : Exists(b) => Exists(b)'
    BY <1>1, <1>2 DEF Create, Exists, TypeInv, TypeOK
  <2>3. RequestsOK'
    BY <1>2, <2>2 DEF Create, TypeInv, RequestsOK, Requests, UpdateRequest, AnchorRequest
  <2>4. QED
    BY <1>2, <2>1, <2>3 DEF Create, TypeInv, TypeOK
<1>3. ASSUME NEW a \in scope.accounts, AddPlan(a) \/ RemovePlans(a)
      PROVE  TypeInv'
  BY <1>1, <1>3 DEF AddPlan, RemovePlans, TypeInv, TypeOK, RequestsOK, Exists
<1>4. ASSUME NEW m \in MovementIds, UNCHANGED <<products, anchors, history, plans, requests>>,
             movements' \in [MovementIds -> Movement \union {NotCreated, Gone}]
      PROVE  TypeInv'
  BY <1>4 DEF TypeInv, TypeOK, RequestsOK, Exists
<1>5. ASSUME NEW m \in MovementIds, NEW a \in scope.accounts, NEW b \in scope.accounts,
             NEW type \in scope.types, NEW amount \in scope.amounts, NEW day \in Days,
             AddMovement(m, a, b, type, amount, day) \/ EditMovement(m, a, b, type, amount, day)
      PROVE  TypeInv'
  <2>1. movements' = [movements EXCEPT ![m] =
                        [account |-> a, to |-> b, type |-> type, amount |-> amount, day |-> day]]
    BY <1>5 DEF AddMovement, EditMovement
  <2>2. UNCHANGED <<products, anchors, history, plans, requests>>
    BY <1>5 DEF AddMovement, EditMovement
  <2>3. [account |-> a, to |-> b, type |-> type, amount |-> amount, day |-> day] \in Movement
    BY <1>1, <1>5 DEF Movement
  <2>4. movements' \in [MovementIds -> Movement \union {NotCreated, Gone}]
    BY <2>1, <2>3 DEF TypeInv, TypeOK
  <2>5. QED
    BY <1>4, <2>2, <2>4
<1>6. ASSUME NEW m \in MovementIds, RemoveMovement(m)
      PROVE  TypeInv'
  <2>1. movements' \in [MovementIds -> Movement \union {NotCreated, Gone}]
    BY <1>6 DEF RemoveMovement, TypeInv, TypeOK
  <2>2. QED
    BY <1>4, <1>6, <2>1 DEF RemoveMovement
<1>7. QED
  BY <1>2, <1>3, <1>5, <1>6 DEF Single

\* What a request under way is about stays as it was read.
LEMMA TypeOfBegin ==
  ASSUME TypeInv, UNCHANGED <<today, scope>>,
         NEW c \in scope.clients, NEW q \in UpdateRequest \union AnchorRequest,
         Exists(q.account), Begin(c, q)
  PROVE  TypeInv'
<1>1. c \in Clients
  BY ScopesAssumption DEF TypeInv
<1>2. requests' \in [Clients -> Requests]
  BY <1>1 DEF Begin, TypeInv, RequestsOK, Requests
<1>3. RequestsOK'
  BY <1>1, <1>2 DEF Begin, TypeInv, RequestsOK, Exists
<1>4. QED
  BY <1>3 DEF Begin, TypeInv, TypeOK

\* The record of what a request is going to write, of an account that exists.
AdjustmentOf(a, reason, anchor, limit, reverts) ==
    [reason |-> reason, old |-> anchors[a], new |-> anchor,
     oldLimit |-> products[a].creditLimit, newLimit |-> limit, reverts |-> reverts]

\* A product that is there is one.
LEMMA ProductOfAccount ==
  ASSUME TypeOK, NEW a \in AccountIds, Exists(a)
  PROVE  products[a] \in Product
BY DEF TypeOK, Exists

LEMMA TypeOfBeginAnchor ==
  ASSUME TypeInv, UNCHANGED <<today, scope>>,
         NEW c \in scope.clients, NEW a \in AccountIds, Exists(a),
         NEW reason \in {"STATEMENT", "INITIAL_BALANCE", "REVERT"}, NEW anchor \in Anchor,
         NEW limit \in Limits \union {NoLimit}, NEW reverts \in 0 .. MaxHistory,
         BeginAnchor(c, a, reason, anchor, limit, reverts)
  PROVE  TypeInv'
<1> DEFINE adjustment == AdjustmentOf(a, reason, anchor, limit, reverts)
           q == [op |-> "applyAnchor", account |-> a, adjustment |-> adjustment]
<1>1. products[a].creditLimit \in Limits \union {NoLimit}
  BY ProductOfAccount DEF TypeInv, Product
<1>2. anchors[a] \in Anchor
  BY DEF TypeInv, TypeOK
<1>3. adjustment \in Adjustment
  BY <1>1, <1>2 DEF AdjustmentOf, Adjustment
<1>4. q \in AnchorRequest
  BY <1>3 DEF AnchorRequest
<1>5. Begin(c, q)
  BY DEF BeginAnchor, AdjustmentOf
<1>6. QED
  BY <1>4, <1>5, TypeOfBegin

\* What the three requests on the anchor are going to write.
LEMMA TypeOfAnchorRequests ==
  ASSUME TypeInv, UNCHANGED <<today, scope>>, NEW c \in scope.clients, NEW a \in scope.accounts,
         \/ \E amount \in scope.amounts, day \in Days, limit \in scope.limits \union {NoLimit} :
               BeginStatement(c, a, amount, day, limit)
         \/ \E amount \in scope.amounts, day \in Days : BeginInitialBalance(c, a, amount, day)
         \/ \E k \in 1 .. MaxHistory : BeginRevert(c, a, k)
  PROVE  TypeInv'
<1>1. /\ scope.accounts \subseteq AccountIds /\ scope.amounts \subseteq Nat
      /\ scope.limits \subseteq Limits
  BY ScopesAssumption, NumbersAssumption DEF TypeInv
<1>2. a \in AccountIds
  BY <1>1
<1>3. Exists(a) => products[a].creditLimit \in Limits \union {NoLimit}
  BY <1>2, ProductOfAccount DEF TypeInv, Product
<1>4. ASSUME NEW amount \in scope.amounts, NEW day \in Days, NEW limit \in scope.limits \union {NoLimit},
             BeginStatement(c, a, amount, day, limit)
      PROVE  TypeInv'
  <2> DEFINE anchor == [amount |-> IF IsCard(a) THEN -amount ELSE amount, since |-> StartOfNextDay(day)]
  <2>1. anchor \in Anchor
    BY <1>1, NumbersAssumption DEF Anchor, Days, StartOfNextDay
  <2>2. 0 \in 0 .. MaxHistory
    BY NumbersAssumption
  <2>3. (IF limit = NoLimit THEN products[a].creditLimit ELSE limit) \in Limits \union {NoLimit}
    BY <1>1, <1>3, <1>4 DEF BeginStatement
  <2>4. QED
    BY <1>2, <1>4, <2>1, <2>2, <2>3, TypeOfBeginAnchor DEF BeginStatement
<1>5. ASSUME NEW amount \in scope.amounts, NEW day \in Days, BeginInitialBalance(c, a, amount, day)
      PROVE  TypeInv'
  <2>1. [amount |-> amount, since |-> day] \in Anchor
    BY <1>1, NumbersAssumption DEF Anchor, Days
  <2>2. 0 \in 0 .. MaxHistory
    BY NumbersAssumption
  <2>3. QED
    BY <1>2, <1>3, <1>5, <2>1, <2>2, TypeOfBeginAnchor DEF BeginInitialBalance
<1>6. ASSUME NEW k \in 1 .. MaxHistory, BeginRevert(c, a, k)
      PROVE  TypeInv'
  <2> DEFINE adjustment == history[a][k]
  <2>1. history[a] \in Seq(Adjustment) /\ k \in 1 .. Len(history[a])
    BY <1>2, <1>6 DEF BeginRevert, TypeInv, TypeOK
  <2>2. adjustment \in Adjustment
    BY <2>1
  <2>3. adjustment.old \in Anchor /\ adjustment.oldLimit \in Limits \union {NoLimit}
    BY <2>2 DEF Adjustment
  <2>4. k \in 0 .. MaxHistory
    BY NumbersAssumption
  <2>5. Exists(a)
    BY <1>6 DEF BeginRevert
  <2>6. (IF ChangedLimit(adjustment) THEN adjustment.oldLimit ELSE products[a].creditLimit)
           \in Limits \union {NoLimit}
    BY <1>3, <2>3, <2>5
  <2>7. QED
    BY <1>2, <1>6, <2>3, <2>4, <2>5, <2>6, TypeOfBeginAnchor DEF BeginRevert
<1>7. QED
  BY <1>4, <1>5, <1>6

\* An account that exists goes on existing.
LEMMA TypeOfWrites ==
  ASSUME TypeInv, UNCHANGED <<today, scope>>, NEW c \in Clients, Update(c) \/ ApplyAnchor(c) \/ Fail(c)
  PROVE  TypeInv'
<1> DEFINE q == requests[c]
           a == q.account
<1>1. q \in UpdateRequest \union AnchorRequest \/ q = Idle
  BY DEF TypeInv, RequestsOK, Requests
<1>2. requests' = [requests EXCEPT ![c] = Idle]
  BY DEF Update, ApplyAnchor, Fail, Answer
<1>3. ASSUME \A b \in AccountIds : Exists(b) => Exists(b)'
      PROVE  RequestsOK'
  <2>1. \A d \in Clients : requests'[d] = Idle \/ requests'[d] = requests[d]
    BY <1>2 DEF TypeInv, RequestsOK
  <2>2. \A d \in Clients : requests[d] # Idle => requests[d].account \in AccountIds
    BY DEF TypeInv, RequestsOK, Requests, UpdateRequest, AnchorRequest
  <2>3. QED
    BY <1>2, <1>3, <2>1, <2>2 DEF TypeInv, RequestsOK, Requests
<1>4. CASE Fail(c)
  <2>1. RequestsOK'
    BY <1>3, <1>4 DEF Fail, Exists
  <2>2. QED
    BY <1>4, <2>1 DEF Fail, TypeInv, TypeOK
<1>5. CASE Update(c)
  <2>1. q \in UpdateRequest /\ Exists(a)
    BY <1>1, <1>5 DEF Update, Writes, AnchorRequest, TypeInv, RequestsOK
  <2>2. a \in AccountIds /\ q.patch \in Patches /\ products[a] \in Product
    BY <2>1, ProductOfAccount DEF UpdateRequest, TypeInv
  <2>3. Patched(products[a], q.patch) \in Product
    BY <2>2, PatchedIsProduct
  <2>4. products' = [products EXCEPT ![a] = Patched(products[a], q.patch)]
    BY <1>5 DEF Update
  <2>5. products' \in [AccountIds -> Product \union {NotCreated}]
    BY <2>2, <2>3, <2>4 DEF TypeInv, TypeOK
  <2>6. \A b \in AccountIds : Exists(b) => Exists(b)'
    BY <2>2, <2>3, <2>4, NotCreatedAssumption DEF Exists, TypeInv, TypeOK
  <2>7. QED
    BY <1>3, <1>5, <2>5, <2>6 DEF Update, TypeInv, TypeOK
<1>6. CASE ApplyAnchor(c)
  <2> DEFINE adjustment == q.adjustment
  <2>1. q \in AnchorRequest /\ Exists(a)
    BY <1>1, <1>6 DEF ApplyAnchor, Writes, UpdateRequest, TypeInv, RequestsOK
  <2>2. a \in AccountIds /\ adjustment \in Adjustment /\ products[a] \in Product
    BY <2>1, ProductOfAccount DEF AnchorRequest, TypeInv
  <2>3. /\ products' = [products EXCEPT ![a].creditLimit = adjustment.newLimit]
        /\ anchors' = [anchors EXCEPT ![a] = adjustment.new]
        /\ history' = [history EXCEPT ![a] = Append(history[a], adjustment)]
    BY <1>6, <2>2 DEF ApplyAnchor, Recorded, TypeInv, TypeOK
  <2>4. [products[a] EXCEPT !.creditLimit = adjustment.newLimit] \in Product
    BY <2>2 DEF Product, Adjustment
  <2>5. products' \in [AccountIds -> Product \union {NotCreated}]
    BY <2>2, <2>3, <2>4 DEF TypeInv, TypeOK
  <2>6. \A b \in AccountIds : Exists(b) => Exists(b)'
    BY <2>2, <2>3, <2>4, NotCreatedAssumption DEF Exists, TypeInv, TypeOK
  <2>7. anchors' \in [AccountIds -> Anchor]
    BY <2>2, <2>3 DEF Adjustment, TypeInv, TypeOK
  <2>8. history' \in [AccountIds -> Seq(Adjustment)]
    <3>1. Append(history[a], adjustment) \in Seq(Adjustment)
      BY <2>2 DEF TypeInv, TypeOK
    <3>2. QED
      BY <2>3, <3>1 DEF TypeInv, TypeOK
  <2>9. QED
    BY <1>3, <1>6, <2>5, <2>6, <2>7, <2>8 DEF ApplyAnchor, TypeInv, TypeOK
<1>7. QED
  BY <1>4, <1>5, <1>6

\* The inductive invariant of types.
LEMMA TypeIsInvariant == TypeInv /\ [Next]_vars => TypeInv'
<1> SUFFICES ASSUME TypeInv, [Next]_vars PROVE TypeInv'
  OBVIOUS
<1>1. CASE Next /\ Tomorrow
  <2>1. IsCalendarDate(today')
    BY <1>1, NextDayIsCalendarDate DEF Tomorrow, TypeInv, TypeOK
  <2>2. QED
    BY <1>1, <2>1 DEF Next, Tomorrow, TypeInv, TypeOK, RequestsOK, Exists
<1>2. CASE Next /\ Request /\ UNCHANGED today
  <2>1. UNCHANGED <<today, scope>>
    BY <1>2 DEF Next
  <2>2. CASE Single
    BY <2>1, <2>2, TypeOfSingle
  <2>3. ASSUME NEW c \in scope.clients, NEW a \in scope.accounts, NEW patch \in scope.patches,
               BeginUpdate(c, a, patch)
        PROVE  TypeInv'
    <3>1. a \in AccountIds /\ patch \in Patches
      BY ScopesAssumption DEF TypeInv
    <3>2. [op |-> "update", account |-> a, patch |-> patch] \in UpdateRequest
      BY <3>1 DEF UpdateRequest
    <3>3. QED
      BY <2>1, <2>3, <3>2, TypeOfBegin DEF BeginUpdate
  <2>4. ASSUME NEW c \in scope.clients, NEW a \in scope.accounts,
               \/ \E amount \in scope.amounts, day \in Days, limit \in scope.limits \union {NoLimit} :
                     BeginStatement(c, a, amount, day, limit)
               \/ \E amount \in scope.amounts, day \in Days : BeginInitialBalance(c, a, amount, day)
               \/ \E k \in 1 .. MaxHistory : BeginRevert(c, a, k)
        PROVE  TypeInv'
    BY <2>1, <2>4, TypeOfAnchorRequests
  <2>5. ASSUME NEW c \in Clients, Update(c) \/ ApplyAnchor(c) \/ Fail(c)
        PROVE  TypeInv'
    BY <2>1, <2>5, TypeOfWrites
  <2>6. QED
    BY <1>2, <2>2, <2>3, <2>4, <2>5 DEF Request
<1>3. CASE UNCHANGED vars
  BY <1>3 DEF vars, TypeInv, TypeOK, RequestsOK, Exists
<1>4. QED
  BY <1>1, <1>2, <1>3 DEF Next

\* The tables, the requests under way and the date keep their types: no statement
\* is dated a day after the last, and tomorrow is always a date.
THEOREM AccountsTypeCorrect == Spec => []TypeOK
<1>1. TypeInv => TypeOK
  BY DEF TypeInv
<1>2. QED
  BY <1>1, InitTypeInv, TypeIsInvariant, PTL DEF Spec

-----------------------------------------------------------------------------
(* The history, with any number of clients *)

\* What applyAnchor writes, of an account that exists.
LEMMA AppliedAnchor ==
  ASSUME TypeInv, NEW c \in Clients, ApplyAnchor(c)
  PROVE  LET a == requests[c].account
             adjustment == requests[c].adjustment
         IN  /\ requests[c] \in AnchorRequest /\ Exists(a) /\ c \in scope.clients
             /\ a \in AccountIds /\ adjustment \in Adjustment
             /\ history[a] \in Seq(Adjustment)
             /\ anchors' = [anchors EXCEPT ![a] = adjustment.new]
             /\ history' = [history EXCEPT ![a] = Append(history[a], adjustment)]
<1>1. requests[c] \in AnchorRequest /\ Exists(requests[c].account) /\ c \in scope.clients
  BY DEF ApplyAnchor, Writes, UpdateRequest, TypeInv, RequestsOK, Requests
<1>2. QED
  BY <1>1 DEF ApplyAnchor, Recorded, AnchorRequest, TypeInv, TypeOK

LEMMA LatestExplainsAnchorStep ==
  TypeInv /\ TypeInv' /\ LatestExplainsAnchor /\ [Next]_vars => LatestExplainsAnchor'
<1> SUFFICES ASSUME TypeInv, TypeInv', LatestExplainsAnchor, [Next]_vars
             PROVE  LatestExplainsAnchor'
  OBVIOUS
<1>1. ASSUME NEW c \in Clients, ApplyAnchor(c)
      PROVE  LatestExplainsAnchor'
  <2> DEFINE a == requests[c].account
             adjustment == requests[c].adjustment
  <2>1. /\ a \in AccountIds /\ history[a] \in Seq(Adjustment) /\ adjustment \in Adjustment
        /\ anchors' = [anchors EXCEPT ![a] = adjustment.new]
        /\ history' = [history EXCEPT ![a] = Append(history[a], adjustment)]
    BY <1>1, AppliedAnchor
  <2>2. anchors'[a] = adjustment.new /\ history'[a] = Append(history[a], adjustment)
    BY <2>1 DEF TypeInv, TypeOK
  <2>3. /\ Append(history[a], adjustment) # <<>>
        /\ Append(history[a], adjustment)[Len(Append(history[a], adjustment))] = adjustment
    BY <2>1
  <2>4. \A b \in AccountIds : b # a => anchors'[b] = anchors[b] /\ history'[b] = history[b]
    BY <2>1 DEF TypeInv, TypeOK
  <2> HIDE DEF a, adjustment
  <2>5. history'[a] # <<>> /\ anchors'[a] = history'[a][Len(history'[a])].new
    BY <2>2, <2>3
  <2>6. NoAnchor' = NoAnchor
    BY DEF NoAnchor
  <2>7. QED
    BY <2>4, <2>5, <2>6 DEF LatestExplainsAnchor
<1>2. CASE UNCHANGED <<anchors, history>>
  BY <1>2 DEF LatestExplainsAnchor
<1>3. (\E c \in Clients : ApplyAnchor(c)) \/ UNCHANGED <<anchors, history>>
  BY DEF Next, vars, Tomorrow, Request, Single, Create, AddPlan, RemovePlans, AddMovement,
         EditMovement, RemoveMovement, BeginUpdate, BeginStatement, BeginInitialBalance,
         BeginRevert, BeginAnchor, Begin, Update, Fail
<1>4. QED
  BY <1>1, <1>2, <1>3

\* The newest adjustment of an account says what its anchor is, whatever
\* statements, balances and reversions overlap.
THEOREM LatestAlwaysExplainsAnchor == Spec => []LatestExplainsAnchor
<1>1. Init => LatestExplainsAnchor
  BY DEF Init, LatestExplainsAnchor
<1>2. QED
  BY <1>1, InitTypeInv, TypeIsInvariant, LatestExplainsAnchorStep, PTL DEF Spec

-----------------------------------------------------------------------------
(* Requests that come one by one *)

\* What the adjustment under way takes back is what it reverts.
TakesBack(adjustment, reverted) ==
    /\ adjustment.old = reverted.new
    /\ adjustment.new = reverted.old
    /\ ChangedLimit(reverted) => adjustment.newLimit = reverted.oldLimit

\* What was checked of an edit still holds, and what was read for an anchor is
\* still so.
StillSo(c) ==
    LET a == requests[c].account
    IN  /\ requests[c].op = "update" =>
              /\ FieldsAllowed(Patched(products[a], requests[c].patch))
              /\ TypeChangeAllowed(a, requests[c].patch)
              /\ PlansAllow(a, requests[c].patch)
        /\ requests[c].op = "applyAnchor" =>
              LET adjustment == requests[c].adjustment
              IN  /\ adjustment.old = anchors[a]
                  /\ adjustment.newLimit # NoLimit => IsCard(a)
                  /\ adjustment.reverts # 0 =>
                        /\ adjustment.reverts \in 1 .. Len(history[a])
                        /\ TakesBack(adjustment, history[a][adjustment.reverts])

\* An adjustment reverts an earlier one.
RevertsEarlier ==
    \A a \in AccountIds : \A k \in 1 .. Len(history[a]) : history[a][k].reverts \in 0 .. k - 1

AloneInv ==
    /\ \A c \in Clients : requests[c] # Idle => StillSo(c)
    /\ RevertsEarlier
    /\ \A a \in plans : Exists(a)

Inv ==
    /\ TypeInv
    /\ LatestExplainsAnchor
    /\ HistoryIsAChain
    /\ RevertRestores
    /\ ProductsFit
    /\ OneByOne => AloneInv

\* A client that is free when the only client in scope sends a request: none is
\* under way.
LEMMA AllIdle ==
  ASSUME TypeInv, OneByOne, NEW c \in scope.clients, requests[c] = Idle
  PROVE  \A d \in Clients : requests[d] = Idle
BY DEF TypeInv, RequestsOK, OneByOne

\* The request of the only client is the only one.
LEMMA OthersIdle ==
  ASSUME TypeInv, OneByOne, NEW c \in Clients, requests[c] # Idle
  PROVE  \A d \in Clients : d # c => requests[d] = Idle
BY DEF TypeInv, RequestsOK, OneByOne

\* A request that was read for and not yet written: nothing else has changed.
LEMMA AloneAfterBegin ==
  ASSUME Inv, TypeInv', OneByOne, UNCHANGED scope,
         NEW c \in scope.clients, NEW q, Begin(c, q), StillSo(c)'
  PROVE  Inv'
<1>1. c \in Clients
  BY ScopesAssumption DEF Inv, TypeInv
<1>2. \A d \in Clients : d # c => requests'[d] = Idle
  BY <1>1, AllIdle DEF Inv, Begin, TypeInv, RequestsOK
<1>3. \A d \in Clients : requests'[d] # Idle => StillSo(d)'
  BY <1>2
<1>4. UNCHANGED <<products, anchors, history, plans>>
  BY DEF Begin
<1>5. AloneInv'
  BY <1>3, <1>4 DEF Inv, AloneInv, RevertsEarlier, Exists
<1>6. QED
  BY <1>4, <1>5 DEF Inv, LatestExplainsAnchor, HistoryIsAChain, RevertRestores, ProductsFit,
                    OneByOne, IsCard, Exists

\* A request that is answered leaves none under way.
LEMMA AloneAfterAnswer ==
  ASSUME TypeInv, OneByOne, NEW c \in Clients, requests[c] # Idle, Answer(c)
  PROVE  \A d \in Clients : requests'[d] = Idle
BY OthersIdle DEF Answer, TypeInv, RequestsOK

\* A new product fits; movements and plans leave the products as they are.
LEMMA AloneAfterSingle ==
  ASSUME Inv, TypeInv', OneByOne, UNCHANGED scope, Single
  PROVE  Inv'
<1>1. \A d \in Clients : requests[d] = Idle
  BY AllIdle DEF Single, Inv
<1>2. UNCHANGED <<anchors, history, requests>>
  BY DEF Single, Create, AddPlan, RemovePlans, AddMovement, EditMovement, RemoveMovement
<1>3. LatestExplainsAnchor' /\ HistoryIsAChain' /\ RevertRestores' /\ RevertsEarlier'
  <2>1. LatestExplainsAnchor' /\ HistoryIsAChain'
    BY <1>2 DEF Inv, LatestExplainsAnchor, HistoryIsAChain, OneByOne, NoAnchor
  <2>2. RevertRestores' /\ RevertsEarlier'
    BY <1>2 DEF Inv, AloneInv, RevertRestores, RevertsEarlier, OneByOne
  <2>3. QED
    BY <2>1, <2>2
<1>4. ProductsFit' /\ \A a \in plans' : Exists(a)'
  <2>1. ASSUME NEW a \in scope.accounts, NEW body \in scope.bodies, Create(a, body)
        PROVE  ProductsFit' /\ \A b \in plans' : Exists(b)'
    <3>1. a \in AccountIds /\ body \in Product
      BY <2>1, ScopesAssumption, BodiesAssumption DEF Inv, TypeInv
    <3>2. a \notin plans /\ plans' = plans
      BY <2>1 DEF Create, Inv, AloneInv
    <3>3. \A b \in AccountIds : b # a => products'[b] = products[b]
      BY <2>1 DEF Create, Inv, TypeInv, TypeOK
    <3>4. products'[a] = body /\ FieldsAllowed(body)
      BY <2>1, <3>1 DEF Create, Inv, TypeInv, TypeOK
    <3>5. plans \subseteq AccountIds
      BY DEF Inv, TypeInv, TypeOK
    <3>6. QED
      BY <3>2, <3>3, <3>4, <3>5 DEF Inv, AloneInv, ProductsFit, Exists, IsCard
  <2>2. ASSUME NEW a \in scope.accounts, AddPlan(a) \/ RemovePlans(a)
        PROVE  ProductsFit' /\ \A b \in plans' : Exists(b)'
    BY <2>2 DEF AddPlan, RemovePlans, Inv, AloneInv, ProductsFit, Exists, IsCard
  <2>3. CASE UNCHANGED <<products, plans>>
    BY <2>3 DEF Inv, AloneInv, ProductsFit, Exists, IsCard
  <2>4. QED
    BY <2>1, <2>2, <2>3 DEF Single, AddMovement, EditMovement, RemoveMovement
<1>5. QED
  BY <1>1, <1>2, <1>3, <1>4 DEF Inv, AloneInv

\* An edit still has what it was allowed for when it is written.
LEMMA AloneAfterUpdate ==
  ASSUME Inv, TypeInv', OneByOne, UNCHANGED scope, NEW c \in Clients, Update(c)
  PROVE  Inv'
<1> DEFINE a == requests[c].account
           patch == requests[c].patch
<1>1. requests[c] # Idle /\ requests[c] \in UpdateRequest
  BY DEF Update, Writes, Inv, TypeInv, RequestsOK, Requests, AnchorRequest
<1>2. a \in AccountIds /\ patch \in Patches /\ Exists(a) /\ requests[c].op = "update"
  BY <1>1 DEF UpdateRequest, Inv, TypeInv, RequestsOK
<1>3. FieldsAllowed(Patched(products[a], patch)) /\ PlansAllow(a, patch)
  BY <1>1, <1>2 DEF Inv, AloneInv, StillSo
<1>4. /\ products'[a] = Patched(products[a], patch)
      /\ \A b \in AccountIds : b # a => products'[b] = products[b]
      /\ UNCHANGED <<anchors, history, plans>>
  BY <1>2 DEF Update, Inv, TypeInv, TypeOK
<1>5. ASSUME a \in plans
      PROVE  products'[a].type = "CREDIT_CARD" /\ products'[a].cycle # NoCycle
  <2>1. products[a].type = "CREDIT_CARD" /\ products[a].cycle # NoCycle
    BY <1>5 DEF Inv, ProductsFit, IsCard
  <2>2. patch.cycle # NoCycle /\ patch.type \in {"CREDIT_CARD", Unchanged}
    BY <1>3, <1>5 DEF PlansAllow
  <2>3. QED
    BY <1>4, <2>1, <2>2 DEF Patched, ProductFields
<1>6. ProductsFit'
  <2>1. plans \subseteq AccountIds
    BY DEF Inv, TypeInv, TypeOK
  <2>2. QED
    BY <1>2, <1>3, <1>4, <1>5, <2>1 DEF Inv, ProductsFit, Exists, IsCard
<1>7. \A b \in plans' : Exists(b)'
  <2>1. Patched(products[a], patch) # NotCreated
    BY <1>2, PatchedIsProduct, ProductOfAccount, NotCreatedAssumption DEF Inv, TypeInv
  <2>2. QED
    BY <1>2, <1>4, <2>1 DEF Inv, AloneInv, Exists, TypeInv, TypeOK
<1>8. \A d \in Clients : requests'[d] = Idle
  BY <1>1, AloneAfterAnswer DEF Update, Inv
<1>9. QED
  BY <1>4, <1>6, <1>7, <1>8 DEF Inv, AloneInv, LatestExplainsAnchor, HistoryIsAChain,
                                RevertRestores, RevertsEarlier, OneByOne

\* A new anchor extends the chain, and a reversion takes back what it reverts.
LEMMA AloneAfterApplyAnchor ==
  ASSUME Inv, TypeInv', LatestExplainsAnchor', OneByOne, UNCHANGED scope,
         NEW c \in Clients, ApplyAnchor(c)
  PROVE  Inv'
<1> DEFINE a == requests[c].account
           adjustment == requests[c].adjustment
           H == history[a]
<1>1. /\ requests[c] \in AnchorRequest /\ Exists(a) /\ a \in AccountIds
      /\ adjustment \in Adjustment /\ H \in Seq(Adjustment)
      /\ history' = [history EXCEPT ![a] = Append(H, adjustment)]
  BY AppliedAnchor DEF Inv
<1>2. requests[c] # Idle /\ requests[c].op = "applyAnchor"
  BY DEF ApplyAnchor, Writes
<1>3. /\ adjustment.old = anchors[a]
      /\ adjustment.newLimit # NoLimit => IsCard(a)
      /\ adjustment.reverts # 0 =>
            adjustment.reverts \in 1 .. Len(H) /\ TakesBack(adjustment, H[adjustment.reverts])
  BY <1>1, <1>2 DEF Inv, AloneInv, StillSo
<1>4. /\ history'[a] = Append(H, adjustment)
      /\ \A b \in AccountIds : b # a => history'[b] = history[b]
  BY <1>1 DEF Inv, TypeInv, TypeOK
<1>5. /\ Len(Append(H, adjustment)) = Len(H) + 1
      /\ Append(H, adjustment)[Len(H) + 1] = adjustment
      /\ \A k \in 1 .. Len(H) : Append(H, adjustment)[k] = H[k]
      /\ Len(H) \in Nat
  BY <1>1
<1>6. OneByOne'
  BY DEF OneByOne
<1>7. adjustment.reverts \in 0 .. Len(H)
  BY <1>3, <1>5
<1>8. RevertsEarlier'
  <2>1. \A k \in 1 .. Len(H) + 1 : Append(H, adjustment)[k].reverts \in 0 .. k - 1
    <3>1. \A k \in 1 .. Len(H) : H[k].reverts \in 0 .. k - 1
      BY <1>1 DEF Inv, AloneInv, RevertsEarlier
    <3>2. \A k \in 1 .. Len(H) + 1 : k = Len(H) + 1 \/ k \in 1 .. Len(H)
      BY <1>5
    <3>3. QED
      BY <1>5, <1>7, <3>1, <3>2
  <2>2. QED
    BY <1>4, <1>5, <2>1 DEF Inv, AloneInv, RevertsEarlier
<1>9. HistoryIsAChain'
  <2>1. adjustment.old = IF H = <<>> THEN NoAnchor ELSE H[Len(H)].new
    BY <1>1, <1>3 DEF Inv, LatestExplainsAnchor
  <2>2. H = <<>> <=> Len(H) = 0
    BY <1>1
  <2>3. \A k \in 1 .. Len(H) + 1 :
           history'[a][k].old = IF k = 1 THEN NoAnchor ELSE history'[a][k - 1].new
    <3>1. TAKE k \in 1 .. Len(H) + 1
    <3>2. CASE k = Len(H) + 1
      BY <1>4, <1>5, <2>1, <2>2, <3>2
    <3>3. CASE k \in 1 .. Len(H)
      <4>1. H[k].old = IF k = 1 THEN NoAnchor ELSE H[k - 1].new
        BY <1>1, <3>3 DEF Inv, HistoryIsAChain
      <4>2. QED
        BY <1>4, <1>5, <3>3, <4>1
    <3>4. QED
      BY <1>5, <3>2, <3>3
  <2>4. \A b \in AccountIds : b # a => \A k \in 1 .. Len(history'[b]) :
           history'[b][k].old = IF k = 1 THEN NoAnchor ELSE history'[b][k - 1].new
    BY <1>4 DEF Inv, HistoryIsAChain
  <2>5. Len(history'[a]) = Len(H) + 1
    BY <1>4, <1>5
  <2>6. NoAnchor' = NoAnchor
    BY DEF NoAnchor
  <2>7. QED
    BY <2>3, <2>4, <2>5, <2>6 DEF HistoryIsAChain
<1>10. RevertRestores'
  <2>1. \A k \in 1 .. Len(H) + 1 : history'[a][k].reverts # 0 =>
           TakesBack(history'[a][k], history'[a][history'[a][k].reverts])
    <3>1. TAKE k \in 1 .. Len(H) + 1
    <3>2. CASE k = Len(H) + 1
      BY <1>3, <1>4, <1>5, <3>2
    <3>3. CASE k \in 1 .. Len(H)
      <4>1. H[k].reverts # 0 => TakesBack(H[k], H[H[k].reverts])
        BY <1>1, <3>3 DEF Inv, RevertRestores, TakesBack
      <4>2. H[k].reverts \in 0 .. k - 1
        BY <1>1, <3>3 DEF Inv, AloneInv, RevertsEarlier
      <4>3. H[k].reverts # 0 => history'[a][H[k].reverts] = H[H[k].reverts]
        BY <1>4, <1>5, <3>3, <4>2
      <4>4. QED
        BY <1>4, <1>5, <3>3, <4>1, <4>3
    <3>4. QED
      BY <1>5, <3>2, <3>3
  <2>2. \A b \in AccountIds : b # a => \A k \in 1 .. Len(history'[b]) : history'[b][k].reverts # 0 =>
           TakesBack(history'[b][k], history'[b][history'[b][k].reverts])
    BY <1>4 DEF Inv, RevertRestores, TakesBack
  <2>3. Len(history'[a]) = Len(H) + 1
    BY <1>4, <1>5
  <2>4. \A b \in AccountIds : \A k \in 1 .. Len(history'[b]) : history'[b][k].reverts # 0 =>
           TakesBack(history'[b][k], history'[b][history'[b][k].reverts])
    BY <2>1, <2>2, <2>3
  <2>5. QED
    BY <2>4 DEF RevertRestores, TakesBack, ChangedLimit
<1>11. ProductsFit' /\ \A b \in plans' : Exists(b)'
  <2>1. products[a] \in Product
    BY <1>1, ProductOfAccount DEF Inv, TypeInv
  <2>2. /\ products'[a] = [products[a] EXCEPT !.creditLimit = adjustment.newLimit]
        /\ \A b \in AccountIds : b # a => products'[b] = products[b]
        /\ plans' = plans /\ plans \subseteq AccountIds
    BY <1>1 DEF ApplyAnchor, Inv, TypeInv, TypeOK
  <2>3. /\ products'[a].creditLimit = adjustment.newLimit
        /\ \A f \in ProductFields \ {"creditLimit"} : products'[a][f] = products[a][f]
        /\ products'[a] \in Product
    BY <1>1, <2>1, <2>2 DEF Product, ProductFields, Adjustment
  <2>4. FieldsAllowed(products[a])
    BY <1>1 DEF Inv, ProductsFit
  <2>5. /\ products'[a].type = products[a].type /\ products'[a].cycle = products[a].cycle
        /\ products'[a].hasDebitCard = products[a].hasDebitCard
        /\ products'[a].hasDigits = products[a].hasDigits
    BY <2>3 DEF ProductFields
  <2>6. FieldsAllowed(products'[a])
    BY <1>3, <2>3, <2>4, <2>5 DEF FieldsAllowed, IsCard
  <2>7. ProductsFit'
    <3>1. \A b \in plans : products'[b].type = "CREDIT_CARD" /\ products'[b].cycle # NoCycle
      <4>1. \A b \in plans : products[b].type = "CREDIT_CARD" /\ products[b].cycle # NoCycle
        BY DEF Inv, ProductsFit, IsCard
      <4>2. QED
        BY <2>2, <2>5, <4>1
    <3>2. \A b \in AccountIds : products'[b] # NotCreated => FieldsAllowed(products'[b])
      <4>1. \A b \in AccountIds : products[b] # NotCreated => FieldsAllowed(products[b])
        BY DEF Inv, ProductsFit, Exists
      <4>2. QED
        BY <2>2, <2>6, <4>1
    <3>3. QED
      BY <2>2, <3>1, <3>2 DEF ProductsFit, Exists, IsCard, FieldsAllowed
  <2>8. QED
    BY <2>2, <2>3, <2>7, NotCreatedAssumption DEF Inv, AloneInv, Exists
<1>12. \A d \in Clients : requests'[d] = Idle
  BY <1>2, AloneAfterAnswer DEF ApplyAnchor, Inv
<1>13. QED
  BY <1>8, <1>9, <1>10, <1>11, <1>12 DEF Inv, AloneInv

\* A statement, a balance or a reversion about to be written starts from the
\* anchor that is there.
LEMMA AloneAfterBeginAnchor ==
  ASSUME Inv, TypeInv', OneByOne, UNCHANGED scope,
         NEW c \in scope.clients, NEW a \in scope.accounts,
         \/ \E amount \in scope.amounts, day \in Days, limit \in scope.limits \union {NoLimit} :
               BeginStatement(c, a, amount, day, limit)
         \/ \E amount \in scope.amounts, day \in Days : BeginInitialBalance(c, a, amount, day)
         \/ \E k \in 1 .. MaxHistory : BeginRevert(c, a, k)
  PROVE  Inv'
<1>1. a \in AccountIds /\ c \in Clients
  BY ScopesAssumption DEF Inv, TypeInv
<1>2. Exists(a) => FieldsAllowed(products[a])
  BY <1>1 DEF Inv, ProductsFit
<1>3. ASSUME NEW reason, NEW anchor, NEW limit, NEW reverts, Exists(a),
             BeginAnchor(c, a, reason, anchor, limit, reverts),
             limit # NoLimit => IsCard(a),
             reverts # 0 => /\ reverts \in 1 .. Len(history[a])
                            /\ TakesBack(AdjustmentOf(a, reason, anchor, limit, reverts),
                                         history[a][reverts])
      PROVE  Inv'
  <2> DEFINE q == [op |-> "applyAnchor", account |-> a,
                   adjustment |-> AdjustmentOf(a, reason, anchor, limit, reverts)]
  <2>1. Begin(c, q)
    BY <1>3 DEF BeginAnchor, AdjustmentOf
  <2>2. requests'[c] = q /\ UNCHANGED <<products, anchors, history>>
    BY <1>1, <2>1 DEF Begin, Inv, TypeInv, RequestsOK
  <2>3. /\ q.op = "applyAnchor" /\ q.account = a
        /\ q.adjustment.old = anchors[a] /\ q.adjustment.newLimit = limit
        /\ q.adjustment.reverts = reverts
    BY DEF AdjustmentOf
  <2>4. StillSo(c)'
    BY <1>3, <2>2, <2>3 DEF StillSo, IsCard, TakesBack, ChangedLimit
  <2>5. QED
    BY <2>1, <2>4, AloneAfterBegin
<1>4. ASSUME NEW amount \in scope.amounts, NEW day \in Days, NEW limit \in scope.limits \union {NoLimit},
             BeginStatement(c, a, amount, day, limit)
      PROVE  Inv'
  <2> DEFINE written == IF limit = NoLimit THEN products[a].creditLimit ELSE limit
  <2>1. written # NoLimit => IsCard(a)
    BY <1>2, <1>4 DEF BeginStatement, FieldsAllowed, IsCard
  <2>2. QED
    BY <1>3, <1>4, <2>1 DEF BeginStatement
<1>5. ASSUME NEW amount \in scope.amounts, NEW day \in Days, BeginInitialBalance(c, a, amount, day)
      PROVE  Inv'
  BY <1>2, <1>3, <1>5 DEF BeginInitialBalance, FieldsAllowed, IsCard
<1>6. ASSUME NEW k \in 1 .. MaxHistory, BeginRevert(c, a, k)
      PROVE  Inv'
  <2> DEFINE adjustment == history[a][k]
             limit == IF ChangedLimit(adjustment) THEN adjustment.oldLimit
                      ELSE products[a].creditLimit
  <2>1. /\ Exists(a) /\ k \in 1 .. Len(history[a])
        /\ anchors[a] = adjustment.new /\ LimitRestorable(a, adjustment)
        /\ BeginAnchor(c, a, "REVERT", adjustment.old, limit, k)
    BY <1>6 DEF BeginRevert, Revertable
  <2>2. limit # NoLimit => IsCard(a)
    BY <1>2, <2>1 DEF LimitRestorable, FieldsAllowed, IsCard
  <2>3. TakesBack(AdjustmentOf(a, "REVERT", adjustment.old, limit, k), adjustment)
    BY <2>1 DEF TakesBack, AdjustmentOf
  <2>4. QED
    BY <1>3, <2>1, <2>2, <2>3
<1>7. QED
  BY <1>4, <1>5, <1>6

\* The steps of requests that come one by one.
LEMMA AloneStep ==
  ASSUME Inv, TypeInv', LatestExplainsAnchor', OneByOne, [Next]_vars
  PROVE  Inv'
<1>1. UNCHANGED scope
  BY DEF Next, vars
<1>2. CASE Single
  BY <1>1, <1>2, AloneAfterSingle
<1>3. ASSUME NEW c \in scope.clients, NEW a \in scope.accounts, NEW patch \in scope.patches,
             BeginUpdate(c, a, patch)
      PROVE  Inv'
  <2>1. c \in Clients
    BY ScopesAssumption DEF Inv, TypeInv
  <2> DEFINE q == [op |-> "update", account |-> a, patch |-> patch]
  <2>2. Begin(c, q)
    BY <1>3 DEF BeginUpdate
  <2>3. requests'[c] = q /\ UNCHANGED <<products, movements, plans>>
    BY <2>1, <2>2 DEF Begin, Inv, TypeInv, RequestsOK
  <2>4. StillSo(c)'
    BY <1>3, <2>3 DEF StillSo, BeginUpdate, TypeChangeAllowed, PlansAllow, FieldsAllowed, Patched,
                      IsCard, MovementsOf, Stored
  <2>5. QED
    BY <1>1, <2>2, <2>4, AloneAfterBegin
<1>4. ASSUME NEW c \in scope.clients, NEW a \in scope.accounts,
             \/ \E amount \in scope.amounts, day \in Days, limit \in scope.limits \union {NoLimit} :
                   BeginStatement(c, a, amount, day, limit)
             \/ \E amount \in scope.amounts, day \in Days : BeginInitialBalance(c, a, amount, day)
             \/ \E k \in 1 .. MaxHistory : BeginRevert(c, a, k)
      PROVE  Inv'
  BY <1>1, <1>4, AloneAfterBeginAnchor
<1>5. ASSUME NEW c \in Clients, Update(c)
      PROVE  Inv'
  BY <1>1, <1>5, AloneAfterUpdate
<1>6. ASSUME NEW c \in Clients, ApplyAnchor(c)
      PROVE  Inv'
  BY <1>1, <1>6, AloneAfterApplyAnchor
<1>7. ASSUME NEW c \in Clients, Fail(c)
      PROVE  Inv'
  <2>1. \A d \in Clients : requests'[d] = Idle
    BY <1>7, AloneAfterAnswer DEF Fail, Inv
  <2>2. UNCHANGED <<products, anchors, history, plans>>
    BY <1>7 DEF Fail
  <2>3. QED
    BY <1>1, <2>1, <2>2 DEF Inv, AloneInv, LatestExplainsAnchor, HistoryIsAChain, RevertRestores,
                            RevertsEarlier, ProductsFit, OneByOne, Exists, IsCard
<1>8. CASE UNCHANGED <<products, anchors, history, movements, plans, requests>>
  <2>1. ASSUME NEW c \in Clients, requests'[c] # Idle
        PROVE  StillSo(c)'
    <3>1. StillSo(c)
      BY <1>1, <1>8, <2>1 DEF Inv, AloneInv, OneByOne
    <3>2. QED
      BY <1>8, <3>1 DEF StillSo, TypeChangeAllowed, PlansAllow, IsCard, MovementsOf, Stored
  <2>2. QED
    BY <1>1, <1>8, <2>1 DEF Inv, AloneInv, LatestExplainsAnchor, HistoryIsAChain, RevertRestores,
                            RevertsEarlier, ProductsFit, OneByOne, Exists, IsCard
<1>9. QED
  BY <1>2, <1>3, <1>4, <1>5, <1>6, <1>7, <1>8 DEF Next, Tomorrow, Request, vars

LEMMA InitInv == Init => Inv
<1> SUFFICES ASSUME Init PROVE Inv
  OBVIOUS
<1>1. TypeInv
  BY InitTypeInv
<1>2. \A a \in AccountIds : history[a] = <<>> /\ ~Exists(a)
  BY DEF Init, Exists
<1>3. plans = {} /\ (\A c \in Clients : requests[c] = Idle) /\ \A a \in AccountIds : anchors[a] = NoAnchor
  BY DEF Init
<1>4. QED
  BY <1>1, <1>2, <1>3 DEF Inv, AloneInv, LatestExplainsAnchor, HistoryIsAChain, RevertRestores,
                          RevertsEarlier, ProductsFit

LEMMA NextInv == Inv /\ [Next]_vars => Inv'
<1> SUFFICES ASSUME Inv, [Next]_vars PROVE Inv'
  OBVIOUS
<1>1. TypeInv' /\ LatestExplainsAnchor'
  BY TypeIsInvariant, LatestExplainsAnchorStep DEF Inv
<1>2. CASE OneByOne
  BY <1>1, <1>2, AloneStep
<1>3. CASE ~OneByOne
  <2>1. ~OneByOne'
    BY <1>3 DEF OneByOne, Next, vars
  <2>2. QED
    BY <1>1, <2>1 DEF Inv, HistoryIsAChain, RevertRestores, ProductsFit
<1>4. QED
  BY <1>2, <1>3

\* What requests do one by one, and what holds of any, together.
THEOREM AccountsConsistency == Spec => []Inv
BY InitInv, NextInv, PTL DEF Spec

\* Of requests that come one by one, the adjustments of an account go back,
\* anchor by anchor, to an account that has none.
THEOREM HistoryIsAlwaysAChain == Spec => []HistoryIsAChain
<1>1. Inv => HistoryIsAChain
  BY DEF Inv
<1>2. QED
  BY <1>1, AccountsConsistency, PTL

\* Of requests that come one by one, a reversion restores the anchor that was
\* there before what it reverts, and the limit that it changed.
THEOREM RevertAlwaysRestores == Spec => []RevertRestores
<1>1. Inv => RevertRestores
  BY DEF Inv
<1>2. QED
  BY <1>1, AccountsConsistency, PTL

\* Of requests that come one by one, the card of a plan keeps its days, and the
\* attributes of an account fit its type.
THEOREM ProductsAlwaysFit == Spec => []ProductsFit
<1>1. Inv => ProductsFit
  BY DEF Inv
<1>2. QED
  BY <1>1, AccountsConsistency, PTL

-----------------------------------------------------------------------------
(* The days of the cards *)

\* The days of a card are days of a month.
LEMMA CycleOfCard ==
  ASSUME TypeOK, NEW cycle \in CardCycles
  PROVE  IsCycle(cycle)
<1>1. PICK a \in AccountIds : Exists(a) /\ cycle = products[a].cycle /\ cycle # NoCycle
  BY DEF CardCycles
<1>2. cycle \in Cycles
  BY <1>1, ProductOfAccount DEF Product
<1>3. QED
  BY <1>2, CyclesAssumption DEF IsCycle

\* No day is before the second year: the months before it have a year too.
YearOK == today.year > 1

LEMMA YearStep == TypeInv /\ YearOK /\ [Next]_vars => YearOK'
<1> SUFFICES ASSUME TypeInv, YearOK, [Next]_vars PROVE YearOK'
  OBVIOUS
<1>1. CASE Tomorrow
  <2>1. IsCalendarDate(today) /\ today.year > 1
    BY DEF TypeInv, TypeOK, YearOK
  <2>2. NextDay(today).year >= today.year
    BY <2>1, YearOfNextDay
  <2>3. NextDay(today).year \in Nat /\ today.year \in Nat
    BY <2>1, NextDayIsCalendarDate DEF IsCalendarDate, Dates
  <2>4. QED
    BY <1>1, <2>1, <2>2, <2>3 DEF Tomorrow, YearOK
<1>2. CASE UNCHANGED today
  BY <1>2 DEF YearOK
<1>3. QED
  BY <1>1, <1>2 DEF Next, vars

LEMMA DaysInvariant == Spec => [](TypeOK /\ YearOK)
<1>1. Init => TypeInv /\ YearOK
  BY InitTypeInv, ScopesAssumption DEF Init, YearOK
<1>2. TypeInv /\ YearOK /\ [Next]_vars => (TypeInv /\ YearOK)'
  BY TypeIsInvariant, YearStep
<1>3. TypeInv /\ YearOK => TypeOK /\ YearOK
  BY DEF TypeInv
<1>4. QED
  BY <1>1, <1>2, <1>3, PTL DEF Spec

\* Whatever the date and the days of the card, the payment that is shown is the
\* first ahead.
THEOREM NoPaymentIsEverSkipped == Spec => []NoPaymentIsSkipped
<1>1. ASSUME TypeOK
      PROVE  NoPaymentIsSkipped
  <2> SUFFICES ASSUME NEW cycle \in CardCycles, cycle.paymentDueDay <= cycle.statementDay,
                      NEW date \in PaymentsAhead(cycle)
               PROVE  NotAfter(nextPaymentDate(cycle, today), date)
    BY DEF NoPaymentIsSkipped
  <2>1. PICK delta \in -2 .. 0 : date = PaymentFor(cycle, shiftMonth(today, delta))
                                 /\ NotAfter(today, date)
    BY DEF PaymentsAhead
  <2>2. IsCalendarDate(today) /\ IsCycle(cycle)
    BY <1>1, CycleOfCard DEF TypeOK
  <2>3. QED
    BY <2>1, <2>2, NextPaymentIsEarliest
<1>2. QED
  BY <1>1, DaysInvariant, PTL

\* Whatever the date and the day of the cut, an installment is billed by the day
\* exactly when it is billed by the month.
THEOREM PlansAlwaysFollowTheirCard == Spec => []PlansFollowTheirCard
<1>1. ASSUME TypeOK, YearOK
      PROVE  PlansFollowTheirCard
  <2> SUFFICES ASSUME NEW cycle \in CardCycles, NEW k \in 1 .. 4
               PROVE  LET first == clampedDay(shiftMonth(today, -2), cycle.statementDay)
                          cut == StatementDate(cycle, first, k)
                      IN  /\ IsCalendarDate(cut)
                          /\ NotAfter(cut, today)
                                <=> monthIndex(first) + k - 1 <= LastCut(cycle)
    BY DEF PlansFollowTheirCard
  <2> DEFINE first == clampedDay(shiftMonth(today, -2), cycle.statementDay)
  <2>1. IsCalendarDate(today) /\ today.year > 1 /\ IsCycle(cycle)
    BY <1>1, CycleOfCard DEF TypeOK, YearOK
  <2>2. /\ IsMonth(shiftMonth(today, -2))
        /\ monthIndex(shiftMonth(today, -2)) >= 12
    BY <2>1, MonthsBefore
  <2>3. IsMonth(first) /\ monthIndex(first) >= 12
    BY <2>1, <2>2, ClampedInMonth DEF IsCycle
  <2>4. k \in Nat \ {0}
    OBVIOUS
  <2> HIDE DEF first
  <2>5. LET cut  == StatementDate(cycle, first, k)
            next == statementOnOrAfter(cycle.statementDay, today)
            last == monthIndex(next) - (IF next = today THEN 0 ELSE 1)
        IN  /\ IsCalendarDate(cut)
            /\ NotAfter(cut, today) <=> monthIndex(first) + k - 1 <= last
    BY <2>1, <2>3, <2>4, BilledByTheMonth
  <2>6. QED
    BY <2>5 DEF LastCut, first
<1>2. QED
  BY <1>1, DaysInvariant, PTL

\* Whatever the date, the days of the card and the start of the open period, what
\* it is charged is in a range of tomorrow, and of the periods of a salary today.
THEOREM InstallmentsAlwaysStayCharged == Spec => []InstallmentsStayCharged
<1>1. ASSUME TypeOK, YearOK
      PROVE  InstallmentsStayCharged
  <2> SUFFICES ASSUME NEW cycle \in CardCycles, NEW start \in OpenStarts, NEW k \in 1 .. 3,
                      inRange(DueDate(cycle, shiftMonth(start, -1), k), start,
                              periodRangeEnd(start, today))
               PROVE  LET due == DueDate(cycle, shiftMonth(start, -1), k)
                      IN  /\ inRange(due, start, periodRangeEnd(start, NextDay(today)))
                          /\ \/ inRange(due, start, today)
                             \/ inRange(due, today, periodRangeEnd(today, today))
    BY DEF InstallmentsStayCharged
  <2> DEFINE first == shiftMonth(start, -1)
             cut   == shiftMonth(first, k - 1)
             due   == DueDate(cycle, first, k)
  <2>1. IsCalendarDate(today) /\ today.year > 1 /\ IsCycle(cycle)
    BY <1>1, CycleOfCard DEF TypeOK, YearOK
  <2>2. PICK delta \in -2 .. 0, day \in {1} \union 29 .. 31 :
          start = clampedDay(shiftMonth(today, delta), day) /\ NotAfter(start, today)
    BY DEF OpenStarts
  <2>3. /\ IsMonth(shiftMonth(today, delta))
        /\ monthIndex(shiftMonth(today, delta)) >= 12
    BY <2>1, MonthsBefore
  <2>4. IsMonth(start) /\ monthIndex(start) >= 12 /\ start.day \in 1 .. 31
    <3> DEFINE month == shiftMonth(today, delta)
    <3>1. day \in 1 .. 31
      OBVIOUS
    <3>2. IsMonth(month) /\ monthIndex(month) >= 12 /\ start = clampedDay(month, day)
      BY <2>2, <2>3
    <3> HIDE DEF month
    <3>3. QED
      BY <3>1, <3>2, ClampedInMonth
  <2>5. IsMonth(first) /\ monthIndex(first) >= 11
    BY <2>4, ShiftedMonth, IndexIsInt
  <2>6. IsMonth(cut) /\ monthIndex(cut) >= 11
    <3> DEFINE months == k - 1
    <3>1. cut = shiftMonth(first, months)
      OBVIOUS
    <3> HIDE DEF first, cut
    <3>2. months \in Int /\ months >= 0 /\ monthIndex(first) \in Nat
      BY <2>5, IndexIsInt
    <3> HIDE DEF months
    <3>3. QED
      BY <2>5, <3>1, <3>2, ShiftedMonth
  <2>7. IsMonth(shiftMonth(cut, 1))
    <3> HIDE DEF cut
    <3>1. monthIndex(cut) \in Nat
      BY <2>6, IndexIsInt
    <3>2. QED
      BY <2>6, <3>1, ShiftedMonth
  <2>8. IsMonth(due) /\ due.day \in 1 .. 31
    BY <2>1, <2>7, ClampedInMonth DEF DueDate, PaymentFor, IsCycle
  <2>9. QED
    BY <2>1, <2>2, <2>4, <2>8, ChargeStays
<1>2. QED
  BY <1>1, DaysInvariant, PTL

-----------------------------------------------------------------------------
(* Net worth *)

\* What movements come to, and what account a has, in tables of movements and of
\* anchors.
SumOf(M, ms) == SumFunction([m \in ms |-> M[m].amount])

CountedOf(M, N, a) ==
    {m \in MovementIds : /\ M[m] \notin {NotCreated, Gone}
                         /\ a \in {M[m].account, M[m].to} /\ M[m].day >= N[a].since}

IncreasesOf(M, N, a) ==
    {m \in CountedOf(M, N, a) : M[m].account = a /\ M[m].type \in BALANCE_INCREASING_TYPES}
IncomingOf(M, N, a)  == {m \in CountedOf(M, N, a) : M[m].to = a /\ M[m].type = "TRANSFER"}
DecreasesOf(M, N, a) ==
    {m \in CountedOf(M, N, a) : M[m].account = a /\ M[m].type \in BALANCE_DECREASING_TYPES}

BalanceOf(M, N, a) ==
    N[a].amount + SumOf(M, IncreasesOf(M, N, a)) + SumOf(M, IncomingOf(M, N, a))
                - SumOf(M, DecreasesOf(M, N, a))

\* The accounts that count, with products P.
PlainOf(P) == {a \in AccountIds : P[a] # NotCreated /\ P[a].type # "CREDIT_CARD"}
CardsOf(P) == {a \in AccountIds : /\ P[a] # NotCreated /\ P[a].type = "CREDIT_CARD"
                                  /\ P[a].creditLimit # NoLimit}

Movements == [MovementIds -> Movement \union {NotCreated, Gone}]

\* A movement is a row with an amount.
LEMMA MovementsAreRows ==
  \A t \in Movement : t.amount \in Int /\ t \notin {NotCreated, Gone}
<1>1. \A t \in Movement : t.amount \in Amounts
  BY DEF Movement
<1>2. \A x \in Amounts : x \in Int
  BY NumbersAssumption
<1>3. QED
  BY <1>1, <1>2, MovementRowsAssumption

\* The balances and the accounts of the model are those of its tables.
LEMMA CurrentBalanceIs ==
  /\ \A a : CurrentBalance(a) = BalanceOf(movements, anchors, a)
  /\ PlainAccounts = PlainOf(products) /\ ConfiguredCards = CardsOf(products)
<1>1. ASSUME NEW a
      PROVE  CurrentBalance(a) = BalanceOf(movements, anchors, a)
  <2>1. {m \in MovementsOf(a) : movements[m].day >= anchors[a].since}
        = CountedOf(movements, anchors, a)
    BY DEF MovementsOf, Stored, CountedOf
  <2>2. \A ms : Total(ms) = SumOf(movements, ms)
    BY DEF Total, SumOf
  <2>3. QED
    BY <2>1, <2>2 DEF CurrentBalance, BalanceOf, IncreasesOf, IncomingOf, DecreasesOf
<1>2. PlainAccounts = PlainOf(products) /\ ConfiguredCards = CardsOf(products)
  BY DEF PlainAccounts, ConfiguredCards, PlainOf, CardsOf, Exists, IsCard
<1>3. QED
  BY <1>1, <1>2

\* The balances of accounts that are no cards, and of cards what they have in favour
\* less what they owe, come to the balances of both.
LEMMA WorthIsSum ==
  ASSUME NEW P, NEW B, \A a \in AccountIds : B[a] \in Int
  PROVE  (SumFunction([a \in PlainOf(P) |-> B[a]])
          + SumFunction([a \in CardsOf(P) |-> Positive(B[a])]))
         - SumFunction([a \in CardsOf(P) |-> Positive(-B[a])])
         = SumFunctionOnSet(B, PlainOf(P) \union CardsOf(P))
<1>1. /\ IsFiniteSet(PlainOf(P)) /\ IsFiniteSet(CardsOf(P)) /\ PlainOf(P) \intersect CardsOf(P) = {}
      /\ PlainOf(P) \subseteq AccountIds /\ CardsOf(P) \subseteq AccountIds
  <2>1. PlainOf(P) \subseteq AccountIds /\ CardsOf(P) \subseteq AccountIds
    BY DEF PlainOf, CardsOf
  <2>2. QED
    BY <2>1, MovementRowsAssumption, FS_Subset DEF PlainOf, CardsOf
<1>2. PICK for : for = [a \in CardsOf(P) |-> Positive(B[a])]
  OBVIOUS
<1>3. PICK against : against = [a \in CardsOf(P) |-> Positive(-B[a])]
  OBVIOUS
<1>4. SumFunction([a \in PlainOf(P) |-> B[a]]) = SumFunctionOnSet(B, PlainOf(P))
  <2>1. PICK plain : plain = [a \in PlainOf(P) |-> B[a]]
    OBVIOUS
  <2>2. SumFunction(plain) = SumFunctionOnSet(plain, PlainOf(P))
    BY <2>1, SumOfTable
  <2>3. SumFunctionOnSet(plain, PlainOf(P)) = SumFunctionOnSet(B, PlainOf(P))
    BY <1>1, <2>1, SameSum
  <2>4. QED
    BY <2>1, <2>2, <2>3
<1>5. SumFunction(for) = SumFunctionOnSet(B, CardsOf(P)) + SumFunction(against)
  <2>1. \A a \in CardsOf(P) : /\ B[a] \in Int /\ against[a] \in Int
                              /\ for[a] = B[a] + against[a]
    BY <1>1, <1>2, <1>3 DEF Positive
  <2>2. SumFunctionOnSet(for, CardsOf(P))
        = SumFunctionOnSet(B, CardsOf(P)) + SumFunctionOnSet(against, CardsOf(P))
    BY <1>1, <2>1, SumOfTables
  <2>3. QED
    BY <1>2, <1>3, <2>2, SumOfTable
<1>6. SumFunctionOnSet(B, PlainOf(P) \union CardsOf(P))
      = SumFunctionOnSet(B, PlainOf(P)) + SumFunctionOnSet(B, CardsOf(P))
  BY <1>1, SumOfBoth
<1>7. /\ SumFunctionOnSet(B, PlainOf(P)) \in Int /\ SumFunctionOnSet(B, CardsOf(P)) \in Int
      /\ SumFunction(against) \in Int
  <2>1. \A a \in CardsOf(P) : against[a] \in Int
    BY <1>1, <1>3 DEF Positive
  <2>2. SumFunctionOnSet(against, CardsOf(P)) \in Int
    BY <1>1, <2>1, SumIsInt
  <2>3. QED
    BY <1>1, <1>3, <2>2, SumIsInt, SumOfTable
<1>8. QED
  BY <1>2, <1>3, <1>4, <1>5, <1>6, <1>7

\* Sums of movements that are stored.
LEMMA SumOfMovements ==
  ASSUME NEW M \in Movements, NEW ms \in SUBSET MovementIds,
         \A m \in ms : M[m] \notin {NotCreated, Gone}
  PROVE  /\ IsFiniteSet(ms) /\ \A m \in ms : M[m].amount \in Int
         /\ SumOf(M, ms) = SumFunctionOnSet([m \in ms |-> M[m].amount], ms)
         /\ SumOf(M, ms) \in Int
<1>1. IsFiniteSet(ms)
  BY MovementRowsAssumption, FS_Subset
<1>2. \A m \in ms : M[m].amount \in Int
  BY MovementsAreRows DEF Movements
<1>3. PICK table : table = [m \in ms |-> M[m].amount]
  OBVIOUS
<1>4. SumOf(M, ms) = SumFunctionOnSet(table, ms)
  BY <1>3, SumOfTable DEF SumOf
<1>5. SumFunctionOnSet(table, ms) \in Int
  BY <1>1, <1>2, <1>3, SumIsInt
<1>6. QED
  BY <1>1, <1>2, <1>3, <1>4, <1>5

\* A balance is an integer.
LEMMA BalanceIsInt ==
  ASSUME NEW M \in Movements, NEW N \in [AccountIds -> Anchor], NEW a \in AccountIds
  PROVE  BalanceOf(M, N, a) \in Int
<1>1. \A ms : (ms = IncreasesOf(M, N, a) \/ ms = IncomingOf(M, N, a) \/ ms = DecreasesOf(M, N, a))
              => ms \in SUBSET MovementIds /\ \A m \in ms : M[m] \notin {NotCreated, Gone}
  BY DEF IncreasesOf, IncomingOf, DecreasesOf, CountedOf
<1>2. /\ SumOf(M, IncreasesOf(M, N, a)) \in Int /\ SumOf(M, IncomingOf(M, N, a)) \in Int
      /\ SumOf(M, DecreasesOf(M, N, a)) \in Int
  BY <1>1, SumOfMovements
<1>3. QED
  BY <1>2 DEF BalanceOf, Anchor

\* One more movement, m.
LEMMA SumOfOneMore ==
  ASSUME NEW M \in Movements, NEW L \in Movements, NEW m \in MovementIds,
         L[m] \notin {NotCreated, Gone}, \A k \in MovementIds \ {m} : L[k] = M[k],
         NEW ms \in SUBSET (MovementIds \ {m}), \A k \in ms : M[k] \notin {NotCreated, Gone}
  PROVE  /\ SumOf(L, ms) = SumOf(M, ms)
         /\ SumOf(L, ms \union {m}) = SumOf(M, ms) + L[m].amount
<1>1. \A k \in ms \union {m} : L[k] \notin {NotCreated, Gone}
  OBVIOUS
<1>2. PICK f : f = [k \in ms |-> M[k].amount]
  OBVIOUS
<1>3. PICK g : g = [k \in ms \union {m} |-> L[k].amount]
  OBVIOUS
<1>4. [k \in ms |-> L[k].amount] = f
  BY <1>2
<1>5. SumOf(L, ms) = SumOf(M, ms)
  BY <1>2, <1>4 DEF SumOf
<1>6. /\ IsFiniteSet(ms) /\ SumOf(M, ms) = SumFunctionOnSet(f, ms) /\ SumOf(M, ms) \in Int
      /\ \A k \in ms : f[k] \in Int
  BY <1>2, SumOfMovements
<1>7. /\ SumOf(L, ms \union {m}) = SumFunctionOnSet(g, ms \union {m})
      /\ \A k \in ms \union {m} : L[k].amount \in Int
  BY <1>1, <1>3, SumOfMovements
<1>8. SumFunctionOnSet(g, ms \union {m}) = g[m] + SumFunctionOnSet(f, ms)
  <2>1. g[m] \in Int /\ m \notin ms /\ \A k \in ms : f[k] \in Int /\ g[k] = f[k]
    BY <1>2, <1>3, <1>6, <1>7
  <2>2. QED
    BY <1>6, <2>1, SumWithOneMore
<1>9. QED
  BY <1>3, <1>5, <1>6, <1>7, <1>8

\* A transfer takes its amount from one balance and adds it to another.
LEMMA BalancesOfTransfer ==
  ASSUME NEW M \in Movements, NEW L \in Movements, NEW m \in MovementIds,
         NEW N \in [AccountIds -> Anchor],
         M[m] = NotCreated, L[m] \in Movement, L[m].type = "TRANSFER",
         L[m].account # L[m].to, \A k \in MovementIds \ {m} : L[k] = M[k],
         \A a \in {L[m].account, L[m].to} : L[m].day >= N[a].since
  PROVE  \A a \in AccountIds :
            BalanceOf(L, N, a) = CASE a = L[m].account -> BalanceOf(M, N, a) - L[m].amount
                                   [] a = L[m].to      -> BalanceOf(M, N, a) + L[m].amount
                                   [] OTHER            -> BalanceOf(M, N, a)
<1> SUFFICES ASSUME NEW a \in AccountIds
             PROVE  BalanceOf(L, N, a) = CASE a = L[m].account -> BalanceOf(M, N, a) - L[m].amount
                                           [] a = L[m].to      -> BalanceOf(M, N, a) + L[m].amount
                                           [] OTHER            -> BalanceOf(M, N, a)
  OBVIOUS
<1>1. L[m] \notin {NotCreated, Gone} /\ L[m].amount \in Int
  BY MovementsAreRows
<1>2. PICK up : up = IncreasesOf(M, N, a)
  OBVIOUS
<1>3. PICK in : in = IncomingOf(M, N, a)
  OBVIOUS
<1>4. PICK down : down = DecreasesOf(M, N, a)
  OBVIOUS
<1>5. PICK counted : counted = CountedOf(M, N, a)
  OBVIOUS
<1>6. /\ counted \subseteq MovementIds \ {m}
      /\ \A k \in counted : M[k] \notin {NotCreated, Gone} /\ L[k] = M[k]
  BY <1>5 DEF CountedOf
<1>7. CountedOf(L, N, a) = counted \union {k \in {m} : a \in {L[m].account, L[m].to}}
  BY <1>1, <1>5 DEF CountedOf
<1>8. /\ up = {k \in counted : M[k].account = a /\ M[k].type \in BALANCE_INCREASING_TYPES}
      /\ in = {k \in counted : M[k].to = a /\ M[k].type = "TRANSFER"}
      /\ down = {k \in counted : M[k].account = a /\ M[k].type \in BALANCE_DECREASING_TYPES}
  BY <1>2, <1>3, <1>4, <1>5 DEF IncreasesOf, IncomingOf, DecreasesOf
<1>9. /\ IncreasesOf(L, N, a) = up
      /\ IncomingOf(L, N, a) = in \union {k \in {m} : a = L[m].to}
      /\ DecreasesOf(L, N, a) = down \union {k \in {m} : a = L[m].account}
  <2>1. "TRANSFER" \notin BALANCE_INCREASING_TYPES /\ "TRANSFER" \in BALANCE_DECREASING_TYPES
    BY DEF BALANCE_INCREASING_TYPES, BALANCE_DECREASING_TYPES
  <2>2. IncreasesOf(L, N, a) = up
    BY <1>6, <1>7, <1>8, <2>1 DEF IncreasesOf
  <2>3. IncomingOf(L, N, a) = in \union {k \in {m} : a = L[m].to}
    BY <1>6, <1>7, <1>8, <2>1 DEF IncomingOf
  <2>4. DecreasesOf(L, N, a) = down \union {k \in {m} : a = L[m].account}
    BY <1>6, <1>7, <1>8, <2>1 DEF DecreasesOf
  <2>5. QED
    BY <2>2, <2>3, <2>4
<1>10. \A ms : ms \in {up, in, down} =>
          /\ ms \in SUBSET (MovementIds \ {m}) /\ \A k \in ms : M[k] \notin {NotCreated, Gone}
  BY <1>6, <1>8
<1>11. ASSUME NEW ms \in {up, in, down}
       PROVE  /\ SumOf(L, ms) = SumOf(M, ms)
              /\ SumOf(L, ms \union {m}) = SumOf(M, ms) + L[m].amount
              /\ SumOf(M, ms) \in Int
  <2>1. /\ ms \in SUBSET (MovementIds \ {m}) /\ ms \in SUBSET MovementIds
        /\ \A k \in ms : M[k] \notin {NotCreated, Gone}
    BY <1>10
  <2>2. SumOf(M, ms) \in Int
    BY <2>1, SumOfMovements
  <2>3. L[m] \notin {NotCreated, Gone} /\ \A k \in MovementIds \ {m} : L[k] = M[k]
    BY <1>1
  <2>4. /\ SumOf(L, ms) = SumOf(M, ms)
        /\ SumOf(L, ms \union {m}) = SumOf(M, ms) + L[m].amount
    BY <2>1, <2>3, SumOfOneMore
  <2>5. QED
    BY <2>2, <2>4
<1>12. /\ BalanceOf(M, N, a) = N[a].amount + SumOf(M, up) + SumOf(M, in) - SumOf(M, down)
       /\ BalanceOf(L, N, a) = N[a].amount + SumOf(L, up)
                                + SumOf(L, in \union {k \in {m} : a = L[m].to})
                                - SumOf(L, down \union {k \in {m} : a = L[m].account})
  BY <1>2, <1>3, <1>4, <1>9 DEF BalanceOf
<1>13. /\ N[a].amount \in Int
       /\ SumOf(L, up) = SumOf(M, up) /\ SumOf(M, up) \in Int
       /\ SumOf(L, in) = SumOf(M, in) /\ SumOf(M, in) \in Int
       /\ SumOf(L, down) = SumOf(M, down) /\ SumOf(M, down) \in Int
  BY <1>11 DEF Anchor
<1>14. CASE a = L[m].account
  <2>1. {k \in {m} : a = L[m].to} = {} /\ {k \in {m} : a = L[m].account} = {m}
    BY <1>14
  <2>2. BalanceOf(L, N, a) = N[a].amount + SumOf(L, up) + SumOf(L, in) - SumOf(L, down \union {m})
    BY <1>12, <2>1
  <2>3. SumOf(L, down \union {m}) = SumOf(M, down) + L[m].amount
    BY <1>11
  <2>4. BalanceOf(L, N, a) = BalanceOf(M, N, a) - L[m].amount
    BY <1>1, <1>12, <1>13, <2>2, <2>3
  <2>5. QED
    BY <1>14, <2>4
<1>15. CASE a = L[m].to
  <2>1. {k \in {m} : a = L[m].to} = {m} /\ {k \in {m} : a = L[m].account} = {}
    BY <1>15
  <2>2. BalanceOf(L, N, a) = N[a].amount + SumOf(L, up) + SumOf(L, in \union {m}) - SumOf(L, down)
    BY <1>12, <2>1
  <2>3. SumOf(L, in \union {m}) = SumOf(M, in) + L[m].amount
    BY <1>11
  <2>4. BalanceOf(L, N, a) = BalanceOf(M, N, a) + L[m].amount
    BY <1>1, <1>12, <1>13, <2>2, <2>3
  <2>5. a # L[m].account
    BY <1>15
  <2>6. QED
    BY <1>15, <2>4, <2>5
<1>16. CASE a \notin {L[m].account, L[m].to}
  <2>1. {k \in {m} : a = L[m].to} = {} /\ {k \in {m} : a = L[m].account} = {}
    BY <1>16
  <2>2. BalanceOf(L, N, a) = N[a].amount + SumOf(L, up) + SumOf(L, in) - SumOf(L, down)
    BY <1>12, <2>1
  <2>3. BalanceOf(L, N, a) = BalanceOf(M, N, a)
    BY <1>12, <1>13, <2>2
  <2>4. QED
    BY <1>16, <2>3
<1>17. QED
  BY <1>14, <1>15, <1>16

\* A transfer between two accounts that count, be one of them a card or not,
\* moves the net worth nowhere.
THEOREM TransfersAlwaysKeepNetWorth == Spec => TransfersKeepNetWorth
<1>1. ASSUME TypeInv, TypeInv', Next, NEW m \in MovementIds,
             movements[m] = NotCreated, movements'[m] # NotCreated,
             movements'[m].type = "TRANSFER",
             \A a \in {movements'[m].account, movements'[m].to} :
                Counted(a) /\ movements'[m].day >= anchors[a].since
      PROVE  NetWorth' = NetWorth
  <2>1. PICK M : M = movements
    OBVIOUS
  <2>2. PICK L : L = movements'
    OBVIOUS
  <2>3. PICK N : N = anchors
    OBVIOUS
  <2>4. PICK P : P = products
    OBVIOUS
  <2>5. \E a, b \in AccountIds, amount \in Amounts, day \in Days, type \in MovementTypes :
           AddMovement(m, a, b, type, amount, day)
    <3>1. movements' # movements
      BY <1>1
    <3>2. Single
      <4>1. CASE Tomorrow
        BY <3>1, <4>1 DEF Tomorrow
      <4>2. CASE Request
        <5>1. \A c, a, patch : ~ BeginUpdate(c, a, patch)
          BY <3>1 DEF BeginUpdate, Begin
        <5>2. \A c, a, amount, day, limit : ~ BeginStatement(c, a, amount, day, limit)
          BY <3>1 DEF BeginStatement, BeginAnchor, Begin
        <5>3. \A c, a, amount, day : ~ BeginInitialBalance(c, a, amount, day)
          BY <3>1 DEF BeginInitialBalance, BeginAnchor, Begin
        <5>4. \A c, a, k : ~ BeginRevert(c, a, k)
          BY <3>1 DEF BeginRevert, BeginAnchor, Begin
        <5>5. \A c : ~ Update(c) /\ ~ ApplyAnchor(c) /\ ~ Fail(c)
          BY <3>1 DEF Update, ApplyAnchor, Fail
        <5>6. QED
          BY <4>2, <5>1, <5>2, <5>3, <5>4, <5>5 DEF Request
      <4>3. QED
        BY <1>1, <4>1, <4>2 DEF Next
    <3>3. \E n \in MovementIds :
             \/ \E a, b \in scope.accounts, type \in scope.types, amount \in scope.amounts,
                   day \in Days : \/ AddMovement(n, a, b, type, amount, day)
                                  \/ EditMovement(n, a, b, type, amount, day)
             \/ RemoveMovement(n)
      BY <3>1, <3>2 DEF Single, Create, AddPlan, RemovePlans
    <3>4. PICK n \in MovementIds :
             \/ \E a, b \in scope.accounts, type \in scope.types, amount \in scope.amounts,
                   day \in Days : \/ AddMovement(n, a, b, type, amount, day)
                                  \/ EditMovement(n, a, b, type, amount, day)
             \/ RemoveMovement(n)
      BY <3>3
    <3>5. n = m
      BY <1>1, <3>4 DEF AddMovement, EditMovement, RemoveMovement, TypeInv, TypeOK
    <3>6. ~ Stored(m)
      BY <1>1 DEF Stored
    <3>7. /\ scope.accounts \subseteq AccountIds /\ scope.types \subseteq MovementTypes
          /\ scope.amounts \subseteq Amounts
      BY <1>1, ScopesAssumption DEF TypeInv
    <3>8. QED
      BY <3>4, <3>5, <3>6, <3>7 DEF EditMovement, RemoveMovement
  <2>6. /\ M \in Movements /\ L \in Movements /\ N \in [AccountIds -> Anchor]
        /\ anchors' = N /\ products' = P
    BY <1>1, <2>1, <2>2, <2>3, <2>4, <2>5 DEF TypeInv, TypeOK, Movements, AddMovement
  <2>7. /\ L[m] \in Movement /\ L[m].account # L[m].to
        /\ \A k \in MovementIds \ {m} : L[k] = M[k]
    BY <1>1, <2>1, <2>2, <2>5, <2>6 DEF AddMovement, Movement, Movements
  <2>8. PICK B : B = [a \in AccountIds |-> BalanceOf(M, N, a)]
    OBVIOUS
  <2>9. PICK C : C = [a \in AccountIds |-> BalanceOf(L, N, a)]
    OBVIOUS
  <2>10. \A a \in AccountIds : B[a] \in Int /\ C[a] \in Int
    BY <2>6, <2>8, <2>9, BalanceIsInt
  <2>11. PICK S : S = PlainOf(P) \union CardsOf(P)
    OBVIOUS
  <2>12. PlainOf(P) \subseteq AccountIds /\ CardsOf(P) \subseteq AccountIds
    BY DEF PlainOf, CardsOf
  <2>13. NetWorth = SumFunctionOnSet(B, S)
    <3>1. /\ [a \in PlainAccounts |-> CurrentBalance(a)] = [a \in PlainOf(P) |-> B[a]]
          /\ [a \in ConfiguredCards |-> Positive(CurrentBalance(a))]
             = [a \in CardsOf(P) |-> Positive(B[a])]
          /\ [a \in ConfiguredCards |-> Positive(-CurrentBalance(a))]
             = [a \in CardsOf(P) |-> Positive(-B[a])]
      BY <2>1, <2>3, <2>4, <2>8, <2>12, CurrentBalanceIs
    <3>2. PICK own : own = SumFunction([a \in PlainOf(P) |-> B[a]])
      OBVIOUS
    <3>3. PICK for : for = SumFunction([a \in CardsOf(P) |-> Positive(B[a])])
      OBVIOUS
    <3>4. PICK owed : owed = SumFunction([a \in CardsOf(P) |-> Positive(-B[a])])
      OBVIOUS
    <3>5. AccountsBalance = own + for /\ CreditCardsDebt = owed
      BY <3>1, <3>2, <3>3, <3>4 DEF AccountsBalance, CreditCardsDebt
    <3>6. NetWorth = (own + for) - owed
      BY <3>5 DEF NetWorth
    <3>7. (own + for) - owed = SumFunctionOnSet(B, S)
      BY <2>10, <2>11, <3>2, <3>3, <3>4, WorthIsSum
    <3>8. QED
      BY <3>6, <3>7
  <2>14. NetWorth' = SumFunctionOnSet(C, S)
    <3>1. /\ \A a : CurrentBalance(a)' = BalanceOf(L, N, a)
          /\ PlainAccounts' = PlainOf(P) /\ ConfiguredCards' = CardsOf(P)
      <4>1. (/\ \A a : CurrentBalance(a) = BalanceOf(movements, anchors, a)
             /\ PlainAccounts = PlainOf(products) /\ ConfiguredCards = CardsOf(products))'
        BY CurrentBalanceIs, PTL
      <4>2. QED
        BY <2>2, <2>6, <4>1
    <3>2. /\ [a \in PlainAccounts' |-> CurrentBalance(a)'] = [a \in PlainOf(P) |-> C[a]]
          /\ [a \in ConfiguredCards' |-> Positive(CurrentBalance(a)')]
             = [a \in CardsOf(P) |-> Positive(C[a])]
          /\ [a \in ConfiguredCards' |-> Positive(-CurrentBalance(a)')]
             = [a \in CardsOf(P) |-> Positive(-C[a])]
      BY <2>9, <2>12, <3>1
    <3>3. PICK own : own = SumFunction([a \in PlainOf(P) |-> C[a]])
      OBVIOUS
    <3>4. PICK for : for = SumFunction([a \in CardsOf(P) |-> Positive(C[a])])
      OBVIOUS
    <3>5. PICK owed : owed = SumFunction([a \in CardsOf(P) |-> Positive(-C[a])])
      OBVIOUS
    <3>6. AccountsBalance' = own + for /\ CreditCardsDebt' = owed
      BY <3>2, <3>3, <3>4, <3>5 DEF AccountsBalance, CreditCardsDebt
    <3>7. NetWorth' = (own + for) - owed
      BY <3>6 DEF NetWorth
    <3>8. (own + for) - owed = SumFunctionOnSet(C, S)
      BY <2>10, <2>11, <3>3, <3>4, <3>5, WorthIsSum
    <3>9. QED
      BY <3>7, <3>8
  <2>15. L[m].account \in S /\ L[m].to \in S
    BY <1>1, <2>2, <2>4, <2>7, <2>11
       DEF Counted, Exists, IsCard, ConfiguredCards, PlainOf, CardsOf, Movement
  <2>16. \A a \in AccountIds :
            C[a] = CASE a = L[m].account -> B[a] - L[m].amount
                     [] a = L[m].to      -> B[a] + L[m].amount
                     [] OTHER            -> B[a]
    <3>1. \A a \in {L[m].account, L[m].to} : L[m].day >= N[a].since
      BY <1>1, <2>2, <2>3
    <3>2. M[m] = NotCreated /\ L[m].type = "TRANSFER"
      BY <1>1, <2>1, <2>2
    <3>3. QED
      BY <2>6, <2>7, <2>8, <2>9, <3>1, <3>2, BalancesOfTransfer
  <2>17. SumFunctionOnSet(C, S) = SumFunctionOnSet(B, S)
    <3>1. S \subseteq AccountIds /\ IsFiniteSet(S)
      BY <2>11, <2>12, MovementRowsAssumption, FS_Subset
    <3>2. L[m].amount \in Int
      BY <2>7, MovementsAreRows
    <3>3. \E from, to \in S :
             /\ from # to /\ C[from] = B[from] - L[m].amount /\ C[to] = B[to] + L[m].amount
             /\ \A a \in S \ {from, to} : C[a] = B[a]
      BY <2>7, <2>15, <2>16, <3>1
    <3>4. \A a \in S : B[a] \in Int
      BY <2>10, <3>1
    <3>5. PICK from \in S, to \in S :
             /\ from # to /\ C[from] = B[from] - L[m].amount /\ C[to] = B[to] + L[m].amount
             /\ \A a \in S \ {from, to} : C[a] = B[a]
      BY <3>3
    <3>6. QED
      BY <3>1, <3>2, <3>4, <3>5, SumOfMoved
  <2>18. QED
    BY <2>13, <2>14, <2>17
<1>2. ASSUME TypeInv, TypeInv', [Next]_vars
      PROVE  [\A m \in MovementIds :
                (movements[m] = NotCreated /\ movements'[m] # NotCreated
                 /\ movements'[m].type = "TRANSFER")
                => LET t == movements'[m]
                   IN  (\A a \in {t.account, t.to} : Counted(a) /\ t.day >= anchors[a].since)
                           => NetWorth' = NetWorth]_vars
  BY <1>1, <1>2
<1>3. QED
  BY <1>2, InitTypeInv, TypeIsInvariant, PTL DEF Spec, TransfersKeepNetWorth

=============================================================================
