------------------------------ MODULE CardCalendar ------------------------------
(***************************************************************************)
(* The days of a credit card (credit-card.ts) and of the installments on   *)
(* it (installment-schedule.ts): when it cuts, when each cut is paid, and  *)
(* which installments the range of a period holds.                         *)
(*                                                                         *)
(* A date is [year, month, day] in Bogota.  A period starts at a midnight  *)
(* and an installment is charged at noon of its due date, so dates tell    *)
(* which range holds an installment.                                       *)
(***************************************************************************)
EXTENDS Integers, FiniteSetsExt

IsLeap(year) == year % 4 = 0 /\ (year % 100 # 0 \/ year % 400 = 0)

daysInMonth(year, month) ==
    IF month = 2 THEN (IF IsLeap(year) THEN 29 ELSE 28)
    ELSE IF month \in {4, 6, 9, 11} THEN 30 ELSE 31

Date(ym, day) == [year |-> ym.year, month |-> ym.month, day |-> day]

Dates == [year : Nat \ {0}, month : 1 .. 12, day : 1 .. 31]

\* parseCalendarDate: no 30th of February.
IsCalendarDate(date) ==
    date \in Dates /\ date.day \in 1 .. daysInMonth(date.year, date.month)

compareDates(a, b) ==
    IF a.year # b.year THEN a.year - b.year
    ELSE IF a.month # b.month THEN a.month - b.month
    ELSE a.day - b.day

NotAfter(a, b) == compareDates(a, b) <= 0

monthIndex(ym) == ym.year * 12 + (ym.month - 1)

shiftMonth(ym, delta) ==
    LET index == monthIndex(ym) + delta
    IN  [year |-> index \div 12, month |-> (index % 12) + 1]

\* Mutant: the day is kept, whether the month has it or not.
UnclampedDay(ym, day) == Date(ym, day)

\* That day of the month, or the last one of a shorter month.
clampedDay(ym, day) == Date(ym, Min({day, daysInMonth(ym.year, ym.month)}))

\* startOfNextFinancialDay, tomorrow: Date.UTC carries the day over.
NextDay(date) ==
    IF date.day < daysInMonth(date.year, date.month) THEN Date(date, date.day + 1)
    ELSE Date(shiftMonth(date, 1), 1)

-----------------------------------------------------------------------------
(* The card: cycle is [statementDay, paymentDueDay] *)

\* The first cut on that day or later.
statementOnOrAfter(statementDay, date) ==
    LET thisMonth == clampedDay(date, statementDay)
    IN  IF NotAfter(date, thisMonth) THEN thisMonth
        ELSE clampedDay(shiftMonth(date, 1), statementDay)

\* A cut is paid in the month after it.
PaymentFor(cycle, cut) == clampedDay(shiftMonth(cut, 1), cycle.paymentDueDay)

\* Mutant: always the payment of the upcoming cut.
PaymentOfUpcomingCut(cycle, today) ==
    PaymentFor(cycle, statementOnOrAfter(cycle.statementDay, today))

\* The payment of the last cut while it is not past, or that of the upcoming one.
nextPaymentDate(cycle, today) ==
    LET upcomingCut    == statementOnOrAfter(cycle.statementDay, today)
        lastCutPayment == PaymentFor(cycle, shiftMonth(upcomingCut, -1))
    IN  IF NotAfter(today, lastCutPayment) THEN lastCutPayment
        ELSE PaymentFor(cycle, upcomingCut)

-----------------------------------------------------------------------------
(* The installments: first is the first cut, normalizeStatementDate *)

StatementDate(cycle, first, k) == clampedDay(shiftMonth(first, k - 1), cycle.statementDay)

DueDate(cycle, first, k) == PaymentFor(cycle, shiftMonth(first, k - 1))

\* Mutant: the days that the next month lacks are carried over, as Date.UTC does.
RangeEndCarried(start, today) ==
    LET next     == shiftMonth(start, 1)
        last     == daysInMonth(next.year, next.month)
        expected == IF start.day <= last THEN Date(next, start.day)
                    ELSE Date(shiftMonth(next, 1), start.day - last)
        tomorrow == NextDay(today)
    IN  IF NotAfter(tomorrow, expected) THEN expected ELSE tomorrow

\* The end of the range of an open period: the next salary expected, a month
\* after it started, or tomorrow if that day is past.
periodRangeEnd(start, today) ==
    LET expected == clampedDay(shiftMonth(start, 1), start.day)
        tomorrow == NextDay(today)
    IN  IF NotAfter(tomorrow, expected) THEN expected ELSE tomorrow

inRange(date, start, end) == NotAfter(start, date) /\ ~NotAfter(end, date)

=============================================================================
