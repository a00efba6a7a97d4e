----------------------------- MODULE Reminders -----------------------------
(***************************************************************************)
(* The daily reminder of fixed expenses that are due                       *)
(* (RecurringExpenseReminderCron), the alerts it leaves (AlertsService)    *)
(* and the requests that change what it looks at.                          *)
(*                                                                         *)
(* The reminder runs once a day, outside any transaction: it reads the     *)
(* active expenses and then goes through them, a few statements for each,  *)
(* while requests are served.  The server may be down at that time, or     *)
(* stop half way: that day's reminder is not run again.                    *)
(*                                                                         *)
(* Periods are numbered as salaries open them; how is the business of      *)
(* PeriodSequence.  Months have the lengths of MonthLengths, over and over.*)
(*                                                                         *)
(* What Budgets defines under the source's name has another one here, so   *)
(* that one module, AlertsProofs, extends both.                            *)
(***************************************************************************)
EXTENDS Integers, FiniteSets, Sequences

CONSTANTS
    Expenses,       \* ids of fixed expenses
    DueDays,        \* dayOfMonth of an expense
    MonthLengths,
    REMINDER_WINDOW_DAYS,
    Plays,          \* sets of kinds of request that are sent
    LastPeriod,     \* bound: periods opened
    MaxOutages,     \* bound: days the reminder is not run to its end
    Absent,         \* an expense that does not exist yet
    Removed,        \* one that was removed; ids are not used again
    None

ASSUME DueDaysAssumption == DueDays \subseteq Nat \ {0}
ASSUME MonthLengthsAssumption ==
    MonthLengths \in Seq(Nat \ {0}) /\ MonthLengths # <<>>
ASSUME WindowAssumption == REMINDER_WINDOW_DAYS \in Nat
ASSUME BoundsAssumption == LastPeriod \in Nat \ {0} /\ MaxOutages \in Nat

VARIABLES
    month, day,     \* today, in Bogota: an index of MonthLengths, and 1, 2, ...
    expenses,       \* recurring_expenses: id -> Expense, Absent or Gone
    period,         \* the open period
    registered,     \* <<period, expense>> with a transaction that registers it
    reminders,      \* RECURRING_EXPENSE_DUE: <<period, expense>> -> [sent, unread]
    run,            \* the reminder in progress, or None
    ran,            \* today's reminder has run, or is lost
    outages,        \* days lost so far
    requests,       \* the kinds of request that are sent; never changes
    untouched       \* history: the expenses nobody changed this month, with
                    \* every reminder of the month run to its end, and the
                    \* periods that were open in it

reminderVars == <<month, day, expenses, period, registered, reminders, run, ran,
                  outages, requests, untouched>>

OpenedPeriods == 1..LastPeriod
Expense == [dayOfMonth : DueDays, active : BOOLEAN]

\* A reminder in progress: the expenses left, the one it is at with the period
\* read for it, and whether it was found missing there.
RunInProgress == [left : SUBSET Expenses, visiting : Expenses \union {None},
                  period : OpenedPeriods \union {None}, missing : BOOLEAN]

ASSUME ValuesAssumption ==
    /\ Absent \notin Expense /\ Removed \notin Expense
    /\ None \notin Expenses /\ None \notin RunInProgress

daysInMonth == MonthLengths[month]
Stored(e) == expenses[e] \notin {Absent, Removed}
Active == {e \in Expenses : Stored(e) /\ expenses[e].active}

InitReminders ==
    /\ requests \in Plays
    /\ month = 1 /\ day = 1 /\ ran = FALSE
    /\ expenses \in [Expenses -> [dayOfMonth : DueDays, active : {TRUE}] \union {Absent}]
    /\ period = 1
    /\ registered = {}
    /\ reminders = [k \in OpenedPeriods \X Expenses |-> [sent |-> 0, unread |-> 0]]
    /\ run = None
    /\ outages = 0
    /\ untouched = [expenses |-> Expenses, periods |-> {1}]

-----------------------------------------------------------------------------
(* Requests *)

UnchangedByRequest == UNCHANGED <<month, day, run, ran, outages, requests>>

Touch(e) == untouched' = [untouched EXCEPT !.expenses = @ \ {e}]

\* create, update and remove of RecurringExpensesService
SetExpense(e, row) ==
    /\ "edit" \in requests
    /\ expenses[e] \notin {Removed, row}
    /\ row = Removed => Stored(e)
    /\ expenses' = [expenses EXCEPT ![e] = row]
    /\ registered' = IF row = Removed THEN {k \in registered : k[2] # e} ELSE registered
    /\ Touch(e)
    /\ UnchangedByRequest /\ UNCHANGED <<period, reminders>>

\* A transaction with recurringExpenseId, dated in period p.
Register(e, p) ==
    /\ "register" \in requests
    /\ Stored(e) /\ p <= period
    /\ registered' = registered \union {<<p, e>>}
    /\ UnchangedByRequest /\ UNCHANGED <<expenses, period, reminders, untouched>>

Unregister(k) ==
    /\ "unregister" \in requests
    /\ k \in registered
    /\ registered' = registered \ {k}
    /\ Touch(k[2])
    /\ UnchangedByRequest /\ UNCHANGED <<expenses, period, reminders>>

\* A salary opens a period, which takes the transactions of its day.
OpenPeriod(moved) ==
    /\ "salary" \in requests
    /\ period < LastPeriod
    /\ period' = period + 1
    /\ registered' = {<<IF k[1] = period /\ k[2] \in moved THEN period + 1 ELSE k[1], k[2]>> :
                         k \in registered}
    /\ untouched' = [untouched EXCEPT !.periods = @ \union {period + 1}]
    /\ UnchangedByRequest /\ UNCHANGED <<expenses, reminders>>

MarkRead(k) ==
    /\ "read" \in requests
    /\ reminders[k].unread > 0
    /\ reminders' = [reminders EXCEPT ![k].unread = @ - 1]
    /\ UnchangedByRequest /\ UNCHANGED <<expenses, period, registered, untouched>>

MarkAllRead ==
    /\ "read" \in requests
    /\ \E k \in DOMAIN reminders : reminders[k].unread > 0
    /\ reminders' = [k \in DOMAIN reminders |-> [reminders[k] EXCEPT !.unread = 0]]
    /\ UnchangedByRequest /\ UNCHANGED <<expenses, period, registered, untouched>>

-----------------------------------------------------------------------------
(* The reminder *)

UnchangedByRun ==
    UNCHANGED <<month, day, expenses, period, registered, outages, requests, untouched>>

\* Mutant: a day the month does not have is not due in it.
DueDayAsGiven(dayOfMonth) == dayOfMonth

\* min(dayOfMonth, daysInMonth)
DueDay(dayOfMonth) == IF dayOfMonth < daysInMonth THEN dayOfMonth ELSE daysInMonth

InWindow(dayOfMonth) == DueDay(dayOfMonth) - day \in 0..REMINDER_WINDOW_DAYS

\* 8 in the morning: the active expenses are read; those that are not due soon
\* are passed over, in any order among the others.
StartRun ==
    /\ ~ ran /\ run = None
    /\ ran' = TRUE
    /\ run' = [left |-> {e \in Active : InWindow(expenses[e].dayOfMonth)},
               visiting |-> None, period |-> None, missing |-> FALSE]
    /\ UnchangedByRun /\ UNCHANGED reminders

\* getCurrentPeriod, for each expense anew
Visit(e) ==
    /\ run # None /\ run.visiting = None /\ e \in run.left
    /\ run' = [run EXCEPT !.left = @ \ {e}, !.visiting = e, !.period = period]
    /\ UnchangedByRun /\ UNCHANGED <<reminders, ran>>

Passed == [run EXCEPT !.visiting = None, !.period = None, !.missing = FALSE]

\* A transaction of that period that registers the expense is looked for.
LookForPayment ==
    /\ run # None /\ run.visiting # None /\ ~ run.missing
    /\ run' = IF <<run.period, run.visiting>> \in registered THEN Passed
              ELSE [run EXCEPT !.missing = TRUE]
    /\ UnchangedByRun /\ UNCHANGED <<reminders, ran>>

\* Mutant: an alert of any period counts.
ReminderOfSomePeriod(k) == \E p \in OpenedPeriods : reminders[<<p, k[2]>>].sent > 0

\* Mutant: only an alert that was not read counts.
ReminderUnread(k) == reminders[k].unread > 0

\* createOnce: an alert of this period and this expense exists.
ReminderExists(k) == reminders[k].sent > 0

\* createOnce, whatever has been registered since.  Its two statements are one
\* step: nothing else creates such an alert, and none is ever deleted.
Remind ==
    /\ run # None /\ run.missing
    /\ LET k == <<run.period, run.visiting>>
       IN  reminders' = IF ReminderExists(k) THEN reminders
                     ELSE [reminders EXCEPT ![k] = [sent |-> @.sent + 1, unread |-> @.unread + 1]]
    /\ run' = Passed
    /\ UnchangedByRun /\ UNCHANGED ran

EndRun ==
    /\ run # None /\ run.visiting = None /\ run.left = {}
    /\ run' = None
    /\ UnchangedByRun /\ UNCHANGED <<reminders, ran>>

\* The server is down at 8, or stops, or a statement fails, in the loop.
Outage ==
    /\ outages < MaxOutages
    /\ ~ ran \/ run # None
    /\ outages' = outages + 1
    /\ ran' = TRUE
    /\ run' = None
    /\ untouched' = [untouched EXCEPT !.expenses = {}]
    /\ UNCHANGED <<month, day, expenses, period, registered, reminders, requests>>

\* The next day.
Tick ==
    /\ ran /\ run = None
    /\ ran' = FALSE
    /\ IF day < daysInMonth
       THEN day' = day + 1 /\ UNCHANGED <<month, untouched>>
       ELSE /\ day' = 1
            /\ month' = (month % Len(MonthLengths)) + 1
            /\ untouched' = [expenses |-> Expenses, periods |-> {period}]
    /\ UNCHANGED <<expenses, period, registered, reminders, run, outages, requests>>

ExpenseRequest ==
    \/ \E e \in Expenses, row \in Expense \union {Removed} : SetExpense(e, row)
    \/ \E e \in Expenses, p \in OpenedPeriods : Register(e, p)
    \/ \E k \in OpenedPeriods \X Expenses : Unregister(k) \/ MarkRead(k)
    \/ \E moved \in SUBSET Expenses : OpenPeriod(moved)
    \/ MarkAllRead

Run == StartRun \/ (\E e \in Expenses : Visit(e)) \/ LookForPayment \/ Remind \/ EndRun

NextReminders == ExpenseRequest \/ Run \/ Outage \/ Tick

RemindersSpec == InitReminders /\ [][NextReminders]_reminderVars

\* The scheduler starts the reminder every day, a run goes on while the server
\* does, and days pass.
FairRemindersSpec == RemindersSpec /\ WF_reminderVars(Run) /\ WF_reminderVars(Tick)

-----------------------------------------------------------------------------
(* Properties *)

TypeOK ==
    /\ month \in DOMAIN MonthLengths /\ day \in 1..daysInMonth
    /\ expenses \in [Expenses -> Expense \union {Absent, Removed}]
    /\ period \in OpenedPeriods
    /\ registered \subseteq OpenedPeriods \X Expenses
    /\ reminders \in [OpenedPeriods \X Expenses -> [sent : Nat, unread : Nat]]
    /\ run \in RunInProgress \union {None}
    /\ outages \in 0..MaxOutages

\* However long its day of the month, an expense that is active all month is
\* registered in a period of that month or reminded of, in the one open when it
\* was due: whatever other expenses, salaries and payments come in between.
EveryDueIsReminded ==
    [][month' # month =>
         \A e \in untouched.expenses \intersect Active :
            \E p \in untouched.periods : <<p, e>> \in registered \/ reminders[<<p, e>>].sent > 0
      ]_reminderVars

\* A period reminds of an expense once, though the alert was read meanwhile,
\* the run was cut short or the expense was edited.
OneReminderPerPeriod == \A k \in DOMAIN reminders : reminders[k].sent <= 1

\* In the list of what is pending (RecurringExpensesService.findPending).
Pending(e) == e \in Active /\ <<period, e>> \notin registered

\* While outages end, an expense that stays pending, and as it is, is reminded
\* of.
PendingIsReminded ==
    \A e \in Expenses, row \in Expense :
        (Pending(e) /\ expenses[e] = row)
        ~> (~ Pending(e) \/ expenses[e] # row \/ reminders[<<period, e>>].sent > 0)

=============================================================================
