CONSTANTS
    Expenses = {e1, e2}
    DueDays = {1, 4}
    MonthLengths <- TwoMonths
    REMINDER_WINDOW_DAYS = 1
    Plays <- SomeRequests
    LastPeriod = 2
    MaxOutages = 1
    Absent = Absent
    Removed = Removed
    None = None
SPECIFICATION FairRemindersSpec
INVARIANTS
    OneReminderPerPeriod
PROPERTIES
    EveryDueIsReminded
    PendingIsReminded
