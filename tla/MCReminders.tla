---------------------------- MODULE MCReminders ----------------------------
EXTENDS Reminders

TwoMonths == <<4, 2>>

\* What is sent besides the reminder, a few kinds of request at a time.
SomeRequests == {{"register", "salary"}, {"register", "unregister"}, {"edit"}, {"read", "salary"}}

=============================================================================
