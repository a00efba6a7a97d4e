--------------------------- MODULE MCPeriodLedger ---------------------------
(***************************************************************************)
(* PeriodLedger over two days, not adjacent ones: a later instant of the   *)
(* first, midnight and a later instant of the other.                       *)
(***************************************************************************)
EXTENDS PeriodLedger

MCDayLength == 2
MCInstants == {1, 4, 5}

\* Salaries, expenses and loans, and a contribution; no loan is dated at midnight.
Long == [types |-> {"salary", "expense", "loan"}, instants |-> MCInstants,
         loanInstants |-> {1, 5}, contributions |-> {"c1"}]

\* Every other type, on two instants, the later one at midnight, and
\* two contributions.
Broad == [types |-> {"salary", "income", "saving", "transfer", "purchase", "installment", "loan"},
          instants |-> {1, 4}, loanInstants |-> {1}, contributions |-> {"c1", "c2"}]

LongAndBroad == {Long, Broad}

\* Loans dated at midnight too, over three days.
ThreeDays == {0, 1, 3, 4, 5}
Midnight == {[Long EXCEPT !.instants = ThreeDays, !.loanInstants = ThreeDays]}

=============================================================================
