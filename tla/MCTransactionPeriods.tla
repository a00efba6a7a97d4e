------------------------ MODULE MCTransactionPeriods ------------------------
(***************************************************************************)
(* TransactionPeriods over three days: midnight and a later instant of the *)
(* first and the last one, a later instant of the one between.             *)
(***************************************************************************)
EXTENDS TransactionPeriods

MCTxIds == 1..3
MCDayLength == 2
MCInstants == {0, 1, 3, 4, 5}
=============================================================================
