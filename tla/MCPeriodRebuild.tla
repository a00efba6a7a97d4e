-------------------------- MODULE MCPeriodRebuild --------------------------
EXTENDS PeriodRebuild

\* One client that sends every request, one after the other.
Alone == [c1 |-> {"create", "update", "remove", "current", "migrate"}, c2 |-> {}]

\* Two clients whose requests overlap.
Creating == [c1 |-> {"create"}, c2 |-> {"create", "migrate"}]
Looking  == [c1 |-> {"create"}, c2 |-> {"current"}]

Together == {Alone, Creating, Looking}

\* c2 found no period, and is between the reads of a rebuild that runs outside a
\* transaction: c1 has created the salaries since, and exchanged their dates
\* since c2 read them.  c2 sends nothing after that.
Editing == [c1 |-> {"update"}, c2 |-> {"looked"}]

SalariesOn(dates) == [i \in TxIds |-> [date |-> dates[i], kind |-> "salary"]]

InitEdited ==
    /\ sends = Editing
    /\ db = BuiltTables(SalariesOn(<<0, 1>>), {})
    /\ LET read == SalariesOn(<<1, 0>>)
       IN  tx = [c1 |-> Idle,
                 c2 |-> [NewRequest EXCEPT
                            !.at = "existing", !.then = <<"find", "commit">>, !.date = 1,
                            !.from = 1, !.cover = {1}, !.atomic = FALSE, !.alone = FALSE,
                            !.got = DesiredPeriods(read, {0, 1})]]

MCSpec == (InitRebuild \/ InitEdited) /\ [][NextRebuild]_rebuildVars

\* A bound: these edits take two of the instants.
EditsTakeTwoInstants ==
    sends = Editing =>
        \A c \in Clients : tx[c] # Idle => tx[c].date <= 1

=============================================================================
