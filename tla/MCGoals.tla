------------------------------ MODULE MCGoals ------------------------------
EXTENDS Goals, TLC

\* One client that sends every request, one after the other.
Alone == [c1 |-> {"create", "update", "remove", "contribute"}, c2 |-> {}]

\* Two clients whose requests overlap, without and with removals.
Saving   == [c1 |-> {"create", "contribute"}, c2 |-> {"update", "contribute"}]
Removing == [c1 |-> {"create", "contribute"}, c2 |-> {"remove", "contribute"}]

\* The same over several goals, without edits.
Savings == {[Alone EXCEPT !.c1 = @ \ {"update"}], [Saving EXCEPT !.c2 = {"contribute"}]}

Together == {Alone, Saving, Removing} \union Savings

Used(table) == {i \in DOMAIN table : table[i] # NotCreated}

\* A bound: several goals are all alike, and contributed to in ones; otherwise
\* there is one goal, with two contributions.
FewGoals ==
    IF sends \in Savings
    THEN /\ \A g \in Exist(goals) : goals[g].target = 3 /\ goals[g].status # "PAUSED" /\ goals[g].due = 1
         /\ \A c \in Clients : (requests[c] # Idle /\ requests[c].op = "contribute") =>
                requests[c].amount = 1
    ELSE Cardinality(Used(goals)) <= 1 /\ Cardinality(Used(contributions)) <= 2

AnyIds == Permutations(GoalIds) \union Permutations(ContributionIds)

=============================================================================
