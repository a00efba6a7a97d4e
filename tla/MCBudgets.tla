----------------------------- MODULE MCBudgets -----------------------------
EXTENDS Budgets, TLC

\* One client whose requests change what is spent, or what may be.
Recorder  == [c1 |-> {"add", "change", "ledgers", "resetSpent", "fixed"}, c2 |-> {}]
Planner   == [c1 |-> {"add", "recalculate", "fixed", "set"}, c2 |-> {}]

\* Two clients whose transactions overlap.
Recording     == [c1 |-> {"add", "change"}, c2 |-> {"add"}]
Recalculating == [c1 |-> {"add"}, c2 |-> {"add", "recalculate"}]

SmallTeams  == {Recorder, Planner, Recording, Recalculating}
Overlapping == {Recording, Recalculating}

\* The categories of the rows.
CategoriesUsed ==
    {k \in Categories :
        \/ \E p \in Periods : db[Budget(p, k)] # NotCreated
        \/ db[Rule(k)] # NotCreated
        \/ \E m \in MovementIds : Exists(db, Movement(m)) /\ db[Movement(m)].category = k
        \/ \E f \in FixedIds : Exists(db, Fixed(f)) /\ db[Fixed(f)].category = k}

\* A bound: one category while one client sends requests.
OneCategoryAlone ==
    (\E c \in Clients : sends[c] = {}) => Cardinality(CategoriesUsed) <= 1

AnyCategory == Permutations(Categories)

=============================================================================
