------------------------------ MODULE MCAccounts ------------------------------
(* Small products and edits for TLC. *)
EXTENDS Accounts, TLC

AnyClient == Permutations(Clients)

MidMonth == [statementDay |-> 15, paymentDueDay |-> 5]

Savings == [type |-> "SAVINGS_ACCOUNT", hasDebitCard |-> TRUE, hasDigits |-> TRUE,
            creditLimit |-> NoLimit, cycle |-> NoCycle]
Plain   == [Savings EXCEPT !.hasDebitCard = FALSE, !.hasDigits = FALSE]
Card    == [Plain EXCEPT !.type = "CREDIT_CARD", !.cycle = MidMonth]
Configured == [Card EXCEPT !.creditLimit = 1]

NoPatch == [f \in ProductFields |-> Unchanged]

AllPatches ==
    {[NoPatch EXCEPT !.type = "CREDIT_CARD"], [NoPatch EXCEPT !.type = "SAVINGS_ACCOUNT"],
     [NoPatch EXCEPT !.type = "CASH"],
     [NoPatch EXCEPT !.type = "SAVINGS_ACCOUNT", !.creditLimit = NoLimit, !.cycle = NoCycle],
     [NoPatch EXCEPT !.type = "SAVINGS_ACCOUNT", !.cycle = NoCycle],
     [NoPatch EXCEPT !.creditLimit = 1], [NoPatch EXCEPT !.creditLimit = NoLimit],
     [NoPatch EXCEPT !.cycle = MidMonth], [NoPatch EXCEPT !.cycle = NoCycle],
     [NoPatch EXCEPT !.hasDebitCard = FALSE, !.hasDigits = FALSE],
     [NoPatch EXCEPT !.hasDebitCard = TRUE], [NoPatch EXCEPT !.hasDigits = TRUE]}

CardDays == {1, 5, 15, 28, 30, 31}
AllCycles == [statementDay : CardDays, paymentDueDay : CardDays]

CardsOfAllCycles == {[Configured EXCEPT !.cycle = cycle] : cycle \in AllCycles}
AllBodies == {Savings, Plain, Card, Configured} \union CardsOfAllCycles

NewYear == [year |-> 2027, month |-> 1, day |-> 1]

\* A client that sends every request, about one account.
Alone(c) ==
    [clients |-> {c}, accounts |-> {"a1"}, bodies |-> {Savings, Plain, Card, Configured},
     patches |-> AllPatches, types |-> {"EXPENSE"}, amounts |-> Amounts, limits |-> {1, 2},
     history |-> 3, since |-> NewYear, until |-> NewYear]

\* All clients, with reads and writes that interleave, and money between a card and
\* an account of savings.
Together ==
    [Alone(0) EXCEPT !.clients = Clients, !.accounts = {"a1", "a2"}, !.bodies = {Savings, Configured},
                     !.patches = {}, !.types = {"TRANSFER"}, !.limits = {1}, !.history = 2]

\* A card of any cycle, from a new year to the end of February of the leap year
\* after it.
DayByDay(c) ==
    [Alone(c) EXCEPT !.bodies = CardsOfAllCycles, !.patches = {}, !.types = {}, !.amounts = {},
                     !.limits = {}, !.history = 0, !.until = [year |-> 2028, month |-> 3, day |-> 1]]

AllScopes == {Together} \union UNION {{Alone(c), DayByDay(c)} : c \in Clients}

=============================================================================
