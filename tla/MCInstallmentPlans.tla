------------------------- MODULE MCInstallmentPlans -------------------------
(* Small plans and edits for TLC. *)
EXTENDS InstallmentPlans, TLC

NoExpense == [version |-> 0]

AnyClient == Permutations(Clients)

Body(kind, principal, count, first, billed, recognizing, category) ==
    [kind |-> kind, principal |-> principal, count |-> count, start |-> 0, first |-> first,
     billed |-> billed, recognizing |-> recognizing, category |-> category,
     status |-> "ACTIVE", settlement |-> Null]

\* 5 in three installments is 2, 2 and 1; 4 in two is 2 and 2.
AllPlans ==
    {Body("PURCHASE", 5, 3, 0, 0, TRUE, "FOOD"),
     Body("LEGACY",   5, 3, 0, 1, TRUE, "FOOD"),
     Body("REFINANCE", 4, 2, 1, 0, FALSE, Null),
     Body("PURCHASE", 4, 2, 1, 2, TRUE, "FOOD"),
     Body("LEGACY", 4, 2, 1, 0, TRUE, Null)}

\* Refused: its installments were all billed before.
Finished == Body("LEGACY", 4, 2, 0, 2, TRUE, "FOOD")

\* 3 in two installments is 2 and 1.
ShortPurchase == {Body("PURCHASE", 3, 2, 0, 0, TRUE, "FOOD"), Finished}
ShortPlans == ShortPurchase \union {Body("LEGACY", 3, 2, 0, 0, TRUE, "FOOD")}

NoPatch == [f \in StructuralFields \union {"category"} |-> Unchanged]

AllPatches ==
    {[NoPatch EXCEPT !.principal = 4], [NoPatch EXCEPT !.count = 2],
     [NoPatch EXCEPT !.billed = 1], [NoPatch EXCEPT !.billed = 2],
     [NoPatch EXCEPT !.first = 1], [NoPatch EXCEPT !.start = 1],
     [NoPatch EXCEPT !.start = 1, !.first = 1],
     [NoPatch EXCEPT !.recognizing = TRUE], [NoPatch EXCEPT !.recognizing = FALSE],
     [NoPatch EXCEPT !.recognizing = FALSE, !.category = Null],
     [NoPatch EXCEPT !.category = "HOME"]}

TermPatches ==
    {[NoPatch EXCEPT !.principal = 4], [NoPatch EXCEPT !.count = 2],
     [NoPatch EXCEPT !.billed = 2], [NoPatch EXCEPT !.category = "HOME"],
     [NoPatch EXCEPT !.recognizing = FALSE, !.category = Null]}

\* One client, plans of up to three installments.
Alone ==
    {[clients |-> {c}, plans |-> AllPlans, patches |-> AllPatches,
      periods |-> {0 .. 2, 2 .. 4}, months |-> 3] : c \in Clients}

\* All clients, with reads and writes that interleave, and plans of two.
Together ==
    [clients |-> Clients, plans |-> ShortPlans, patches |-> TermPatches,
     periods |-> {0 .. 6}, months |-> 1]

AloneAndTogether == Alone \union {Together}

Pair == {[Together EXCEPT !.plans = ShortPurchase, !.patches = {}]}

EveryPlan == AllPlans \union ShortPlans
EveryPatch == AllPatches \union TermPatches
EveryPeriod == {0 .. 2, 2 .. 4, 0 .. 6}

=============================================================================
