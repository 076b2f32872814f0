--------------------------- MODULE MCAllocation ---------------------------
(* Constant values for checking Allocation with TLC.                       *)
EXTENDS Allocation, TLC

(* A total budget alone, and all budgets at once.                          *)
TotalAlone == [total |-> 7, side |-> [d \in Side |-> 0], cluster |-> 0,
               weighted |-> TRUE, stage4 |-> FALSE]
AllBudgets == [total |-> 7, side |-> [d \in Side |-> IF d = "Buy" THEN 5 ELSE 0],
               cluster |-> 4, weighted |-> FALSE, stage4 |-> TRUE]
EveryLimit == {TotalAlone, AllBudgets}

SymbolSymmetry == Permutations(Symbol)
============================================================================
