--------------------------- MODULE MCTakeProfit ---------------------------
(* The scenarios in which TLC checks TakeProfit: one without a fault, and  *)
(* large sets of faults that one or more of the properties survive.        *)
EXTENDS TakeProfit

Quiet ==
  [faults |-> {}, fair |-> TRUE, sizes |-> {3, 5}, messages |-> 4, resting |-> 6]

Safe(faults, messages, resting) ==
  [faults |-> faults, fair |-> FALSE, sizes |-> {2},
   messages |-> messages, resting |-> resting]

Live(faults) == [Safe(faults, 1, 1) EXCEPT !.fair = TRUE]

EachTolerated ==
  {Quiet,
   Safe({"placeFails", "overtakes", "reordered"}, 2, 2),
   Safe({"placeFails", "reordered", "syncRaces"}, 2, 2),
   Safe({"placeFails", "replyLost", "overtakes", "syncRaces"}, 1, 1),
   Safe({"replyLost", "overtakes", "reordered", "crash"}, 1, 1),
   Safe(FaultNames \ {"replayed"}, 1, 1),
   Live({"overtakes", "replayed", "syncRaces", "crash"})}
============================================================================
