\* Without a fault, and with the faults the properties survive.
CONSTANTS
  Scenarios <- EachTolerated
  Tp1Pct = 50
  Tp2Pct = 50
  MinQty = 1
  LinkedOrders = TRUE
  MaxLives = 2
  MaxBooked = 2
SPECIFICATION FairSpec
INVARIANTS LadderFits PhaseHonest FillsAccounted NeverOverbooked
PROPERTIES PhaseMonotone  BreakevenFollows 
