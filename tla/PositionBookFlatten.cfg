\* A restart with emergency_flatten_on_startup; no call fails.
CONSTANTS
  s1 = s1
  s2 = s2
  NoSymbol = NoSymbol
  Symbol = {s1, s2}
  MaxPositions = 2
  Lot = 2
  Attempts = 3
  LinkedOrders = TRUE
  RecoverOrphans = TRUE
  FlattenOnBoot = TRUE
  Overlap = FALSE
  Faults = {"crash"}
  MaxSize = 4
  MaxFills = 2
SPECIFICATION Spec
PROPERTY FlattenClosesAll
