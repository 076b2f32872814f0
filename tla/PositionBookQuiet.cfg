\* Three symbols, two slots, threads that do not overlap, crashes and restarts.
CONSTANTS
  s1 = s1
  s2 = s2
  s3 = s3
  NoSymbol = NoSymbol
  Symbol = {s1, s2, s3}
  MaxPositions = 2
  Lot = 2
  Attempts = 3
  LinkedOrders = TRUE
  RecoverOrphans = TRUE
  FlattenOnBoot = FALSE
  Overlap = FALSE
  Faults = {"crash"}
  MaxSize = 4
  MaxFills = 2
SYMMETRY SymbolSymmetry
SPECIFICATION Spec
INVARIANTS NeverUnderstated ExposureLimit EveryPositionManaged
