\* One symbol, every interleaving and every fault.
CONSTANTS
  s1 = s1
  NoSymbol = NoSymbol
  Symbol = {s1}
  MaxPositions = 1
  Lot = 1
  Attempts = 2
  LinkedOrders = FALSE
  RecoverOrphans = TRUE
  FlattenOnBoot = TRUE
  Overlap = TRUE
  Faults = {"lostReply", "closeRejected", "crash", "bootSyncFails", "duplicateFill"}
  MaxSize = 2
  MaxFills = 1
SPECIFICATION FairSpec
PROPERTY ReconciliationHeals
