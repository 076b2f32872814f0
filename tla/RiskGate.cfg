\* Three symbols, two per side, three in all, stage 5, cycles that end.
CONSTANTS
  s1 = s1
  s2 = s2
  s3 = s3
  Symbol = {s1, s2, s3}
  MaxPositions = 3
  MaxPerSide = 2
  MaxTradesPerHour = 3
  ErrorThreshold = 1
  LossLimit = 1
  Hour = 2
  Stage5 = TRUE
SPECIFICATION CycleSpec
INVARIANTS SideLimit HourlyLimit
 
CHECK_DEADLOCK FALSE
