\* Bot, timer, adoptions, crashes and restarts; the stream reports no trade.
CONSTANTS
  c1 = c1
  c2 = c2
  c3 = c3
  Config = {c1, c2, c3}
  NoConfig = NoConfig
  Stream = FALSE
  Timer = TRUE
  Adopt = TRUE
  AutoReinit = TRUE
  RequireFlat = TRUE
  Crashes = TRUE
SPECIFICATION Spec
PROPERTY ReinitOnlyFlat
SYMMETRY ConfigSymmetry
