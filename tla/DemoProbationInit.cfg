\* Bot and start script, every interleaving of the two judging threads.
CONSTANTS
  c1 = c1
  c2 = c2
  c3 = c3
  Config = {c1, c2, c3}
  NoConfig = NoConfig
  Stream = TRUE
  Timer = FALSE
  Adopt = FALSE
  AutoReinit = TRUE
  RequireFlat = TRUE
  Crashes = FALSE
SPECIFICATION FairSpec
INVARIANT NeverUnvetted
PROPERTIES FailureStopsRuntime InitLeadsToCandidate
