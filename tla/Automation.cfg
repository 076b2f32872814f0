\* The timer's cycle with its failing steps, and an operator.
CONSTANTS
  c1 = c1
  c2 = c2
  c3 = c3
  NoConfig = NoConfig
  timer = timer
  Config = {c1, c2, c3}
  Proc = {timer}
  Window = 0
  EvalGap = 1
  OptGap = 1
  AdoptGap = 1
  EvalTrades = 1
  AdoptTrades = 1
  MaxTrades = 2
  RequireShadow = TRUE
  Operator = {"activate", "reject"}
  Lossy = {"readiness", "judged", "evaluated"}
SPECIFICATION Spec
SYMMETRY ConfigSymmetry
  
PROPERTIES AdoptionSpaced ShadowedFirst
