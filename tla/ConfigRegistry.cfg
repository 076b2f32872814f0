\* One process at a time, every entry point, crashes between transactions.
CONSTANTS
  c1 = c1
  c2 = c2
  c3 = c3
  c4 = c4
  p1 = p1
  Config = {c1, c2, c3, c4}
  NoConfig = NoConfig
  Proc = {p1}
  Ops = {"register", "bootstrap", "activate", "stage", "reject", "rollback", "rollback_to"}
  Crashes = TRUE
SPECIFICATION Spec
INVARIANT WorkflowKeepsOneActive
PROPERTIES NoFlipFlop ImplementsPointer
