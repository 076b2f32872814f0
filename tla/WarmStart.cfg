\* Three batches of two candidates, three units of time, two kills, one edit of
\* the settings.
CONSTANTS
  Setups <- AllSetups
  Samples = 2
  MaxBatches = 3
  Budget = 3
  Floor = 1
  MaxKills = 2
  MaxEdits = 1
  StopAt = 2
  Tp1At = 1
  Tp2At = 3
  MaxHold = 5
  Move = 1
  Hold = 1
  Cost = 1
  Limit = 3
SPECIFICATION FairSpec
INVARIANTS SeedVetted CheckpointTrue TradesOnProbation 
INVARIANTS TripsConservative FifoPairing CandlesOnce
PROPERTY InitEnds
