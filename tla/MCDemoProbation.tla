-------------------------- MODULE MCDemoProbation --------------------------
(* Model checking of DemoProbation.                                        *)
EXTENDS DemoProbation, TLC

ConfigSymmetry == Permutations(Config)
============================================================================
