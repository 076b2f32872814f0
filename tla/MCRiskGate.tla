---------------------------- MODULE MCRiskGate ----------------------------
(* Constant values for checking RiskGate with TLC.                         *)
EXTENDS RiskGate, TLC

SymbolSymmetry == Permutations(Symbol)
============================================================================
