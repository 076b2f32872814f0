-------------------------- MODULE MCPositionBook --------------------------
(* Constant values for checking PositionBook with TLC.                     *)
EXTENDS PositionBook, TLC

SymbolSymmetry == Permutations(Symbol)
============================================================================
