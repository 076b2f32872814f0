---------------------------- MODULE MCAutomation ----------------------------
(* Symmetry for checking the invariants of Automation with TLC.            *)
EXTENDS Automation, TLC

ConfigSymmetry == Permutations(Config)
=============================================================================
