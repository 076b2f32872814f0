------------------------- MODULE MCConfigRegistry -------------------------
(* Constant values for checking ConfigRegistry with TLC.                   *)
EXTENDS ConfigRegistry, TLC

ConfigSymmetry == Permutations(Config)
RegistrySymmetry == Permutations(Config) \cup Permutations(Proc)
============================================================================
