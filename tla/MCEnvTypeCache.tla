--------------------------- MODULE MCEnvTypeCache ---------------------------
(* Instances of EnvTypeCache for TLC: the constants are model values.      *)
EXTENDS EnvTypeCache, TLC
=============================================================================
