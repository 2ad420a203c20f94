--------------------------- MODULE MCWriteSurface ---------------------------
(* Instances of WriteSurface for TLC: every surface, with a value that makes   *)
(* the call fail its simulation.                                               *)
EXTENDS WriteSurface
CONSTANTS empty, preset, wrong, none
Spellings == UNION {{s \in [DOMAIN f -> {preset, wrong}] : TRUE} : f \in Surfaces}
Passes(c) == \A f \in DOMAIN c : c[f] # wrong
=============================================================================
