---------------------------- MODULE MCArrayArena ----------------------------
(* Words of three bits: capacities 2 and 4 are reached by growth, 2^31 of   *)
(* the code corresponds to 4.  A snapshot and a box share the buffers.      *)
EXTENDS ArrayArena, TLC

\* Elements are only copied and compared.
ValueSymmetry == Permutations(Values)
=============================================================================
