-------------------------------- MODULE MCSSI --------------------------------
(***************************************************************************)
(* Small instances of SSI.                                                 *)
(***************************************************************************)
EXTENDS SSI, TLC

Symmetry == Permutations(Key) \cup Permutations(Val) \cup Permutations(Tx)
==============================================================================
