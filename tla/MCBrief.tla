-------------------------------- MODULE MCBrief --------------------------------
(* Brief on a small instance: model values come from the configuration. *)
EXTENDS Brief, TLC

Symmetry == Permutations(Calls)
===============================================================================
