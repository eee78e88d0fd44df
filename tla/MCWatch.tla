-------------------------------- MODULE MCWatch --------------------------------
(* Watch on a small instance: model values come from the configuration. *)
EXTENDS Watch, TLC

Symmetry == Permutations(Items) \cup Permutations(Requests)
===============================================================================
