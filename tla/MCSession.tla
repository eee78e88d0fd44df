------------------------------ MODULE MCSession ------------------------------
(* Session on a small instance: model values come from the configuration. *)
EXTENDS Session, TLC

Symmetry == Permutations(Turns) \cup Permutations(Places)
===============================================================================
