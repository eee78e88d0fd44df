----------------------------- MODULE MCLeaveNudge -----------------------------
(* LeaveNudge on a small instance: model values come from the configuration. *)
EXTENDS LeaveNudge, TLC

Symmetry == Permutations(Items) \cup Permutations(Scans) \cup Permutations(Drains)
===============================================================================
