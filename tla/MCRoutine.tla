------------------------------- MODULE MCRoutine -------------------------------
(* Routine on a small instance: model values come from the configuration. *)
EXTENDS Routine, TLC

CONSTANTS work, gym, badge

\* The gym is expected to need the badge from the start; work has to learn it.
MCStarter == work :> {} @@ gym :> {badge}
\* The habit is 4 and 5; the odd trip comes before it, after it, or both.
MCCalendars == {<<0, 4, 5, 0>>}
Symmetry == Permutations(Requests)
===============================================================================
