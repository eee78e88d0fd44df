------------------------------- MODULE MCRecollect ------------------------------
(* Recollect on a small instance: model values come from the configuration. *)
EXTENDS Recollect

CONSTANTS airpods, case, keys, inHand, onTable, byAirpods, leaving

\* "airpods" is part of "airpods case" and of "next to the airpods".
MCWithin == {<<n, n>> : n \in Names} \cup {<<airpods, case>>}
MCMentions == [d \in Details |-> IF d = byAirpods THEN {airpods} ELSE {}]

Report(n, d, c) == [name |-> n, detail |-> d, conf |-> c]
\* Nothing in view; two things, one of them reported twice.
MCFrames == {{}, {Report(keys, inHand, 9), Report(keys, onTable, 6),
                  Report(case, byAirpods, 9)}}
MCSayings == {[name |-> keys, detail |-> onTable]}

\* A short day, a long one in which a time comes twice, and a short one.
MCDayLengths == <<1, 2, 1>>
MCWallClock == [t \in Moments |-> IF t = 2 THEN 1 ELSE t]
===============================================================================
