------------------------------ MODULE MCWatchNudge -----------------------------
(* WatchNudge on a small instance: model values come from the configuration. *)
EXTENDS WatchNudge
===============================================================================
