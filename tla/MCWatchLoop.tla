------------------------------ MODULE MCWatchLoop ------------------------------
(* WatchLoop on a small instance: model values come from the configuration. *)
EXTENDS WatchLoop
===============================================================================
